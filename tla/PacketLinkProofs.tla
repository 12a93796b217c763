--------------------------- MODULE PacketLinkProofs ---------------------------
(***************************************************************************)
(* A link that keeps the order of its frames and leaves their pointers     *)
(* alone implements PacketLink: every virtual channel is a lossy queue of  *)
(* the packets packed on it, and a frame that is lost costs the packets it *)
(* carries a part of and no other.                                         *)
(***************************************************************************)
EXTENDS TmLinkProofs

\* A channel's octets are in the order in which their packets were packed.
Ordered(S) ==
    \A i, j \in 1 .. Len(S) : i < j =>
        \/ S[i].pkt.id < S[j].pkt.id
        \/ S[i].pkt = S[j].pkt /\ S[i].at < S[j].at

NumbersOK == \A v \in VCs :
    Ordered(stream[v]) /\ \A i \in 1 .. Len(stream[v]) : stream[v][i].pkt.id \in 1 .. packets[v]

\* Frames under way are in the order of what they carry, behind the last taken.
OrderOK ==
    /\ \A i, j \in 1 .. Len(channel) :
          i < j /\ channel[i].ours /\ channel[j].ours /\ channel[i].vc = channel[j].vc
            => channel[i].from + Len(channel[i].data) <= channel[j].from
    /\ \A i \in 1 .. Len(channel) :
          channel[i].ours /\ lastFrame[channel[i].vc] # None => End(channel[i].vc) <= channel[i].from

\* What was emitted on a channel is older than all behind its first n octets.
Before(v, n) ==
    \A s \in ToSet(delivered[v]) : \A i \in 1 .. Len(stream[v]) :
        i > n => s[1].pkt.id < stream[v][i].pkt.id

FrontOf(v) == Mark(v) - Len(pending[v])

PastOK ==
    /\ \A v \in VCs : Before(v, emitted[v]) /\ (inSync[v] => Before(v, FrontOf(v)))
    /\ \A i \in 1 .. Len(channel) : channel[i].ours => Before(channel[i].vc, channel[i].from)
    /\ pc # "ready" => inSync[cur]

OInv == NumbersOK /\ OrderOK /\ PastOK

-----------------------------------------------------------------------------

LEMMA BeforeLater ==
    ASSUME NEW v, NEW m \in Int, NEW n \in Int, m <= n, Before(v, m), Len(stream[v]) \in Nat
    PROVE  Before(v, n)
BY DEF Before

LEMMA ChannelFrame ==
    ASSUME LInv, NEW i \in 1 .. Len(channel)
    PROVE  /\ channel[i] \in Frame /\ channel[i] \in Known /\ channel[i].vc \in VCs
           /\ channel[i].from \in Nat /\ Len(channel[i].data) \in Nat
           /\ channel[i].from + Len(channel[i].data) <= emitted[channel[i].vc]
           /\ emitted[channel[i].vc] \in Nat
<1>1. channel \in Seq(Frame)
  BY DEF LInv, FramesOK
<1>2. PICK f : f = channel[i]
  OBVIOUS
<1>3. f \in Frame /\ f \in Known
  <2>1. f \in Frame /\ f \in ToSet(channel)
    BY <1>1, <1>2 DEF ToSet
  <2>2. f # None
    BY <2>1, LinkAssumption
  <2>3. QED BY <2>1, <2>2 DEF Known
<1>4. f.vc \in VCs /\ f.from \in Nat /\ f.data \in Seq(Octet)
  BY <1>3 DEF Frame
<1>5. FrameOK(f)
  BY <1>3 DEF LInv, FramesOK
<1>6. QED BY <1>2, <1>3, <1>4, <1>5 DEF FrameOK, LInv, SenderOK

LEMMA LastFrame ==
    ASSUME LInv, NEW v \in VCs, lastFrame[v] # None
    PROVE  End(v) \in Nat /\ End(v) <= emitted[v] /\ emitted[v] \in Nat
<1>1. PICK f : f = lastFrame[v]
  OBVIOUS
<1>2. f \in Known /\ f.vc = v
  BY <1>1 DEF Known, LInv, FramesOK
<1>3. FrameOK(f)
  BY <1>2 DEF LInv, FramesOK
<1>4. f.from \in Nat /\ f.data \in Seq(Octet)
  BY <1>3 DEF FrameOK, Frame
<1>5. End(v) = f.from + Len(f.data)
  BY <1>1 DEF End
<1>6. QED BY <1>2, <1>3, <1>4, <1>5 DEF FrameOK, LInv, SenderOK

\* What is emitted has a number.
LEMMA DeliveredNumber ==
    ASSUME LInv, NumbersOK, NEW v \in VCs, NEW s \in ToSet(delivered[v])
    PROVE  s[1].pkt.id \in 1 .. packets[v]
<1>1. Genuine(v, s)
  BY DEF LInv, DeliveredOK
<1>2. s[1] \in ToSet(stream[v])
  BY <1>1 DEF Genuine
<1>3. PICK k \in DOMAIN stream[v] : s[1] = stream[v][k]
  BY <1>2 DEF ToSet
<1>4. stream[v] \in Seq(Octet)
  BY DEF LInv, SenderOK
<1>5. k \in 1 .. Len(stream[v])
  BY <1>4
<1>6. QED BY <1>3, <1>5 DEF NumbersOK

\* Frames are lost, marked, missed or taken: the others keep their order.
LEMMA OrderStays ==
    ASSUME LInv, OInv, UNCHANGED <<framer, deframer, lastFrame>>, channel' \in Seq(Frame),
           NEW m \in [1 .. Len(channel') -> 1 .. Len(channel)],
           \A i, j \in 1 .. Len(channel') : i < j => m[i] < m[j],
           \A i \in 1 .. Len(channel') : /\ Alike(channel'[i], channel[m[i]])
                                         /\ channel'[i].ours => channel[m[i]].ours
    PROVE  OInv'
<1>1. /\ stream' = stream /\ packets' = packets /\ emitted' = emitted /\ delivered' = delivered
      /\ pc' = pc /\ cur' = cur /\ rest' = rest /\ pending' = pending /\ inSync' = inSync
      /\ lastFrame' = lastFrame
  BY DEF framer, deframer
<1>2. NumbersOK'
  BY <1>1 DEF OInv, NumbersOK
<1>3. \A v \in VCs : End(v)' = End(v) /\ FrontOf(v)' = FrontOf(v)
  BY <1>1 DEF End, FrontOf, Mark
<1>4. ASSUME NEW i \in 1 .. Len(channel')
      PROVE  /\ m[i] \in 1 .. Len(channel) /\ channel[m[i]].vc \in VCs
             /\ channel'[i].vc = channel[m[i]].vc /\ channel'[i].from = channel[m[i]].from
             /\ channel'[i].data = channel[m[i]].data
             /\ channel'[i].ours => channel[m[i]].ours
  BY ChannelFrame DEF Alike
<1>5. OrderOK'
  <2>1. ASSUME NEW i \in 1 .. Len(channel'), NEW j \in 1 .. Len(channel'), i < j,
               channel'[i].ours, channel'[j].ours, channel'[i].vc = channel'[j].vc
        PROVE  channel'[i].from + Len(channel'[i].data) <= channel'[j].from
    <3>1. m[i] < m[j]
      BY <2>1
    <3>2. channel[m[i]].from + Len(channel[m[i]].data) <= channel[m[j]].from
      BY <1>4, <2>1, <3>1 DEF OInv, OrderOK
    <3>3. QED BY <1>4, <3>2
  <2>2. ASSUME NEW i \in 1 .. Len(channel'), channel'[i].ours, lastFrame'[channel'[i].vc] # None
        PROVE  End(channel[i].vc)' <= channel'[i].from
    <3>1. End(channel[m[i]].vc) <= channel[m[i]].from
      BY <1>1, <1>4, <2>2 DEF OInv, OrderOK
    <3>2. PICK w : w = channel'[i].vc
      OBVIOUS
    <3>3. w \in VCs /\ w = channel[m[i]].vc /\ End(w)' = End(w)
      BY <1>3, <1>4, <3>2
    <3>4. End(channel[i].vc)' = End(w)
      BY <1>1, <3>2 DEF End
    <3>5. QED BY <1>4, <3>1, <3>3, <3>4
  <2>3. QED BY <2>1, <2>2 DEF OrderOK
<1>6. PastOK'
  <2>1. \A v, n : Before(v, n)' = Before(v, n)
    BY <1>1 DEF Before
  <2>2. \A v \in VCs : Before(v, emitted[v])' /\ (inSync'[v] => Before(v, FrontOf(v))')
    BY <1>1, <1>3 DEF OInv, PastOK, Before
  <2>3. ASSUME NEW i \in 1 .. Len(channel'), channel'[i].ours
        PROVE  Before(channel[i].vc, channel[i].from)'
    <3>1. Before(channel[m[i]].vc, channel[m[i]].from)
      BY <1>4, <2>3 DEF OInv, PastOK
    <3>2. QED BY <1>1, <1>4, <3>1 DEF Before
  <2>4. (pc # "ready" => inSync[cur])'
    BY <1>1 DEF OInv, PastOK
  <2>5. QED BY <2>2, <2>3, <2>4 DEF PastOK
<1>7. QED BY <1>2, <1>5, <1>6 DEF OInv

\* A packet is queued: it has the highest number.
LEMMA QueueOrder ==
    ASSUME LInv, OInv, NEW v \in VCs, NEW len \in Nat, NEW idle \in BOOLEAN,
           Queue(v, len, idle), UNCHANGED <<deframer, link>>
    PROVE  OInv' /\ packets' = [packets EXCEPT ![v] = @ + 1]
<1> DEFINE S == stream[v]
           n == packets[v]
           p == [id |-> n + 1, len |-> len, idle |-> idle]
           T == Octets(p)
<1>1. /\ stream' = [stream EXCEPT ![v] = @ \o T] /\ packets' = [packets EXCEPT ![v] = @ + 1]
      /\ emitted' = emitted
  BY DEF Queue
<1>2. /\ delivered' = delivered /\ pc' = pc /\ cur' = cur /\ rest' = rest /\ pending' = pending
      /\ inSync' = inSync /\ lastFrame' = lastFrame /\ channel' = channel
  BY DEF deframer, link
<1>3. /\ S \in Seq(Octet) /\ Len(S) \in Nat /\ n \in Nat
      /\ stream \in [VCs -> Seq(Octet)] /\ packets \in [VCs -> Nat]
  <2>1. stream \in [VCs -> Seq(Octet)] /\ packets \in [VCs -> Nat]
    BY DEF LInv, SenderOK
  <2>2. S \in Seq(Octet) /\ n \in Nat
    BY <2>1
  <2>3. Len(S) \in Nat
    BY <2>2
  <2>4. QED BY <2>1, <2>2, <2>3
<1>4. /\ p \in Packet /\ T \in Seq(Octet) /\ Len(T) = len /\ p.id = n + 1
      /\ \A i \in 1 .. len : T[i] = [pkt |-> p, at |-> i - 1]
  <2>1. p \in Packet /\ p.len = len /\ p.id = n + 1
    BY <1>3 DEF Packet
  <2> HIDE DEF p
  <2>2. QED BY <2>1, OctetsType
<1> HIDE DEF p, T, S, n
<1>5. /\ Len(S \o T) = Len(S) + len
      /\ \A i \in 1 .. Len(S) + len : (S \o T)[i] = IF i <= Len(S) THEN S[i] ELSE T[i - Len(S)]
  <2>1. S \in Seq(Octet) /\ T \in Seq(Octet)
    BY <1>3, <1>4
  <2>2. /\ Len(S \o T) = Len(S) + Len(T)
        /\ \A i \in 1 .. Len(S) + Len(T) :
              (S \o T)[i] = IF i <= Len(S) THEN S[i] ELSE T[i - Len(S)]
    BY <2>1
  <2>3. QED BY <1>4, <2>2
<1>6. stream'[v] = S \o T /\ packets'[v] = n + 1
      /\ \A u \in VCs \ {v} : stream'[u] = stream[u] /\ packets'[u] = packets[u]
  BY <1>1, <1>3 DEF S, n
<1>7. Ordered(S) /\ \A i \in 1 .. Len(S) : S[i].pkt.id \in 1 .. n
  BY DEF OInv, NumbersOK, S, n
<1>8. \A i \in 1 .. Len(S) + len :
        IF i <= Len(S)
        THEN i \in 1 .. Len(S) /\ (S \o T)[i] = S[i] /\ S[i].pkt.id \in 1 .. n
        ELSE (S \o T)[i] = [pkt |-> p, at |-> i - Len(S) - 1]
  <2> SUFFICES ASSUME NEW i \in 1 .. Len(S) + len
               PROVE  IF i <= Len(S)
                      THEN i \in 1 .. Len(S) /\ (S \o T)[i] = S[i] /\ S[i].pkt.id \in 1 .. n
                      ELSE (S \o T)[i] = [pkt |-> p, at |-> i - Len(S) - 1]
    OBVIOUS
  <2>1. CASE i <= Len(S)
    BY <1>3, <1>5, <1>7, <2>1
  <2>2. CASE ~(i <= Len(S))
    <3>1. i - Len(S) \in 1 .. len /\ (S \o T)[i] = T[i - Len(S)]
      BY <1>3, <1>5, <2>2
    <3>2. T[i - Len(S)] = [pkt |-> p, at |-> (i - Len(S)) - 1]
      BY <1>4, <3>1
    <3>3. QED BY <2>2, <3>1, <3>2
  <2>3. QED BY <2>1, <2>2
<1> DEFINE U == S \o T
<1>9. U = S \o T /\ Len(U) = Len(S) + len
  BY <1>5
<1>10. \A i \in 1 .. Len(U) : U[i].pkt.id \in 1 .. n + 1
  <2> SUFFICES ASSUME NEW i \in 1 .. Len(S) + len PROVE U[i].pkt.id \in 1 .. n + 1
    BY <1>5
  <2>1. CASE i <= Len(S)
    <3>1. U[i] = S[i] /\ S[i].pkt.id \in 1 .. n
      BY <1>8, <2>1
    <3> HIDE DEF U
    <3>2. QED BY <1>3, <3>1
  <2>2. CASE ~(i <= Len(S))
    <3>1. U[i] = [pkt |-> p, at |-> i - Len(S) - 1]
      BY <1>8, <2>2
    <3> HIDE DEF U
    <3>2. U[i].pkt.id = n + 1
      BY <1>4, <3>1
    <3>3. QED BY <1>3, <3>2
  <2>3. QED BY <2>1, <2>2
<1>11. Ordered(U)
  <2> SUFFICES ASSUME NEW i \in 1 .. Len(S) + len, NEW j \in 1 .. Len(S) + len, i < j
               PROVE  \/ U[i].pkt.id < U[j].pkt.id
                      \/ U[i].pkt = U[j].pkt /\ U[i].at < U[j].at
    BY <1>5 DEF Ordered
  <2>1. CASE j <= Len(S)
    <3>1. i <= Len(S)
      BY <1>3, <2>1
    <3>2. U[i] = S[i] /\ U[j] = S[j] /\ i \in 1 .. Len(S) /\ j \in 1 .. Len(S)
      BY <1>8, <2>1, <3>1
    <3> HIDE DEF U
    <3>3. QED BY <1>7, <3>2 DEF Ordered
  <2>2. CASE ~(j <= Len(S)) /\ i <= Len(S)
    <3>1. U[i] = S[i] /\ S[i].pkt.id \in 1 .. n /\ U[j] = [pkt |-> p, at |-> j - Len(S) - 1]
      BY <1>8, <2>2
    <3> HIDE DEF U
    <3>2. U[j].pkt.id = n + 1
      BY <1>4, <3>1
    <3>3. QED BY <1>3, <3>1, <3>2, SMTT(30)
  <2>3. CASE ~(j <= Len(S)) /\ ~(i <= Len(S))
    <3>1. /\ U[i] = [pkt |-> p, at |-> i - Len(S) - 1]
          /\ U[j] = [pkt |-> p, at |-> j - Len(S) - 1]
      BY <1>8, <2>3
    <3> HIDE DEF U
    <3>2. i - Len(S) - 1 < j - Len(S) - 1
      BY <1>3
    <3>3. QED BY <3>1, <3>2
  <2>4. QED BY <2>1, <2>2, <2>3
<1> HIDE DEF U
<1>12. NumbersOK'
  <2> SUFFICES ASSUME NEW u \in VCs
               PROVE  /\ Ordered(stream'[u])
                      /\ \A i \in 1 .. Len(stream'[u]) : stream'[u][i].pkt.id \in 1 .. packets'[u]
    BY DEF NumbersOK, Ordered
  <2>1. CASE u = v
    BY <1>6, <1>9, <1>10, <1>11, <2>1
  <2>2. CASE u # v
    BY <1>6, <2>2 DEF OInv, NumbersOK
  <2>3. QED BY <2>1, <2>2
<1>13. \A u \in VCs : End(u)' = End(u) /\ FrontOf(u)' = FrontOf(u)
  BY <1>2 DEF End, FrontOf, Mark
<1>14. ASSUME NEW u \in VCs, NEW k, Before(u, k)
       PROVE  Before(u, k)'
  <2>1. CASE u = v
    <3> SUFFICES ASSUME NEW s \in ToSet(delivered[v]), NEW i \in 1 .. Len(U), i > k
                 PROVE  s[1].pkt.id < U[i].pkt.id
      BY <1>2, <1>6, <1>9, <2>1 DEF Before
    <3>1. s[1].pkt.id \in 1 .. n
      BY DeliveredNumber DEF OInv, n
    <3>2. CASE i <= Len(S)
      <4>1. i \in 1 .. Len(S) /\ U[i] = S[i]
        BY <1>8, <1>9, <3>2
      <4>2. s[1].pkt.id < stream[v][i].pkt.id
        BY <1>14, <2>1, <4>1 DEF Before, S
      <4>3. QED BY <4>1, <4>2 DEF S
    <3>3. CASE ~(i <= Len(S))
      <4>1. U[i] = [pkt |-> p, at |-> i - Len(S) - 1]
        BY <1>8, <1>9, <3>3
      <4>2. U[i].pkt.id = n + 1
        BY <1>4, <4>1
      <4>3. QED BY <1>3, <3>1, <4>2
    <3>4. QED BY <3>2, <3>3
  <2>2. CASE u # v
    BY <1>2, <1>6, <1>14, <2>2 DEF Before
  <2>3. QED BY <2>1, <2>2
<1>15. OrderOK'
  BY <1>2, <1>13, ChannelFrame DEF OInv, OrderOK, End
<1>16. PastOK'
  <2>1. ASSUME NEW u \in VCs
        PROVE  Before(u, emitted[u])' /\ (inSync[u] => Before(u, FrontOf(u)))'
    <3>1. PICK a, b : a = emitted[u] /\ b = FrontOf(u)
      OBVIOUS
    <3>2. Before(u, a) /\ (inSync[u] => Before(u, b))
      BY <3>1 DEF OInv, PastOK
    <3>3. Before(u, a)' /\ (inSync[u] => Before(u, b)')
      BY <1>14, <3>2
    <3>4. emitted'[u] = a /\ FrontOf(u)' = b /\ inSync'[u] = inSync[u]
      BY <1>1, <1>2, <1>13, <3>1
    <3>5. QED BY <3>3, <3>4 DEF Before
  <2>2. ASSUME NEW i \in 1 .. Len(channel), channel[i].ours
        PROVE  Before(channel[i].vc, channel[i].from)'
    <3>1. PICK f : f = channel[i]
      OBVIOUS
    <3>2. Before(f.vc, f.from) /\ f.vc \in VCs
      BY <2>2, <3>1, ChannelFrame DEF OInv, PastOK
    <3>3. Before(f.vc, f.from)'
      BY <1>14, <3>2
    <3>4. channel'[i] = f
      BY <1>2, <3>1
    <3>5. QED BY <3>3, <3>4 DEF Before
  <2>3. QED BY <1>2, <2>1, <2>2 DEF OInv, PastOK
<1>17. QED BY <1>1, <1>12, <1>15, <1>16 DEF OInv

\* A frame is sent: it carries what comes next.
LEMMA SendOrder ==
    ASSUME LInv, OInv, NEW f \in Frame, f.ours => f.from = emitted[f.vc],
           channel' = Append(channel, f), UNCHANGED <<stream, packets, deframer, lastFrame>>,
           \A v \in VCs : emitted'[v] \in Nat /\ emitted[v] <= emitted'[v]
    PROVE  OInv'
<1>1. /\ delivered' = delivered /\ pc' = pc /\ cur' = cur /\ rest' = rest /\ pending' = pending
      /\ inSync' = inSync /\ lastFrame' = lastFrame /\ stream' = stream /\ packets' = packets
  BY DEF deframer
<1>2. channel \in Seq(Frame) /\ Len(channel) \in Nat
  BY DEF LInv, FramesOK
<1>3. /\ Len(channel') = Len(channel) + 1
      /\ \A i \in 1 .. Len(channel) + 1 :
            IF i <= Len(channel) THEN i \in 1 .. Len(channel) /\ channel'[i] = channel[i]
            ELSE i = Len(channel) + 1 /\ channel'[i] = f
  BY <1>2
<1>4. f.vc \in VCs /\ f.from \in Nat
  BY DEF Frame
<1>5. \A v \in VCs : End(v)' = End(v) /\ FrontOf(v)' = FrontOf(v)
  BY <1>1 DEF End, FrontOf, Mark
<1>6. NumbersOK'
  BY <1>1 DEF OInv, NumbersOK
<1>7. OrderOK'
  <2>1. ASSUME NEW i \in 1 .. Len(channel) + 1, NEW j \in 1 .. Len(channel) + 1, i < j,
               channel'[i].ours, channel'[j].ours, channel'[i].vc = channel'[j].vc
        PROVE  channel'[i].from + Len(channel'[i].data) <= channel'[j].from
    <3>1. i <= Len(channel) /\ i \in 1 .. Len(channel) /\ channel'[i] = channel[i]
      BY <1>2, <1>3, <2>1
    <3>2. CASE j <= Len(channel)
      <4>1. j \in 1 .. Len(channel) /\ channel'[j] = channel[j]
        BY <1>3, <3>2
      <4>2. QED BY <2>1, <3>1, <4>1 DEF OInv, OrderOK
    <3>3. CASE ~(j <= Len(channel))
      <4>1. channel'[j] = f
        BY <1>3, <3>3
      <4>2. f.from = emitted[channel[i].vc]
        BY <2>1, <3>1, <4>1
      <4>3. QED BY <3>1, <4>1, <4>2, ChannelFrame
    <3>4. QED BY <3>2, <3>3
  <2>2. ASSUME NEW i \in 1 .. Len(channel) + 1, channel'[i].ours, lastFrame'[channel'[i].vc] # None
        PROVE  End(channel[i].vc)' <= channel'[i].from
    <3>1. PICK w : w = channel'[i].vc
      OBVIOUS
    <3>2. End(channel[i].vc)' = End(w) /\ lastFrame[w] # None
      BY <1>1, <2>2, <3>1 DEF End
    <3>3. End(w) <= channel'[i].from
      <4>1. CASE i <= Len(channel)
        <5>1. i \in 1 .. Len(channel) /\ channel'[i] = channel[i]
          BY <1>3, <4>1
        <5>2. QED BY <2>2, <3>1, <3>2, <5>1 DEF OInv, OrderOK
      <4>2. CASE ~(i <= Len(channel))
        <5>1. channel'[i] = f
          BY <1>3, <4>2
        <5>2. w \in VCs /\ f.from = emitted[w]
          BY <1>4, <2>2, <3>1, <5>1
        <5>3. QED BY <3>2, <5>1, <5>2, LastFrame
      <4>3. QED BY <4>1, <4>2
    <3>4. QED BY <3>2, <3>3
  <2>3. QED BY <1>3, <2>1, <2>2 DEF OrderOK
<1>8. PastOK'
  <2>1. \A v \in VCs : Len(stream[v]) \in Nat /\ emitted[v] \in Nat
    <3>1. \A v \in VCs : stream[v] \in Seq(Octet) /\ emitted[v] \in Nat
      BY DEF LInv, SenderOK
    <3>2. QED BY <3>1
  <2>2. ASSUME NEW u \in VCs
        PROVE  Before(u, emitted[u])' /\ (inSync[u] => Before(u, FrontOf(u)))'
    <3>1. PICK a, b : a = emitted'[u] /\ b = FrontOf(u)
      OBVIOUS
    <3>2. Before(u, emitted[u]) /\ (inSync[u] => Before(u, b))
      BY <3>1 DEF OInv, PastOK
    <3>3. Before(u, a)
      <4>1. a \in Int /\ emitted[u] \in Int /\ emitted[u] <= a
        BY <2>1, <3>1
      <4>2. QED BY <2>1, <3>2, <4>1, BeforeLater
    <3>4. FrontOf(u)' = b
      BY <1>5, <3>1
    <3>5. QED BY <1>1, <3>1, <3>2, <3>3, <3>4 DEF Before
  <2>3. ASSUME NEW i \in 1 .. Len(channel) + 1, channel'[i].ours
        PROVE  Before(channel[i].vc, channel[i].from)'
    <3>1. PICK g : g = channel'[i]
      OBVIOUS
    <3>2. Before(g.vc, g.from)
      <4>1. CASE i <= Len(channel)
        BY <1>3, <2>3, <3>1, <4>1 DEF OInv, PastOK
      <4>2. CASE ~(i <= Len(channel))
        <5>1. g = f /\ g.from = emitted[g.vc]
          BY <1>3, <2>3, <3>1, <4>2
        <5>2. QED BY <1>4, <5>1 DEF OInv, PastOK
      <4>3. QED BY <4>1, <4>2
    <3>3. QED BY <1>1, <3>1, <3>2 DEF Before
  <2>4. QED BY <1>1, <1>3, <2>2, <2>3 DEF OInv, PastOK
<1>9. QED BY <1>6, <1>7, <1>8 DEF OInv

\* A sequence without one of its elements.
LEMMA WithoutOne ==
    ASSUME NEW s \in Seq(Frame), NEW i \in 1 .. Len(s),
           NEW m, m = [k \in 1 .. Len(s) - 1 |-> IF k < i THEN k ELSE k + 1]
    PROVE  /\ RemoveAt(s, i) \in Seq(Frame) /\ Len(RemoveAt(s, i)) = Len(s) - 1
           /\ \A k \in 1 .. Len(s) - 1 : m[k] \in 1 .. Len(s) /\ RemoveAt(s, i)[k] = s[m[k]]
<1> DEFINE a == SubSeq(s, 1, i - 1)
           b == SubSeq(s, i + 1, Len(s))
<1>1. Len(s) \in Nat
  OBVIOUS
<1>2. /\ a \in Seq(Frame) /\ Len(a) = i - 1 /\ \A k \in 1 .. Len(a) : a[k] = s[k]
      /\ b \in Seq(Frame) /\ Len(b) = Len(s) - i
      /\ \A k \in 1 .. Len(b) : b[k] = s[i + k]
      /\ RemoveAt(s, i) = a \o b
  BY <1>1 DEF RemoveAt
<1> HIDE DEF a, b
<1>3. /\ a \o b \in Seq(Frame) /\ Len(a \o b) = Len(a) + Len(b)
      /\ \A k \in 1 .. Len(a) + Len(b) : (a \o b)[k] = IF k <= Len(a) THEN a[k] ELSE b[k - Len(a)]
  <2>1. a \in Seq(Frame) /\ b \in Seq(Frame)
    BY <1>2
  <2>2. QED BY ONLY <2>1
<1>4. Len(a) + Len(b) = Len(s) - 1
  BY <1>1, <1>2
<1>5. ASSUME NEW k \in 1 .. Len(s) - 1
      PROVE  m[k] \in 1 .. Len(s) /\ RemoveAt(s, i)[k] = s[m[k]]
  <2>1. CASE k < i
    <3>1. k \in 1 .. Len(a) /\ k <= Len(a) /\ k \in 1 .. Len(a) + Len(b) /\ m[k] = k
      BY <1>1, <1>2, <2>1
    <3>2. QED BY <1>1, <1>2, <1>3, <2>1, <3>1
  <2>2. CASE ~(k < i)
    <3>1. /\ k - Len(a) \in 1 .. Len(b) /\ ~(k <= Len(a)) /\ k \in 1 .. Len(a) + Len(b)
          /\ i + (k - Len(a)) = k + 1 /\ m[k] = k + 1
      BY <1>1, <1>2, <2>2, SMTT(30)
    <3>2. QED BY <1>1, <1>2, <1>3, <3>1
  <2>3. QED BY <2>1, <2>2
<1>6. QED BY <1>2, <1>3, <1>4, <1>5

\* The channel without its first frame.
LEMMA WithoutFirst ==
    ASSUME NEW s \in Seq(Frame), 1 \in 1 .. Len(s)
    PROVE  /\ Len(RemoveAt(s, 1)) = Len(s) - 1
           /\ \A k \in 1 .. Len(s) - 1 : k + 1 \in 1 .. Len(s) /\ RemoveAt(s, 1)[k] = s[k + 1]
<1>1. PICK m : m = [k \in 1 .. Len(s) - 1 |-> IF k < 1 THEN k ELSE k + 1]
  OBVIOUS
<1>2. /\ Len(RemoveAt(s, 1)) = Len(s) - 1
      /\ \A k \in 1 .. Len(s) - 1 : m[k] \in 1 .. Len(s) /\ RemoveAt(s, 1)[k] = s[m[k]]
  BY <1>1, WithoutOne
<1>3. \A k \in 1 .. Len(s) - 1 : m[k] = k + 1
  BY <1>1
<1>4. QED BY <1>2, <1>3

\* A frame is taken: where it leaves the front of its channel.
LEMMA FrontMoves ==
    ASSUME LInv, NEW f \in Known, Takes(f), Window(f), HandleFrame(f), Note(f), UNCHANGED stream
    PROVE  /\ UNCHANGED delivered
           /\ lastFrame' = [lastFrame EXCEPT ![f.vc] = f]
           /\ \A u \in VCs \ {f.vc} : pending'[u] = pending[u] /\ inSync'[u] = inSync[u]
           /\ pc' # "ready" => cur' = f.vc /\ inSync'[cur']
           /\ pc' = "ready" => pending'[f.vc] \in {<<>>, pending[f.vc]}
           /\ Synced(f) =>
                /\ inSync[f.vc] /\ FrontOf(f.vc) \in Int /\ FrontOf(f.vc) <= f.from
                /\ \/ ~inSync'[f.vc] /\ AcceptBadPointer(f)
                   \/ inSync'[f.vc] /\ FrontOf(f.vc)' = FrontOf(f.vc)
           /\ ~Synced(f) =>
                \/ ~inSync'[f.vc] /\ ~AcceptPointer(f)
                \/ inSync'[f.vc] /\ AcceptPointer(f) /\ FrontOf(f.vc)' = f.from + f.fhp
<1> DEFINE w == f.vc
           d == f.data
           p == f.fhp
           r == SubSeq(d, p + 1, Len(d))
           m == SubSeq(d, 1, p)
<1>1. /\ f \in Frame /\ w \in VCs /\ d \in Seq(Octet) /\ Len(d) \in Nat /\ p \in Nat /\ f.from \in Nat
      /\ p = OnlyIdle => d = <<>>
  <2>1. FrameOK(f)
    BY DEF LInv, FramesOK
  <2>2. f \in Frame
    BY <2>1 DEF FrameOK
  <2>3. w \in VCs /\ d \in Seq(Octet) /\ p \in Nat /\ f.from \in Nat
    BY <2>2 DEF Frame
  <2>4. QED BY <2>1, <2>2, <2>3 DEF FrameOK
<1>2. /\ lastFrame' = [lastFrame EXCEPT ![w] = f] /\ pc = "ready" /\ f.ours
      /\ lastFrame \in [VCs -> Frame \cup {None}]
      /\ pending \in [VCs -> Seq(Octet)] /\ inSync \in [VCs -> BOOLEAN]
  BY DEF Note, Takes, LInv, FramesOK, ReceiverOK, ReceiverTypes
<1>3. lastFrame'[w] = f /\ End(w)' = f.from + Len(d)
  BY <1>1, <1>2 DEF End
<1>4. Synced(f) \in BOOLEAN
  BY <1>1, HeldType DEF LInv
<1>5. ASSUME Synced(f)
      PROVE  /\ FrontOf(w) = f.from - Len(pending[w]) /\ Held(f) = pending[w] /\ inSync[w]
             /\ pending[w] \in Seq(Octet) /\ Len(pending[w]) \in Nat
             /\ FrontOf(w) \in Int /\ FrontOf(w) <= f.from
  <2>1. f.from = End(w)
    BY <1>5, NoGapFollows DEF LInv
  <2>2. Mark(w) = End(w)
    BY <1>2 DEF Mark
  <2>3. pending[w] \in Seq(Octet)
    BY <1>1, <1>2
  <2>4. Len(pending[w]) \in Nat
    BY <2>3
  <2>5. FrontOf(w) = f.from - Len(pending[w])
    BY <2>1, <2>2 DEF FrontOf
  <2>6. FrontOf(w) \in Int /\ FrontOf(w) <= f.from
    BY <1>1, <2>4, <2>5
  <2>7. QED BY <1>5, <2>3, <2>4, <2>5, <2>6 DEF Synced, Held
<1>6. ASSUME p < Len(d)
      PROVE  Len(m) = p /\ Len(r) = Len(d) - p /\ m \in Seq(Octet) /\ r \in Seq(Octet)
  <2> HIDE DEF d, p
  <2>1. QED BY <1>1, <1>6
<1>7. ~Synced(f) => Held(f) = <<>>
  BY <1>1, NothingHeld DEF LInv
<1>8. AcceptPointer(f) => p < Len(d)
  BY DEF AcceptPointer
<1> HIDE DEF m, r, w, d, p
<1>9. CASE AcceptIdle(f)
  <2>1. /\ p = OnlyIdle
        /\ pending' = [pending EXCEPT ![w] = Held(f)]
        /\ inSync' = [inSync EXCEPT ![w] = Synced(f)]
        /\ UNCHANGED <<pc, cur, rest, delivered>>
    BY <1>9 DEF AcceptIdle, Counted, Leave, w, p
  <2>2. inSync'[w] = Synced(f) /\ pending'[w] = Held(f) /\ Len(d) = 0 /\ ~AcceptPointer(f)
    BY <1>1, <1>2, <1>8, <2>1 DEF OnlyIdle
  <2>3. ASSUME Synced(f) PROVE FrontOf(w)' = FrontOf(w)
    <3>1. pending'[w] = pending[w]
      BY <1>5, <2>2, <2>3
    <3>2. Mark(w)' = f.from
      BY <1>1, <1>2, <1>3, <2>1, <2>2 DEF Mark
    <3>3. QED BY <1>5, <2>3, <3>1, <3>2 DEF FrontOf
  <2>4. QED BY <1>1, <1>2, <1>4, <1>5, <1>7, <2>1, <2>2, <2>3 DEF w
<1>10. CASE AcceptBadPointer(f)
  <2>1. /\ pending' = [pending EXCEPT ![w] = <<>>]
        /\ inSync' = [inSync EXCEPT ![w] = FALSE]
        /\ UNCHANGED <<pc, cur, rest, delivered>> /\ p \in Nat /\ p >= Len(d)
    BY <1>1, <1>10 DEF AcceptBadPointer, Leave, w, p, d
  <2>2. ~AcceptPointer(f)
    BY <1>1, <1>8, <2>1
  <2>3. QED BY <1>1, <1>2, <1>5, <1>10, <2>1, <2>2 DEF w
<1>11. CASE AcceptNoStart(f)
  <2>1. UNCHANGED delivered /\ p = NoStart
    BY <1>11 DEF AcceptNoStart, p
  <2>2. CASE /\ Synced(f)
             /\ Leave(f, Held(f) \o f.data, TRUE)
             /\ Continue("last", f, <<>>)
    <3>1. /\ pending' = [pending EXCEPT ![w] = pending[w] \o d]
          /\ inSync' = [inSync EXCEPT ![w] = TRUE]
          /\ pc' = "last" /\ cur' = w
      BY <1>5, <2>2 DEF Leave, Continue, w, d
    <3>2. Len(pending'[w]) = Len(pending[w]) + Len(d)
      <4>1. pending'[w] = pending[w] \o d
        BY <1>1, <1>2, <3>1
      <4>2. QED BY <1>1, <1>5, <2>2, <4>1
    <3>3. FrontOf(w)' = FrontOf(w)
      <4>1. Mark(w)' = f.from + Len(d)
        BY <1>3, <3>1 DEF Mark
      <4> DEFINE x == Len(pending[w])
                 y == Len(d)
      <4>2. FrontOf(w) = f.from - x /\ FrontOf(w)' = (f.from + y) - (x + y) /\ x \in Nat /\ y \in Nat
        BY <1>1, <1>5, <2>2, <3>2, <4>1 DEF FrontOf
      <4> HIDE DEF x, y
      <4>3. QED BY <1>1, <4>2
    <3>4. QED BY <1>1, <1>2, <1>5, <2>1, <2>2, <3>1, <3>3 DEF w
  <2>3. CASE /\ ~Synced(f)
             /\ Leave(f, Held(f), FALSE)
             /\ UNCHANGED <<pc, cur, rest>>
    <3>1. /\ pending' = [pending EXCEPT ![w] = Held(f)]
          /\ inSync' = [inSync EXCEPT ![w] = FALSE]
      BY <2>3 DEF Leave, w
    <3>2. ~AcceptPointer(f)
      <4>1. ASSUME AcceptPointer(f) PROVE FALSE
        <5>1. \/ pc' = "finish"
              \/ pc' = "last"
          BY <4>1 DEF AcceptPointer, Continue
        <5>2. QED BY <1>2, <2>3, <5>1
      <4>2. QED BY <4>1
    <3>3. QED BY <1>1, <1>2, <1>7, <2>1, <2>3, <3>1, <3>2 DEF w
  <2>4. QED BY <1>11, <2>2, <2>3 DEF AcceptNoStart
<1>12. CASE AcceptPointer(f)
  <2>1. UNCHANGED delivered /\ p < Len(d)
    BY <1>12 DEF AcceptPointer, p, d
  <2>2. CASE /\ Synced(f)
             /\ Leave(f, Held(f) \o SubSeq(f.data, 1, f.fhp), TRUE)
             /\ Continue("finish", f, SubSeq(f.data, f.fhp + 1, Len(f.data)))
    <3>1. /\ pending' = [pending EXCEPT ![w] = pending[w] \o m]
          /\ inSync' = [inSync EXCEPT ![w] = TRUE]
          /\ pc' = "finish" /\ cur' = w /\ rest' = r
      BY <1>5, <2>2 DEF Leave, Continue, w, d, m, r, p
    <3>2. Len(pending'[w]) = Len(pending[w]) + p
      <4>1. pending'[w] = pending[w] \o m
        BY <1>1, <1>2, <3>1
      <4>2. Len(pending[w] \o m) = Len(pending[w]) + Len(m)
        BY <1>5, <1>6, <2>1, <2>2
      <4>3. QED BY <1>6, <2>1, <4>1, <4>2
    <3>3. FrontOf(w)' = FrontOf(w)
      <4>1. Mark(w)' = (f.from + Len(d)) - (Len(d) - p)
        BY <1>3, <1>6, <2>1, <3>1 DEF Mark
      <4> DEFINE x == Len(pending[w])
                 y == Len(d)
      <4>2. /\ FrontOf(w) = f.from - x /\ FrontOf(w)' = ((f.from + y) - (y - p)) - (x + p)
            /\ x \in Nat /\ y \in Nat
        BY <1>1, <1>5, <2>2, <3>2, <4>1 DEF FrontOf
      <4> HIDE DEF x, y
      <4>3. QED BY <1>1, <4>2
    <3>4. QED BY <1>1, <1>2, <1>5, <2>1, <2>2, <3>1, <3>3 DEF w
  <2>3. CASE /\ ~Synced(f)
             /\ Leave(f, SubSeq(f.data, f.fhp + 1, Len(f.data)), TRUE)
             /\ Continue("last", f, <<>>)
    <3>1. /\ pending' = [pending EXCEPT ![w] = r]
          /\ inSync' = [inSync EXCEPT ![w] = TRUE]
          /\ pc' = "last" /\ cur' = w
      BY <2>3 DEF Leave, Continue, w, d, r, p
    <3>2. FrontOf(w)' = f.from + p
      <4>1. Mark(w)' = f.from + Len(d) /\ pending'[w] = r
        BY <1>1, <1>2, <1>3, <3>1 DEF Mark
      <4>2. FrontOf(w)' = (f.from + Len(d)) - (Len(d) - p)
        BY <1>6, <2>1, <4>1 DEF FrontOf
      <4>3. QED BY <1>1, <4>2
    <3>3. QED BY <1>1, <1>2, <1>12, <2>1, <2>3, <3>1, <3>2 DEF w, p
  <2>4. QED BY <1>12, <2>2, <2>3 DEF AcceptPointer
<1>13. ~Reject(f) /\ ~Filter(f)
  BY DEF Reject, Filter, Takes
<1>14. QED BY <1>9, <1>10, <1>11, <1>12, <1>13 DEF HandleFrame

\* What is behind the front is newer than what was emitted.
LEMMA FrontTaken ==
    ASSUME LInv, OInv, NEW f \in Known, f.ours => Before(f.vc, f.from), Takes(f), Window(f),
           HandleFrame(f), Note(f), UNCHANGED stream, inSync'[f.vc]
    PROVE  Before(f.vc, FrontOf(f.vc)')
<1>1. f \in Frame /\ f.vc \in VCs /\ f.from \in Nat /\ f.fhp \in Nat /\ f.ours
  BY DEF LInv, FramesOK, FrameOK, Frame, Takes
<1>2. CASE Synced(f)
  <2>1. inSync[f.vc] /\ FrontOf(f.vc)' = FrontOf(f.vc)
    BY <1>2, FrontMoves
  <2>2. QED BY <1>1, <2>1 DEF OInv, PastOK
<1>3. CASE ~Synced(f)
  <2>1. FrontOf(f.vc)' = f.from + f.fhp
    BY <1>3, FrontMoves
  <2>2. PICK m, n : m = f.from /\ n = f.from + f.fhp
    OBVIOUS
  <2>3. m \in Int /\ n \in Int /\ m <= n /\ Before(f.vc, m)
    BY <1>1, <2>2
  <2>4. Len(stream[f.vc]) \in Nat
    <3>1. stream[f.vc] \in Seq(Octet)
      BY <1>1 DEF LInv, SenderOK
    <3>2. QED BY <3>1
  <2>5. Before(f.vc, n)
    BY <2>3, <2>4, BeforeLater
  <2>6. QED BY <2>1, <2>2, <2>5
<1>4. QED BY <1>2, <1>3

\* The first frame under way is taken: the others carry what follows.
LEMMA ReceiveOrder ==
    ASSUME LInv, OInv, ~scene.disorder, Receive
    PROVE  OInv' /\ UNCHANGED <<packets, delivered>>
<1>1. /\ 1 \in 1 .. Len(channel) /\ Window(channel[1]) /\ HandleFrame(channel[1]) /\ Note(channel[1])
      /\ channel' = RemoveAt(channel, 1) /\ UNCHANGED framer
  BY DEF Receive
<1>2. PICK f : f = channel[1]
  OBVIOUS
<1>3. /\ stream' = stream /\ packets' = packets /\ emitted' = emitted
  BY <1>1 DEF framer
<1>4. /\ channel \in Seq(Frame) /\ Len(channel) \in Nat
      /\ lastFrame \in [VCs -> Frame \cup {None}] /\ inSync \in [VCs -> BOOLEAN]
  BY DEF LInv, FramesOK, ReceiverOK, ReceiverTypes
<1>5. f \in Frame /\ f \in Known /\ f.vc \in VCs /\ f.from \in Nat /\ (f.ours => Before(f.vc, f.from))
  BY <1>1, <1>2, ChannelFrame DEF OInv, PastOK
<1>6. /\ Len(channel') = Len(channel) - 1
      /\ \A k \in 1 .. Len(channel') : k + 1 \in 1 .. Len(channel) /\ channel'[k] = channel[k + 1]
                                        /\ 1 < k + 1
  <2>1. /\ Len(RemoveAt(channel, 1)) = Len(channel) - 1
        /\ \A k \in 1 .. Len(channel) - 1 :
              k + 1 \in 1 .. Len(channel) /\ RemoveAt(channel, 1)[k] = channel[k + 1]
    BY <1>1, <1>4, WithoutFirst
  <2>2. QED BY <1>1, <1>4, <2>1
<1>7. \A i \in 1 .. Len(channel') : channel[i + 1].vc \in VCs /\ channel[i + 1].from \in Nat
  BY <1>6, ChannelFrame
<1>8. NumbersOK'
  BY <1>3 DEF OInv, NumbersOK
\* The order of what is left, whatever was taken.
<1>9. ASSUME NEW i \in 1 .. Len(channel'), NEW j \in 1 .. Len(channel'), i < j,
             channel'[i].ours, channel'[j].ours, channel'[i].vc = channel'[j].vc
      PROVE  channel'[i].from + Len(channel'[i].data) <= channel'[j].from
  <2>1. i + 1 < j + 1
    BY <1>9
  <2>2. QED BY <1>6, <1>9, <2>1 DEF OInv, OrderOK
<1>10. ASSUME delivered' = delivered, NEW u, NEW n, Before(u, n)
       PROVE  Before(u, n)'
  BY <1>3, <1>10 DEF Before
<1>11. ASSUME delivered' = delivered, NEW i \in 1 .. Len(channel'), channel'[i].ours
       PROVE  Before(channel[i].vc, channel[i].from)'
  <2>1. Before(channel[i + 1].vc, channel[i + 1].from)
    BY <1>6, <1>11 DEF OInv, PastOK
  <2>2. QED BY <1>3, <1>6, <1>11, <2>1 DEF Before
<1>12. CASE ~Takes(f)
  <2>1. /\ UNCHANGED <<pc, cur, rest, pending, inSync, delivered>> /\ lastFrame' = lastFrame
    <3>1. lastFrame' = lastFrame
      BY <1>1, <1>2, <1>12 DEF Note
    <3>2. Reject(f) \/ Filter(f)
      BY <1>1, <1>2, <1>12 DEF HandleFrame, AcceptIdle, AcceptBadPointer, AcceptNoStart, AcceptPointer
    <3>3. UNCHANGED <<pc, cur, rest, pending, inSync, delivered>>
      BY <3>2 DEF Reject, Filter, deframer
    <3>4. QED BY <3>1, <3>3
  <2>2. \A u \in VCs : End(u)' = End(u) /\ FrontOf(u)' = FrontOf(u)
    BY <2>1 DEF End, FrontOf, Mark
  <2>3. ASSUME NEW i \in 1 .. Len(channel'), channel'[i].ours, lastFrame'[channel'[i].vc] # None
        PROVE  End(channel[i].vc)' <= channel'[i].from
    <3>1. PICK u : u = channel'[i].vc
      OBVIOUS
    <3>2. End(u) <= channel[i + 1].from
      BY <1>6, <2>1, <2>3, <3>1 DEF OInv, OrderOK
    <3>3. End(channel[i].vc)' = End(u)
      BY <2>1, <3>1 DEF End
    <3>4. QED BY <1>6, <3>2, <3>3
  <2>4. OrderOK'
    BY <1>9, <2>3 DEF OrderOK
  <2>5. ASSUME NEW u \in VCs
        PROVE  Before(u, emitted[u])' /\ (inSync[u] => Before(u, FrontOf(u)))'
    <3>1. PICK a, b : a = emitted[u] /\ b = FrontOf(u)
      OBVIOUS
    <3>2. Before(u, a)' /\ (inSync[u] => Before(u, b)')
      BY <1>10, <2>1, <3>1 DEF OInv, PastOK
    <3>3. FrontOf(u)' = b
      BY <2>2, <3>1
    <3>4. QED BY <1>3, <2>1, <3>1, <3>2, <3>3 DEF Before
  <2>6. PastOK'
    BY <1>11, <2>1, <2>5 DEF OInv, PastOK
  <2>7. QED BY <1>3, <1>8, <2>1, <2>4, <2>6 DEF OInv
<1>13. CASE Takes(f)
  <2>1. /\ inSync'[f.vc] => Before(f.vc, FrontOf(f.vc)')
        /\ pc' # "ready" => cur' = f.vc /\ inSync'[cur']
        /\ UNCHANGED delivered
        /\ lastFrame' = [lastFrame EXCEPT ![f.vc] = f]
        /\ \A u \in VCs \ {f.vc} : pending'[u] = pending[u] /\ inSync'[u] = inSync[u]
    BY <1>1, <1>2, <1>3, <1>5, <1>13, FrontMoves, FrontTaken
  <2>2. f.ours /\ pc = "ready"
    BY <1>13 DEF Takes
  <2>3. ASSUME NEW u \in VCs \ {f.vc}
        PROVE  End(u)' = End(u) /\ FrontOf(u)' = FrontOf(u) /\ lastFrame'[u] = lastFrame[u]
    <3>1. lastFrame'[u] = lastFrame[u]
      BY <1>4, <2>1
    <3>2. End(u)' = End(u)
      BY <3>1 DEF End
    <3>3. Mark(u) = End(u) /\ Mark(u)' = End(u)'
      BY <2>1, <2>2 DEF Mark
    <3>4. QED BY <2>1, <3>1, <3>2, <3>3 DEF FrontOf
  <2>4. ASSUME NEW i \in 1 .. Len(channel'), channel'[i].ours, lastFrame'[channel'[i].vc] # None
        PROVE  End(channel[i].vc)' <= channel'[i].from
    <3>1. PICK u : u = channel'[i].vc
      OBVIOUS
    <3>2. u \in VCs /\ channel[i + 1].ours /\ channel[i + 1].vc = u
      BY <1>6, <1>7, <2>4, <3>1
    <3>3. CASE u = f.vc
      <4>1. channel[1].from + Len(channel[1].data) <= channel[i + 1].from
        BY <1>1, <1>2, <1>6, <2>2, <3>2, <3>3 DEF OInv, OrderOK
      <4>2. End(channel[i].vc)' = f.from + Len(f.data)
        <5>1. lastFrame'[u] = f
          BY <1>4, <1>5, <2>1, <3>3
        <5>2. QED BY <3>1, <5>1 DEF End
      <4>3. QED BY <1>2, <1>6, <4>1, <4>2
    <3>4. CASE u # f.vc
      <4>1. lastFrame'[u] = lastFrame[u] /\ lastFrame[u] # None
        BY <2>3, <2>4, <3>1, <3>2, <3>4
      <4>2. End(u) <= channel[i + 1].from
        BY <1>6, <3>2, <4>1 DEF OInv, OrderOK
      <4>3. End(channel[i].vc)' = End(u)
        BY <3>1, <4>1 DEF End
      <4>4. QED BY <1>6, <4>2, <4>3
    <3>5. QED BY <3>3, <3>4
  <2>5. OrderOK'
    BY <1>9, <2>4 DEF OrderOK
  <2>6. ASSUME NEW u \in VCs
        PROVE  Before(u, emitted[u])' /\ (inSync[u] => Before(u, FrontOf(u)))'
    <3>1. PICK a, b : a = emitted[u] /\ b = FrontOf(u)'
      OBVIOUS
    <3>2. Before(u, a)'
      BY <1>10, <2>1, <3>1 DEF OInv, PastOK
    <3>3. inSync'[u] => Before(u, b)
      <4>1. CASE u = f.vc
        BY <2>1, <3>1, <4>1
      <4>2. CASE u # f.vc
        BY <2>1, <2>3, <3>1, <4>2 DEF OInv, PastOK
      <4>3. QED BY <4>1, <4>2
    <3>4. inSync'[u] => Before(u, b)'
      BY <1>10, <2>1, <3>3
    <3>5. QED BY <1>3, <3>1, <3>2, <3>4 DEF Before
  <2>7. (pc # "ready" => inSync[cur])'
    BY <2>1
  <2>8. PastOK'
    BY <1>11, <2>1, <2>6, <2>7 DEF PastOK
  <2>9. QED BY <1>3, <1>8, <2>1, <2>5, <2>8 DEF OInv
<1>14. QED BY <1>12, <1>13

\* The oldest frames are missed, and the deframer starts over.
LEMMA LaggedOrder ==
    ASSUME LInv, OInv, Lagged
    PROVE  OInv' /\ UNCHANGED <<packets, delivered>>
<1>1. PICK n \in 1 .. Len(channel) :
         /\ Reset /\ channel' = SubSeq(channel, n + 1, Len(channel))
         /\ lastFrame' = [v \in VCs |-> None] /\ UNCHANGED framer
  BY DEF Lagged
<1>2. /\ stream' = stream /\ packets' = packets /\ emitted' = emitted /\ delivered' = delivered
      /\ pc' = "ready" /\ inSync' = [v \in VCs |-> FALSE]
  BY <1>1 DEF framer, Reset
<1>3. /\ Len(channel') = Len(channel) - n
      /\ \A i \in 1 .. Len(channel') :
            channel'[i] = channel[n + i] /\ n + i \in 1 .. Len(channel) /\ channel'[i].vc \in VCs
  <2>1. channel \in Seq(Frame) /\ Len(channel) \in Nat
    BY DEF LInv, FramesOK
  <2>2. /\ Len(SubSeq(channel, n + 1, Len(channel))) = Len(channel) - n
        /\ \A i \in 1 .. Len(channel) - n :
              SubSeq(channel, n + 1, Len(channel))[i] = channel[n + i] /\ n + i \in 1 .. Len(channel)
    BY <2>1
  <2>3. QED BY <1>1, <2>2, ChannelFrame
<1>4. NumbersOK'
  BY <1>2 DEF OInv, NumbersOK
<1>5. OrderOK'
  <2>1. ASSUME NEW i \in 1 .. Len(channel'), NEW j \in 1 .. Len(channel'), i < j,
               channel'[i].ours, channel'[j].ours, channel'[i].vc = channel'[j].vc
        PROVE  channel'[i].from + Len(channel'[i].data) <= channel'[j].from
    <3>1. n + i < n + j
      BY <2>1
    <3>2. QED BY <1>3, <2>1, <3>1 DEF OInv, OrderOK
  <2>2. \A i \in 1 .. Len(channel') : lastFrame'[channel'[i].vc] = None
    BY <1>1, <1>3
  <2>3. QED BY <2>1, <2>2 DEF OrderOK
<1>6. PastOK'
  <2>1. \A u \in VCs : Before(u, emitted[u])' /\ ~inSync'[u]
    BY <1>2 DEF OInv, PastOK, Before
  <2>2. ASSUME NEW i \in 1 .. Len(channel'), channel'[i].ours
        PROVE  Before(channel[i].vc, channel[i].from)'
    <3>1. Before(channel[n + i].vc, channel[n + i].from)
      BY <1>3, <2>2 DEF OInv, PastOK
    <3>2. QED BY <1>2, <1>3, <3>1 DEF Before
  <2>3. QED BY <1>2, <2>1, <2>2 DEF PastOK
<1>7. QED BY <1>2, <1>4, <1>5, <1>6 DEF OInv

\* The octets of a channel behind a whole packet are of later packets.
LEMMA LaterPackets ==
    ASSUME NEW S, Whole(S), Ordered(S), NEW a \in Nat, NEW p \in Packet, p.len > 0,
           a + p.len <= Len(S),
           \A j \in 0 .. p.len - 1 : S[a + 1 + j] = [pkt |-> p, at |-> j],
           NEW i \in 1 .. Len(S), i > a + p.len
    PROVE  p.id < S[i].pkt.id
<1>1. p.len \in Nat /\ S \in Seq(Octet) /\ Len(S) \in Nat
  BY DEF Packet, Whole
<1>2. S[a + p.len] = [pkt |-> p, at |-> p.len - 1] /\ a + p.len \in 1 .. Len(S)
  <2>1. p.len - 1 \in 0 .. p.len - 1 /\ a + 1 + (p.len - 1) = a + p.len
    BY <1>1
  <2>2. QED BY <1>1, <2>1
<1>3. S[i].at < S[i].pkt.len /\ S[i].at \in Nat
  <2>1. S[i] \in Octet
    BY <1>1
  <2>2. QED BY <2>1, OctetParts DEF Whole
<1> DEFINE n == a + p.len
<1>4. n \in 1 .. Len(S) /\ n < i /\ S[n].pkt = p /\ S[n].at = p.len - 1
  BY <1>2
<1> HIDE DEF n
<1>5. p.id < S[i].pkt.id \/ (S[i].pkt = p /\ p.len - 1 < S[i].at)
  BY <1>4 DEF Ordered
<1>6. QED BY <1>1, <1>3, <1>5

\* What is emitted is newer than all that was emitted before on its channel.
LEMMA DrainOrder ==
    ASSUME LInv, OInv, Drain, UNCHANGED <<framer, link>>
    PROVE  /\ OInv' /\ UNCHANGED packets
           /\ \/ UNCHANGED delivered
              \/ \E v \in VCs, s \in Seq(Octet) :
                    /\ delivered' = [delivered EXCEPT ![v] = Append(@, s)]
                    /\ s[1].pkt.id \in 1 .. packets[v]
                    /\ \A t \in ToSet(delivered[v]) : t[1].pkt.id < s[1].pkt.id
<1> DEFINE S == stream[cur]
           q == pending[cur]
<1>1. /\ stream' = stream /\ packets' = packets /\ emitted' = emitted
      /\ channel' = channel /\ lastFrame' = lastFrame
  BY DEF framer, link
<1>2. pc # "ready"
  BY DEF Drain, Extract, DrainLosesSync, DrainEnds, HasHeader
<1>3. /\ cur \in VCs /\ lastFrame[cur] # None /\ q \in Seq(Octet) /\ Len(q) \in Nat
      /\ rest \in Seq(Octet) /\ Len(rest) \in Nat /\ inSync[cur]
      /\ pc \in {"ready", "finish", "last"} /\ delivered \in [VCs -> Seq(Seq(Octet))]
      /\ inSync \in [VCs -> BOOLEAN] /\ pending \in [VCs -> Seq(Octet)]
      /\ Whole(S) /\ Ordered(S) /\ S \in Seq(Octet) /\ Len(S) \in Nat
  <2>1. /\ cur \in VCs /\ lastFrame[cur] # None /\ q \in Seq(Octet)
        /\ rest \in Seq(Octet)
        /\ pc \in {"ready", "finish", "last"} /\ delivered \in [VCs -> Seq(Seq(Octet))]
        /\ inSync \in [VCs -> BOOLEAN] /\ pending \in [VCs -> Seq(Octet)]
    BY <1>2 DEF LInv, ReceiverOK, ReceiverTypes
  <2>2. inSync[cur] /\ Whole(S) /\ Ordered(S) /\ S \in Seq(Octet)
    BY <1>2, <2>1 DEF OInv, PastOK, NumbersOK, LInv, SenderOK
  <2>3. Len(q) \in Nat /\ Len(rest) \in Nat /\ Len(S) \in Nat
    BY <2>1, <2>2
  <2>4. QED BY <2>1, <2>2, <2>3
<1>4. /\ End(cur) \in Nat /\ End(cur) <= emitted[cur] /\ emitted[cur] \in Nat
      /\ Mark(cur) \in Int /\ Mark(cur) <= End(cur)
  <2>1. End(cur) \in Nat /\ End(cur) <= emitted[cur] /\ emitted[cur] \in Nat
    BY <1>3, LastFrame
  <2>2. Mark(cur) = End(cur) \/ Mark(cur) = End(cur) - Len(rest)
    BY DEF Mark
  <2>3. QED BY <1>3, <2>1, <2>2
<1>5. NumbersOK' /\ OrderOK' /\ \A v \in VCs : End(v)' = End(v)
  <2>1. \A v : End(v)' = End(v)
    BY <1>1 DEF End
  <2>2. OrderOK'
    BY <1>1, <2>1 DEF OInv, OrderOK, End
  <2>3. NumbersOK'
    BY <1>1 DEF OInv, NumbersOK
  <2>4. QED BY <2>1, <2>2, <2>3
<1>6. CASE Extract
  <2>1. /\ HasHeader
        /\ UNCHANGED <<pc, cur, rest>> /\ inSync' = inSync
    BY <1>6 DEF Extract
  <2>2. PICK a \in Nat, p \in Packet :
           /\ Piece(S, q, a) /\ Boundary(S, a) /\ a + Len(q) = Mark(cur)
           /\ a < Len(S) /\ p.len > HdrLen /\ a + p.len <= Len(S)
           /\ \A j \in 0 .. p.len - 1 : S[a + 1 + j] = [pkt |-> p, at |-> j]
           /\ Readings(q) = {[version0 |-> TRUE, len |-> p.len, idle |-> p.idle]}
    BY <2>1, HeaderReads DEF LInv
  <2> DEFINE o == SubSeq(q, p.len + 1, Len(q))
             s == SubSeq(q, 1, p.len)
  <2>3. p.len \in Nat /\ p.len > 0 /\ p.id \in Nat
    <3>1. p.len \in Nat /\ p.id \in Nat
      BY DEF Packet
    <3>2. QED BY <2>2, <3>1, FormatAssumption
  <2>4. /\ Len(q) >= p.len /\ pending' = [pending EXCEPT ![cur] = o]
        /\ delivered' = [delivered EXCEPT ![cur] = IF p.idle THEN @ ELSE Append(@, s)]
    <3>1. PICK h \in Readings(q) :
             /\ Len(q) >= h.len
             /\ pending' = [pending EXCEPT ![cur] = SubSeq(@, h.len + 1, Len(@))]
             /\ delivered' = [delivered EXCEPT ![cur] =
                                IF h.idle THEN @ ELSE Append(@, SubSeq(q, 1, h.len))]
      BY <1>6 DEF Extract
    <3>2. h.len = p.len /\ h.idle = p.idle
      BY <2>2
    <3>3. pending' = [pending EXCEPT ![cur] = o]
      BY <1>3, <3>1, <3>2
    <3>4. QED BY <3>1, <3>2, <3>3
  <2>5. o \in Seq(Octet) /\ Len(o) = Len(q) - p.len
    <3> DEFINE n == p.len
    <3>1. /\ n \in Nat /\ n <= Len(q) /\ Len(q) \in Nat /\ Len(q) <= Len(q)
          /\ S \in Seq(Octet) /\ Piece(S, q, a)
      BY <1>3, <2>2, <2>3, <2>4
    <3> HIDE DEF n, q, S
    <3>2. Piece(S, SubSeq(q, n + 1, Len(q)), a + n) /\ Len(SubSeq(q, n + 1, Len(q))) = Len(q) - n
      BY <3>1, PieceCut
    <3>3. QED BY <3>2 DEF n, Piece
  <2>6. s \in Seq(Octet) /\ s[1] = [pkt |-> p, at |-> 0]
    <3> DEFINE n == p.len
    <3>1. n \in Nat /\ n <= Len(q) /\ n > 0
      BY <2>3, <2>4
    <3>2. q[1] = S[a + 1] /\ S[a + 1 + 0] = [pkt |-> p, at |-> 0] /\ a + 1 + 0 = a + 1
      <4>1. 1 \in 1 .. Len(q)
        BY <1>3, <3>1
      <4>2. q[1] = S[a + 1]
        BY <2>2, <4>1 DEF Piece
      <4>3. QED BY <2>2, <2>3, <4>2
    <3> HIDE DEF n, q, S
    <3>3. SubSeq(q, 1, n) \in Seq(Octet) /\ SubSeq(q, 1, n)[1] = q[1]
      BY <1>3, <3>1
    <3>4. QED BY <3>2, <3>3 DEF n
  <2> HIDE DEF s, o
  <2>7. s[1].pkt.id = p.id
    BY <2>6
  <2>8. FrontOf(cur) = a
    <3> DEFINE x == Len(q)
    <3>1. FrontOf(cur) = (a + x) - x /\ x \in Nat
      BY <1>3, <2>2 DEF FrontOf
    <3> HIDE DEF x
    <3>2. QED BY <3>1
  <2>9. Before(cur, a)
    BY <1>3, <2>8 DEF OInv, PastOK
  <2>10. \A t \in ToSet(delivered[cur]) : t[1].pkt.id < p.id
    <3>1. S[a + 1 + 0] = [pkt |-> p, at |-> 0] /\ a + 1 + 0 = a + 1
      BY <2>2, <2>3
    <3>2. a + 1 \in 1 .. Len(S) /\ a + 1 > a /\ S[a + 1].pkt.id = p.id
      BY <1>3, <2>2, <3>1
    <3>3. QED BY <2>9, <3>2 DEF Before
  <2>11. p.id \in 1 .. packets[cur]
    <3>1. S[a + 1 + 0] = [pkt |-> p, at |-> 0] /\ a + 1 + 0 = a + 1
      BY <2>2, <2>3
    <3>2. a + 1 \in 1 .. Len(S) /\ S[a + 1].pkt.id = p.id
      BY <1>3, <2>2, <3>1
    <3>3. QED BY <1>3, <3>2 DEF OInv, NumbersOK
  <2>12. \A u \in VCs \ {cur} : delivered'[u] = delivered[u] /\ pending'[u] = pending[u]
    BY <1>3, <2>4
  <2>13. \A t \in ToSet(delivered'[cur]) : t \in ToSet(delivered[cur]) \/ t = s
    <3>1. CASE delivered'[cur] = delivered[cur]
      BY <3>1
    <3>2. CASE delivered'[cur] = Append(delivered[cur], s)
      <4> DEFINE z == delivered[cur]
      <4>1. z \in Seq(Seq(Octet)) /\ Len(z) \in Nat /\ DOMAIN z = 1 .. Len(z)
        BY <1>3
      <4> HIDE DEF z
      <4>2. /\ DOMAIN Append(z, s) = 1 .. Len(z) + 1
            /\ \A k \in 1 .. Len(z) + 1 : Append(z, s)[k] = IF k <= Len(z) THEN z[k] ELSE s
        BY <2>6, <4>1
      <4>3. \A t \in ToSet(Append(z, s)) : t \in ToSet(z) \/ t = s
        BY <4>1, <4>2 DEF ToSet
      <4>4. QED BY <3>2, <4>3 DEF z
    <3>3. QED BY <1>3, <2>4, <3>1, <3>2
  <2>14. ASSUME NEW n \in Int, a + p.len <= n
         PROVE  Before(cur, n)'
    <3> SUFFICES ASSUME NEW t \in ToSet(delivered'[cur]), NEW i \in 1 .. Len(S), i > n
                 PROVE  t[1].pkt.id < S[i].pkt.id
      BY <1>1, <2>1 DEF Before
    <3>1. i > a + p.len /\ i > a
      BY <2>3, <2>14
    <3>2. CASE t \in ToSet(delivered[cur])
      BY <2>9, <3>1, <3>2 DEF Before
    <3>3. CASE t = s
      <4>1. p.id < S[i].pkt.id
        <5> HIDE DEF S
        <5>1. QED BY <1>3, <2>2, <2>3, <3>1, LaterPackets
      <4>2. QED BY <2>7, <3>3, <4>1
    <3>4. QED BY <2>13, <3>2, <3>3
  <2>15. a + p.len <= Mark(cur) /\ a + p.len \in Int
    BY <1>3, <2>2, <2>3, <2>4
  <2>16. ASSUME NEW u \in VCs
         PROVE  Before(u, emitted[u])' /\ (inSync[u] => Before(u, FrontOf(u)))'
    <3>1. CASE u = cur
      <4>1. PICK e, b : e = emitted[cur] /\ b = FrontOf(cur)'
        OBVIOUS
      <4>2. e \in Int /\ a + p.len <= e
        BY <1>4, <2>15, <4>1
      <4>3. b = a + p.len
        <5>1. Mark(cur)' = Mark(cur) /\ pending'[cur] = o
          BY <1>1, <1>3, <2>1, <2>4 DEF Mark, End
        <5> DEFINE x == Len(q)
        <5>2. b = (a + x) - (x - p.len) /\ x \in Nat
          BY <1>3, <2>1, <2>2, <2>5, <4>1, <5>1 DEF FrontOf
        <5> HIDE DEF x
        <5>3. QED BY <2>3, <5>2
      <4>4. Before(cur, e)' /\ Before(cur, b)'
        BY <2>14, <2>15, <4>2, <4>3
      <4>5. emitted'[u] = e /\ FrontOf(u)' = b
        BY <1>1, <2>1, <3>1, <4>1
      <4>6. QED BY <2>1, <3>1, <4>4, <4>5 DEF Before
    <3>2. CASE u # cur
      <4>1. FrontOf(u)' = FrontOf(u)
        BY <1>1, <2>1, <2>12, <3>2 DEF FrontOf, Mark, End
      <4>2. Before(u, emitted[u]) /\ (inSync[u] => Before(u, FrontOf(u)))
        BY DEF OInv, PastOK
      <4>3. QED BY <1>1, <2>1, <2>12, <3>2, <4>1, <4>2 DEF Before
    <3>3. QED BY <3>1, <3>2
  <2>17. ASSUME NEW i \in 1 .. Len(channel), channel[i].ours
         PROVE  Before(channel[i].vc, channel[i].from)'
    <3>1. PICK f : f = channel[i]
      OBVIOUS
    <3>2. f.vc \in VCs /\ f.from \in Nat /\ Before(f.vc, f.from)
      BY <2>17, <3>1, ChannelFrame DEF OInv, PastOK
    <3>3. Before(f.vc, f.from)'
      <4>1. CASE f.vc = cur
        <5>1. End(cur) <= f.from
          BY <1>3, <2>17, <3>1, <4>1 DEF OInv, OrderOK
        <5>2. a + p.len <= f.from
          BY <1>4, <2>15, <3>2, <5>1
        <5>3. Before(cur, f.from)'
          BY <2>14, <3>2, <5>2
        <5>4. QED BY <2>1, <4>1, <5>3
      <4>2. CASE f.vc # cur
        BY <1>1, <2>12, <3>2, <4>2 DEF Before
      <4>3. QED BY <4>1, <4>2
    <3>4. QED BY <1>1, <3>1, <3>3 DEF Before
  <2>18. PastOK'
    BY <1>1, <2>1, <2>16, <2>17 DEF OInv, PastOK
  <2>19. QED BY <1>1, <1>3, <1>5, <2>4, <2>6, <2>7, <2>10, <2>11, <2>18 DEF OInv
<1>7. CASE DrainLosesSync
  <2>1. HasHeader /\ \E h \in Readings(q) : ~h.version0
    BY <1>7 DEF DrainLosesSync
  <2>2. PICK p \in Packet : Readings(q) = {[version0 |-> TRUE, len |-> p.len, idle |-> p.idle]}
    BY <2>1, HeaderReads DEF LInv
  <2>3. QED BY <2>1, <2>2
<1>8. CASE DrainEnds
  <2>1. UNCHANGED <<cur, delivered>>
    BY <1>8 DEF DrainEnds
  <2>2. \A i \in 1 .. Len(channel) :
           channel[i].ours => Before(channel[i].vc, channel[i].from)'
    BY <1>1, <2>1 DEF OInv, PastOK, Before
  <2>3. \A u \in VCs : Before(u, emitted[u])'
    BY <1>1, <2>1 DEF OInv, PastOK, Before
  <2>4. Before(cur, FrontOf(cur))
    BY <1>3 DEF OInv, PastOK
  <2>5. CASE /\ pc = "finish" /\ pc' = "last"
             /\ pending' = [pending EXCEPT ![cur] = rest]
             /\ inSync' = [inSync EXCEPT ![cur] = TRUE]
    <3>1. /\ pending'[cur] = rest /\ inSync'[cur]
          /\ \A u \in VCs \ {cur} : pending'[u] = pending[u] /\ inSync'[u] = inSync[u]
      BY <1>3, <2>5
    <3>2. FrontOf(cur)' = Mark(cur)
      <4>1. Mark(cur)' = End(cur) /\ Mark(cur) = End(cur) - Len(rest)
        BY <1>5, <1>3, <2>1, <2>5 DEF Mark
      <4>2. QED BY <2>1, <3>1, <4>1 DEF FrontOf
    <3>3. Before(cur, Mark(cur))
      <4>1. PICK m, n : m = FrontOf(cur) /\ n = Mark(cur)
        OBVIOUS
      <4>2. m = n - Len(q)
        BY <4>1 DEF FrontOf
      <4>3. m \in Int /\ n \in Int /\ m <= n
        BY <1>3, <1>4, <4>1, <4>2
      <4>4. QED BY <1>3, <2>4, <4>1, <4>3, BeforeLater
    <3>4. \A u \in VCs \ {cur} : FrontOf(u)' = FrontOf(u)
      BY <1>5, <2>1, <2>5, <3>1 DEF FrontOf, Mark
    <3>5. \A u \in VCs : (inSync[u] => Before(u, FrontOf(u)))'
      <4> SUFFICES ASSUME NEW u \in VCs, inSync'[u] PROVE Before(u, FrontOf(u))'
        OBVIOUS
      <4>1. CASE u = cur
        BY <1>1, <2>1, <3>2, <3>3, <4>1 DEF Before
      <4>2. CASE u # cur
        BY <1>1, <2>1, <3>1, <3>4, <4>2 DEF OInv, PastOK, Before
      <4>3. QED BY <4>1, <4>2
    <3>6. PastOK'
      BY <1>1, <2>1, <2>2, <2>3, <3>1, <3>5 DEF PastOK
    <3>7. QED BY <1>1, <1>5, <2>1, <3>6 DEF OInv
  <2>6. CASE /\ pc = "last" /\ pc' = "ready"
             /\ UNCHANGED <<pending, inSync, rest>>
    <3>1. \A u \in VCs : FrontOf(u)' = FrontOf(u)
      BY <1>5, <2>6 DEF FrontOf, Mark
    <3>2. \A u \in VCs : (inSync[u] => Before(u, FrontOf(u)))'
      BY <1>1, <2>1, <2>6, <3>1 DEF OInv, PastOK, Before
    <3>3. PastOK'
      BY <1>1, <2>2, <2>3, <2>6, <3>2 DEF PastOK
    <3>4. QED BY <1>1, <1>5, <2>1, <3>3 DEF OInv
  <2>7. QED BY <1>8, <2>5, <2>6 DEF DrainEnds
<1>9. QED BY <1>6, <1>7, <1>8 DEF Drain

-----------------------------------------------------------------------------
(* The refinement. *)

RInv == TInv /\ (Orderly => OInv)

\* What a step does to the numbers of packets packed and emitted.
Packs == \E v \in VCs : packets' = [packets EXCEPT ![v] = @ + 1] /\ UNCHANGED delivered
Emits ==
    /\ UNCHANGED packets
    /\ \E v \in VCs, s \in Seq(Octet) :
          /\ delivered' = [delivered EXCEPT ![v] = Append(@, s)]
          /\ s[1].pkt.id \in 1 .. packets[v]
          /\ \A t \in ToSet(delivered[v]) : t[1].pkt.id < s[1].pkt.id

\* Of the frames under way some are left, in their order, and say what they said.
Thinned ==
    /\ channel' \in Seq(Frame)
    /\ \E m \in [1 .. Len(channel') -> 1 .. Len(channel)] :
          /\ \A i, j \in 1 .. Len(channel') : i < j => m[i] < m[j]
          /\ \A i \in 1 .. Len(channel') : /\ Alike(channel'[i], channel[m[i]])
                                           /\ channel'[i].ours => channel[m[i]].ours

LEMMA LoseThins ==
    ASSUME channel \in Seq(Frame), Lose \/ Damage
    PROVE  Thinned
<1>1. channel \in Seq(Frame) /\ Len(channel) \in Nat
  OBVIOUS
<1>2. CASE Lose
  <2>1. PICK i \in 1 .. Len(channel) : channel' = RemoveAt(channel, i)
    BY <1>2 DEF Lose
  <2> DEFINE m == [k \in 1 .. Len(channel) - 1 |-> IF k < i THEN k ELSE k + 1]
  <2>4. /\ channel' \in Seq(Frame) /\ Len(channel') = Len(channel) - 1
        /\ \A k \in 1 .. Len(channel) - 1 : m[k] \in 1 .. Len(channel) /\ channel'[k] = channel[m[k]]
    BY <2>1, WithoutOne
  <2>5. Len(channel') = Len(channel) - 1
    BY <2>4
  <2>6. \A k \in 1 .. Len(channel) - 1 : m[k] \in 1 .. Len(channel) /\ channel'[k] = channel[m[k]]
    BY <2>4
  <2>7. \A k, l \in 1 .. Len(channel') : k < l => m[k] < m[l]
    BY <1>1, <2>5
  <2>8. m \in [1 .. Len(channel') -> 1 .. Len(channel)]
    BY <2>5, <2>6
  <2>9. \A k \in 1 .. Len(channel') : /\ Alike(channel'[k], channel[m[k]])
                                      /\ channel'[k].ours => channel[m[k]].ours
    <3>1. \A k \in 1 .. Len(channel') : channel[m[k]] \in Frame
      BY <1>1, <2>5, <2>6
    <3> HIDE DEF m
    <3>2. QED BY <2>5, <2>6, <3>1 DEF Alike
  <2> HIDE DEF m
  <2>10. QED BY <2>4, <2>7, <2>8, <2>9 DEF Thinned
<1>3. CASE Damage
  <2>1. PICK i \in 1 .. Len(channel) : channel' = [channel EXCEPT ![i].ok = FALSE]
    BY <1>3 DEF Damage
  <2>3. /\ DOMAIN channel' = 1 .. Len(channel)
        /\ \A k \in 1 .. Len(channel) :
              channel'[k] = IF k = i THEN [channel[i] EXCEPT !.ok = FALSE] ELSE channel[k]
    BY <1>1, <2>1
  <2>4. \A k \in 1 .. Len(channel) :
           /\ channel'[k] \in Frame /\ Alike(channel'[k], channel[k])
           /\ channel'[k].ours => channel[k].ours
    <3> SUFFICES ASSUME NEW k \in 1 .. Len(channel)
                 PROVE  /\ channel'[k] \in Frame /\ Alike(channel'[k], channel[k])
                        /\ channel'[k].ours => channel[k].ours
      OBVIOUS
    <3>1. PICK g : g = channel[k]
      OBVIOUS
    <3>2. g \in Frame
      BY <1>1, <3>1
    <3>3. /\ [g EXCEPT !.ok = FALSE] \in Frame /\ Alike([g EXCEPT !.ok = FALSE], g) /\ Alike(g, g)
          /\ [g EXCEPT !.ok = FALSE].ours = g.ours
      BY <3>2 DEF Frame, Alike
    <3>4. channel'[k] = [g EXCEPT !.ok = FALSE] \/ channel'[k] = g
      BY <2>3, <3>1
    <3>5. QED BY <3>1, <3>2, <3>3, <3>4
  <2>5. channel' \in Seq(Frame) /\ Len(channel') = Len(channel)
    <3>1. channel' \in [1 .. Len(channel) -> Frame]
      BY <1>1, <2>1, <2>3, <2>4
    <3>2. QED BY <1>1, <3>1
  <2> DEFINE m == [k \in 1 .. Len(channel) |-> k]
  <2>6. /\ m \in [1 .. Len(channel') -> 1 .. Len(channel)]
        /\ \A k \in 1 .. Len(channel') : m[k] = k
    BY <2>5
  <2> HIDE DEF m
  <2>7. \A k, l \in 1 .. Len(channel') : k < l => m[k] < m[l]
    BY <2>6
  <2>8. QED BY <2>4, <2>5, <2>6, <2>7 DEF Thinned
<1>4. QED BY <1>2, <1>3

LEMMA OrderlyStep ==
    ASSUME TInv, Orderly, OInv, [Next]_vars
    PROVE  OInv' /\ (Packs \/ Emits \/ UNCHANGED <<packets, delivered>>)
<1>1. LInv /\ ~scene.disorder
  BY DEF TInv, Orderly, Protected
<1>2. channel \in Seq(Frame) /\ Len(channel) \in Nat
  BY <1>1 DEF LInv, FramesOK
<1>3. scene \in Scenes /\ scene.sizes \subseteq Sizes /\ scene.channels \subseteq VCs
  BY LinkAssumption DEF TInv, Scene
<1>4. CASE PackPacket
  <2>1. PICK v \in scene.channels, len \in scene.sizes :
           Queue(v, len, FALSE) /\ UNCHANGED <<deframer, link>>
    BY <1>4 DEF PackPacket, Pack
  <2>2. v \in VCs /\ len \in Nat
    <3>1. v \in VCs /\ len \in Sizes
      BY <1>3
    <3>2. QED BY <3>1, FormatAssumption
  <2>3. OInv' /\ packets' = [packets EXCEPT ![v] = @ + 1]
    BY <1>1, <2>1, <2>2, QueueOrder
  <2>4. QED BY <2>1, <2>2, <2>3 DEF Packs, deframer
<1>5. CASE FlushChannel
  <2>1. PICK v \in VCs : Flush(v) /\ UNCHANGED <<deframer, link>>
    BY <1>5 DEF FlushChannel
  <2> DEFINE room == DataLen - (Len(queued[v]) % DataLen)
  <2>2. Queue(v, IdleLen(room), TRUE)
    BY <2>1 DEF Flush
  <2>3. room \in Int
    <3> DEFINE n == Len(queued[v])
    <3>1. n \in Nat
      <4>1. queued[v] \in Seq(Octet)
        BY <1>1 DEF LInv, SenderOK
      <4>2. QED BY <4>1
    <3> HIDE DEF n
    <3>2. DataLen - (n % DataLen) \in Int
      BY <3>1, FormatAssumption
    <3>3. QED BY <3>2 DEF n
  <2> HIDE DEF room
  <2>4. OInv' /\ packets' = [packets EXCEPT ![v] = @ + 1]
    BY <1>1, <2>1, <2>2, <2>3, IdleLenLong, QueueOrder
  <2>5. QED BY <2>1, <2>4 DEF Packs, deframer
<1>6. CASE SendFrame
  <2>1. PICK v \in VCs : /\ EmitFrame(v) /\ channel' = Append(channel, NextFrame(v))
                         /\ UNCHANGED <<deframer, lastFrame>>
    BY <1>6 DEF SendFrame, Send
  <2>2. PICK f : f = NextFrame(v)
    OBVIOUS
  <2>3. /\ UNCHANGED stream /\ emitted' = [emitted EXCEPT ![v] = @ + DataLen]
        /\ FrameOK(f)' /\ f.vc = v /\ f.from = emitted[v]
    BY <1>1, <2>1, <2>2, EmitKeepsSender DEF LInv
  <2>4. f \in Frame
    BY <2>3 DEF FrameOK
  <2>5. \A u \in VCs : emitted'[u] \in Nat /\ emitted[u] <= emitted'[u]
    <3>1. emitted \in [VCs -> Nat] /\ DataLen \in Nat
      BY <1>1, FormatAssumption DEF LInv, SenderOK
    <3>2. QED BY <2>3, <3>1
  <2>6. UNCHANGED packets
    BY <2>1 DEF EmitFrame
  <2>7. OInv'
    BY <1>1, <2>1, <2>2, <2>3, <2>4, <2>5, <2>6, SendOrder
  <2>8. QED BY <2>1, <2>6, <2>7 DEF deframer
<1>7. CASE SendIdle
  <2>1. PICK v \in scene.channels :
           /\ EmitIdle(v) /\ channel' = Append(channel, MakeFrame(v, OnlyIdle, <<>>))
           /\ UNCHANGED <<deframer, lastFrame>>
    BY <1>7 DEF SendIdle, Send
  <2>2. PICK f : f = MakeFrame(v, OnlyIdle, <<>>)
    OBVIOUS
  <2>3. /\ UNCHANGED <<stream, emitted>> /\ FrameOK(f)' /\ f.vc = v /\ f.from = emitted[v]
    BY <1>1, <1>3, <2>1, <2>2, IdleKeepsSender DEF LInv
  <2>4. f \in Frame
    BY <2>3 DEF FrameOK
  <2>5. \A u \in VCs : emitted'[u] \in Nat /\ emitted[u] <= emitted'[u]
    BY <1>1, <2>3 DEF LInv, SenderOK
  <2>6. UNCHANGED packets
    BY <2>1 DEF EmitIdle
  <2>7. OInv'
    BY <1>1, <2>1, <2>2, <2>3, <2>4, <2>5, <2>6, SendOrder
  <2>8. QED BY <2>1, <2>6, <2>7 DEF deframer
<1>8. CASE Lose \/ Damage
  <2>1. UNCHANGED <<framer, deframer, lastFrame>>
    BY <1>8 DEF Lose, Damage
  <2>2. Thinned
    BY <1>2, <1>8, LoseThins
  <2>3. OInv'
    BY <1>1, <2>1, <2>2, OrderStays DEF Thinned
  <2>4. QED BY <2>1, <2>3 DEF framer, deframer
<1>10. CASE Mispoint
  BY <1>10 DEF Mispoint, Orderly
<1>11. CASE Duplicate
  BY <1>1, <1>11 DEF Duplicate
<1>12. CASE Stray
  <2>1. PICK i \in 1 .. Len(channel) :
           /\ channel' = Append(channel, [channel[i] EXCEPT !.ours = FALSE])
           /\ UNCHANGED <<framer, deframer, lastFrame>>
    BY <1>12 DEF Stray, Send
  <2>2. PICK g : g = channel[i]
    OBVIOUS
  <2>3. PICK f : f = [g EXCEPT !.ours = FALSE]
    OBVIOUS
  <2>4. g \in Frame
    BY <1>2, <2>2
  <2>5. f \in Frame /\ ~f.ours
    BY <2>3, <2>4 DEF Frame
  <2>6. /\ UNCHANGED <<stream, packets, emitted, delivered>>
    BY <2>1 DEF framer, deframer
  <2>7. \A u \in VCs : emitted'[u] \in Nat /\ emitted[u] <= emitted'[u]
    BY <1>1, <2>6 DEF LInv, SenderOK
  <2>8. OInv'
    BY <1>1, <2>1, <2>2, <2>3, <2>5, <2>6, <2>7, SendOrder
  <2>9. QED BY <2>6, <2>8
<1>13. CASE Lagged
  BY <1>1, <1>13, LaggedOrder
<1>14. CASE Receive
  BY <1>1, <1>14, ReceiveOrder
<1>15. CASE DrainPackets
  <2>1. Drain /\ UNCHANGED <<framer, link>>
    BY <1>15 DEF DrainPackets
  <2>2. QED BY <1>1, <2>1, DrainOrder DEF Emits
<1>16. CASE UNCHANGED vars
  <2>1. UNCHANGED <<framer, deframer, lastFrame, channel>>
    BY <1>16 DEF vars, link
  <2>2. /\ stream' = stream /\ packets' = packets /\ emitted' = emitted /\ delivered' = delivered
        /\ pc' = pc /\ cur' = cur /\ rest' = rest /\ pending' = pending /\ inSync' = inSync
        /\ lastFrame' = lastFrame /\ channel' = channel
    BY <2>1 DEF framer, deframer
  <2>3. OInv'
    BY <2>2 DEF OInv, NumbersOK, OrderOK, PastOK, Before, FrontOf, Mark, End
  <2>4. QED BY <2>2, <2>3
<1>17. QED BY <1>4, <1>5, <1>6, <1>7, <1>8, <1>10, <1>11, <1>12, <1>13, <1>14, <1>15, <1>16
          DEF Next

LEMMA SceneStays == [Next]_vars => scene' = scene
BY DEF Next, vars, link, PackPacket, FlushChannel, SendFrame, SendIdle, Lose, Damage, Mispoint,
       Duplicate, Stray, Lagged, Receive, DrainPackets

\* The numbers emitted on a channel.
LEMMA NumbersType ==
    ASSUME LInv, NumbersOK, Orderly, NEW v \in VCs
    PROVE  /\ Numbers[v] \in Seq(Nat) /\ Len(Numbers[v]) = Len(delivered[v])
           /\ Len(delivered[v]) \in Nat /\ delivered[v] \in Seq(Seq(Octet))
           /\ \A k \in 1 .. Len(delivered[v]) : /\ Numbers[v][k] = delivered[v][k][1].pkt.id
                                                /\ delivered[v][k] \in ToSet(delivered[v])
<1> DEFINE z == delivered[v]
<1>1. z \in Seq(Seq(Octet)) /\ Len(z) \in Nat /\ DOMAIN z = 1 .. Len(z)
  <2>1. z \in Seq(Seq(Octet))
    BY DEF LInv, ReceiverOK, ReceiverTypes
  <2> HIDE DEF z
  <2>2. QED BY <2>1
<1>2. \A k \in 1 .. Len(z) : z[k] \in ToSet(z)
  BY <1>1 DEF ToSet
<1>3. \A k \in 1 .. Len(z) : z[k][1].pkt.id \in Nat
  <2>1. packets[v] \in Nat
    BY DEF LInv, SenderOK
  <2>2. \A k \in 1 .. Len(z) : z[k][1].pkt.id \in 1 .. packets[v]
    BY <1>2, DeliveredNumber
  <2>3. QED BY <2>1, <2>2
<1>4. Numbers[v] = [k \in 1 .. Len(z) |-> z[k][1].pkt.id]
  BY DEF Numbers
<1> HIDE DEF z
<1>5. Numbers[v] \in [1 .. Len(z) -> Nat]
  BY <1>3, <1>4
<1>6. Numbers[v] \in Seq(Nat) /\ Len(Numbers[v]) = Len(z)
  <2> DEFINE y == Numbers[v]
             n == Len(z)
  <2>1. y \in [1 .. n -> Nat] /\ n \in Nat
    BY <1>1, <1>5
  <2> HIDE DEF y, n
  <2>2. y \in Seq(Nat) /\ Len(y) = n
    BY <2>1
  <2>3. QED BY <2>2 DEF y, n
<1>7. QED BY <1>1, <1>2, <1>4, <1>6 DEF z

\* A step of the link is one of the lossy queue.
LEMMA LinkStep ==
    ASSUME RInv, [Next]_vars
    PROVE  [Link!Next]_<<Packed, Numbers>>
<1>1. CASE ~Orderly
  <2>1. ~Orderly'
    BY <1>1, SceneStays DEF Orderly
  <2>2. Packed' = Packed /\ Numbers' = Numbers
    BY <1>1, <2>1 DEF Packed, Numbers
  <2>3. QED BY <2>2
<1>2. CASE Orderly
  <2>1. Orderly'
    BY <1>2, SceneStays DEF Orderly
  <2>2. TInv /\ OInv /\ LInv /\ NumbersOK
    BY <1>2 DEF RInv, TInv, OInv, Protected, Orderly
  <2>3. /\ Packed = [v \in VCs |-> packets[v]] /\ Packed' = [v \in VCs |-> packets'[v]]
        /\ packets \in [VCs -> Nat]
    BY <1>2, <2>1, <2>2 DEF Packed, LInv, SenderOK
  <2>4. /\ Numbers = [v \in VCs |-> [k \in 1 .. Len(delivered[v]) |-> delivered[v][k][1].pkt.id]]
        /\ Numbers' = [v \in VCs |-> [k \in 1 .. Len(delivered'[v]) |-> delivered'[v][k][1].pkt.id]]
    BY <1>2, <2>1 DEF Numbers
  <2>5. CASE UNCHANGED <<packets, delivered>>
    BY <2>3, <2>4, <2>5
  <2>6. CASE Packs
    <3>1. PICK v \in VCs : packets' = [packets EXCEPT ![v] = @ + 1] /\ UNCHANGED delivered
      BY <2>6 DEF Packs
    <3>2. Packed' = [Packed EXCEPT ![v] = @ + 1]
      BY <2>3, <3>1
    <3>3. Numbers' = Numbers
      BY <2>4, <3>1
    <3>4. Link!Send(v)
      BY <3>2, <3>3 DEF Link!Send
    <3>5. QED BY <3>4 DEF Link!Next
  <2>7. CASE Emits
    <3>1. PICK v \in VCs, s \in Seq(Octet) :
             /\ delivered' = [delivered EXCEPT ![v] = Append(@, s)]
             /\ s[1].pkt.id \in 1 .. packets[v]
             /\ \A t \in ToSet(delivered[v]) : t[1].pkt.id < s[1].pkt.id
      BY <2>7 DEF Emits
    <3> DEFINE n == s[1].pkt.id
               z == delivered[v]
               y == Numbers[v]
    <3>2. Packed' = Packed /\ n \in 1 .. Packed[v] /\ packets[v] \in Nat
      BY <2>3, <2>7, <3>1 DEF Emits
    <3>3. /\ y \in Seq(Nat) /\ Len(y) = Len(z) /\ Len(z) \in Nat /\ z \in Seq(Seq(Octet))
          /\ \A k \in 1 .. Len(z) : y[k] = z[k][1].pkt.id /\ z[k] \in ToSet(z)
      BY <1>2, <2>2, NumbersType
    <3>4. \A k \in 1 .. Len(y) : y[k] < n
      BY <3>1, <3>3
    <3>5. Numbers'[v] = Append(y, n)
      <4>1. delivered'[v] = Append(z, s)
        BY <2>2, <3>1 DEF LInv, ReceiverOK, ReceiverTypes
      <4>2. Numbers'[v] = [k \in 1 .. Len(Append(z, s)) |-> Append(z, s)[k][1].pkt.id]
        BY <2>4, <4>1
      <4> HIDE DEF z, y
      <4>3. /\ Len(Append(z, s)) = Len(z) + 1
            /\ \A k \in 1 .. Len(z) + 1 : Append(z, s)[k] = IF k <= Len(z) THEN z[k] ELSE s
        BY <3>3
      <4>4. n \in Nat
        BY <3>1, <3>2
      <4> HIDE DEF n
      <4>5. /\ Append(y, n) \in Seq(Nat) /\ Len(Append(y, n)) = Len(y) + 1
            /\ \A k \in 1 .. Len(y) + 1 : Append(y, n)[k] = IF k <= Len(y) THEN y[k] ELSE n
        BY <3>3, <4>4
      <4>6. Append(y, n) = [k \in 1 .. Len(y) + 1 |-> Append(y, n)[k]]
        <5> DEFINE q == Append(y, n)
        <5>1. q \in Seq(Nat) /\ Len(q) = Len(y) + 1
          BY <4>5
        <5> HIDE DEF q
        <5>2. q = [k \in 1 .. Len(q) |-> q[k]]
          BY <5>1
        <5>3. q = [k \in 1 .. Len(y) + 1 |-> q[k]]
          BY <5>1, <5>2
        <5>4. QED BY <5>3 DEF q
      <4>7. \A k \in 1 .. Len(z) + 1 : Append(z, s)[k][1].pkt.id = Append(y, n)[k]
        <5> SUFFICES ASSUME NEW k \in 1 .. Len(z) + 1
                     PROVE  Append(z, s)[k][1].pkt.id = Append(y, n)[k]
          OBVIOUS
        <5>1. CASE k <= Len(z)
          BY <3>3, <4>3, <4>5, <5>1
        <5>2. CASE ~(k <= Len(z))
          BY <3>3, <4>3, <4>5, <5>2 DEF n
        <5>3. QED BY <5>1, <5>2
      <4>8. QED BY <3>3, <4>2, <4>3, <4>6, <4>7
    <3>6. Numbers' = [Numbers EXCEPT ![v] = Append(@, n)]
      <4>1. \A u \in VCs \ {v} : delivered'[u] = delivered[u]
        BY <2>2, <3>1 DEF LInv, ReceiverOK, ReceiverTypes
      <4>2. \A u \in VCs \ {v} : Numbers'[u] = Numbers[u]
        BY <2>4, <4>1
      <4>3. Numbers = [u \in VCs |-> Numbers[u]] /\ Numbers' = [u \in VCs |-> Numbers'[u]]
        BY <2>4
      <4> HIDE DEF n
      <4>4. QED BY <3>5, <4>2, <4>3
    <3> HIDE DEF n, z
    <3>7. Link!Deliver(v)
      BY <3>2, <3>4, <3>6 DEF Link!Deliver
    <3>8. QED BY <3>7 DEF Link!Next
  <2>8. QED BY <2>2, <1>2, <2>5, <2>6, <2>7, OrderlyStep
<1>3. QED BY <1>1, <1>2

LEMMA LinkInit == Init => Link!Init /\ RInv
<1> SUFFICES ASSUME Init PROVE Link!Init /\ RInv
  OBVIOUS
<1>1. /\ packets = [v \in VCs |-> 0] /\ delivered = [v \in VCs |-> <<>>] /\ pc = "ready"
      /\ stream = [v \in VCs |-> <<>>] /\ inSync = [v \in VCs |-> FALSE] /\ channel = <<>>
  BY DEF Init, FramerInit, DeframerInit
<1>2. Link!Init
  <2>1. Packed = [v \in VCs |-> 0]
    BY <1>1 DEF Packed
  <2>2. Numbers = [v \in VCs |-> <<>>]
    <3>1. \A v \in VCs : [k \in 1 .. Len(delivered[v]) |-> delivered[v][k][1].pkt.id] = <<>>
      BY <1>1
    <3>2. QED BY <3>1 DEF Numbers
  <2>3. QED BY <2>1, <2>2 DEF Link!Init
<1>3. OInv
  BY <1>1 DEF OInv, NumbersOK, OrderOK, PastOK, Before, Ordered, ToSet
<1>4. QED BY <1>2, <1>3, InvInit DEF RInv

\* On a link that keeps the order of its frames, every virtual channel of the
\* framer and deframer of frames.rs is a lossy queue: what is emitted was packed,
\* in that order and at most once, whatever is lost, damaged, strayed or missed.
THEOREM LossyQueue == Spec => IsPacketLink
<1>1. Init => Link!Init /\ RInv
  BY LinkInit
<1>2. RInv /\ [Next]_vars => RInv'
  <2> SUFFICES ASSUME RInv, [Next]_vars PROVE RInv'
    OBVIOUS
  <2>1. TInv'
    BY InvStep DEF RInv
  <2>2. Orderly' => OInv'
    BY SceneStays, OrderlyStep DEF RInv, Orderly
  <2>3. QED BY <2>1, <2>2 DEF RInv
<1>3. RInv /\ [Next]_vars => [Link!Next]_<<Packed, Numbers>>
  BY LinkStep
<1>4. QED BY <1>1, <1>2, <1>3, PTL DEF Spec, IsPacketLink, Link!Spec

-----------------------------------------------------------------------------
(***************************************************************************)
(* A frame that is lost costs the packets it carries a part of and no      *)
(* other, on the same links.  Each frame points at the first start in it,  *)
(* so an unbroken run of frames, once begun, keeps every packet that       *)
(* starts in it: emitted, or still to come out of what is pending.         *)
(***************************************************************************)

\* Every start of a packet that is still ahead is known, in order.
StartsOK == \A v \in VCs :
    /\ \A i, j \in 1 .. Len(starts[v]) : i < j => starts[v][i] < starts[v][j]
    /\ \A n \in emitted[v] .. Len(stream[v]) - 1 :
          stream[v][n + 1].at = 0 => \E i \in 1 .. Len(starts[v]) : starts[v][i] = n

\* A frame points at the first start in it.
PointsFirst(f) ==
    /\ Len(f.data) <= DataLen
    /\ f.fhp < Len(f.data) \/ f.fhp \in {OnlyIdle, NoStart}
    /\ \A j \in 1 .. Len(f.data) : f.data[j].at = 0 => f.fhp < j

\* The frames under way are new.
NewOK ==
    /\ \A i \in 1 .. Len(channel) : PointsFirst(channel[i])
    /\ \A i, j \in 1 .. Len(channel) :
          i < j /\ channel[i].ours /\ channel[j].ours /\ channel[i].vc = channel[j].vc
            => channel[i].seq < channel[j].seq
    /\ \A i \in 1 .. Len(channel) : channel[i].ours /\ lastFrame[channel[i].vc] # None
            => lastFrame[channel[i].vc].seq < channel[i].seq

\* What was accepted ends with the last frame.
SpansOK == \A a \in accepted :
    /\ a \in [vc : VCs, seq : Nat, lo : Nat, hi : Nat]
    /\ lastFrame[a.vc] # None /\ a.seq <= lastFrame[a.vc].seq /\ a.hi <= End(a.vc)

\* No complete packet waits between drains.
WaitingOK == \A v \in VCs : pc = "ready" \/ cur # v => NotWhole(pending[v])

AllTaken(v, m, n) == \A k \in m .. n : \E c \in accepted : c.vc = v /\ c.seq = k

\* The octet behind the first n came in the unbroken run that the last frame ends.
InRun(v, n) ==
    /\ lastFrame[v] # None /\ n < End(v)
    /\ \E a \in accepted : a.vc = v /\ a.lo <= n /\ AllTaken(v, a.seq, lastFrame[v].seq)

PacketAt(v, n) == stream[v][n + 1].pkt
Start(v, n) == n \in 0 .. Len(stream[v]) - 1 /\ stream[v][n + 1].at = 0

\* Emitted, but for an idle packet, or still to come out of what is pending.
Done(v, n) == PacketAt(v, n).idle \/ Octets(PacketAt(v, n)) \in ToSet(delivered[v])
Kept(v, n) == Done(v, n) \/ (inSync[v] /\ FrontOf(v) <= n)

Owed(v, n) == Start(v, n) /\ (InRun(v, n) \/ Arrived(v, n, n + PacketAt(v, n).len))
KeptOK == \A v \in VCs : \A n \in Nat : Owed(v, n) => Kept(v, n)

LocalOK == StartsOK /\ NewOK /\ SpansOK /\ WaitingOK /\ KeptOK

-----------------------------------------------------------------------------

LEMMA QueueStarts ==
    ASSUME SenderOK, StartsOK, NEW v \in VCs, NEW len \in Nat, NEW idle \in BOOLEAN,
           Queue(v, len, idle)
    PROVE  StartsOK'
<1> DEFINE S == stream[v]
           p == [id |-> packets[v] + 1, len |-> len, idle |-> idle]
           T == Octets(p)
           s == starts[v]
<1>1. /\ stream' = [stream EXCEPT ![v] = @ \o T] /\ emitted' = emitted
      /\ starts' = [starts EXCEPT ![v] = Append(@, emitted[v] + Len(queued[v]))]
  BY DEF Queue
<1>2. /\ S \in Seq(Octet) /\ s \in Seq(Nat) /\ emitted[v] \in Nat /\ emitted[v] + Len(queued[v]) = Len(S)
      /\ stream \in [VCs -> Seq(Octet)] /\ starts \in [VCs -> Seq(Nat)] /\ packets[v] \in Nat
      /\ \A i \in DOMAIN s : s[i] < Len(S)
  BY DEF SenderOK
<1>3. /\ T \in Seq(Octet) /\ Len(T) = len
      /\ \A i \in 1 .. len : T[i].at = i - 1
  <2>1. p \in Packet /\ p.len = len
    BY <1>2 DEF Packet
  <2> HIDE DEF p
  <2>2. /\ Octets(p) \in Seq(Octet) /\ Len(Octets(p)) = len
        /\ \A i \in 1 .. len : Octets(p)[i] = [pkt |-> p, at |-> i - 1]
    BY <2>1, OctetsType
  <2>3. QED BY <2>2
<1>4. stream'[v] = S \o T /\ starts'[v] = Append(s, Len(S))
  BY <1>1, <1>2
<1> HIDE DEF p, T, S, s
<1>5. /\ Len(S \o T) = Len(S) + len /\ Len(S) \in Nat
      /\ \A i \in 1 .. Len(S) + len : (S \o T)[i] = IF i <= Len(S) THEN S[i] ELSE T[i - Len(S)]
  <2>1. S \in Seq(Octet) /\ T \in Seq(Octet) /\ Len(T) = len
    BY <1>2, <1>3
  <2>2. QED BY <2>1, Joined
<1>6. /\ Len(Append(s, Len(S))) = Len(s) + 1 /\ Len(s) \in Nat /\ DOMAIN s = 1 .. Len(s)
      /\ \A i \in 1 .. Len(s) + 1 : Append(s, Len(S))[i] = IF i <= Len(s) THEN s[i] ELSE Len(S)
      /\ \A i \in 1 .. Len(s) : s[i] \in Nat /\ s[i] < Len(S)
  <2>1. s \in Seq(Nat) /\ Len(S) \in Nat /\ \A i \in DOMAIN s : s[i] < Len(S)
    BY <1>2, <1>5
  <2> DEFINE c == Len(S)
  <2> HIDE DEF c
  <2>2. s \in Seq(Nat) /\ c \in Nat
    BY <2>1 DEF c
  <2>3. /\ Len(Append(s, c)) = Len(s) + 1 /\ Len(s) \in Nat /\ DOMAIN s = 1 .. Len(s)
        /\ \A i \in 1 .. Len(s) + 1 : Append(s, c)[i] = IF i <= Len(s) THEN s[i] ELSE c
    BY ONLY <2>2
  <2>4. \A i \in 1 .. Len(s) : s[i] \in Nat
    BY ONLY <2>2
  <2>5. QED BY <2>1, <2>3, <2>4 DEF c
<1>7. /\ \A i, j \in 1 .. Len(s) : i < j => s[i] < s[j]
      /\ \A n \in emitted[v] .. Len(S) - 1 : S[n + 1].at = 0 => \E i \in 1 .. Len(s) : s[i] = n
  BY DEF StartsOK, S, s
<1>8. \A i, j \in 1 .. Len(starts'[v]) : i < j => starts'[v][i] < starts'[v][j]
  <2> SUFFICES ASSUME NEW i \in 1 .. Len(s) + 1, NEW j \in 1 .. Len(s) + 1, i < j
               PROVE  Append(s, Len(S))[i] < Append(s, Len(S))[j]
    BY <1>4, <1>6
  <2>1. i \in 1 .. Len(s) /\ i <= Len(s)
    BY <1>6
  <2>2. CASE j <= Len(s)
    BY <1>6, <1>7, <2>1, <2>2
  <2>3. CASE ~(j <= Len(s))
    BY <1>6, <2>1, <2>3
  <2>4. QED BY <2>2, <2>3
<1>9. ASSUME NEW n \in emitted[v] .. Len(stream'[v]) - 1, stream'[v][n + 1].at = 0
      PROVE  \E i \in 1 .. Len(starts'[v]) : starts'[v][i] = n
  <2>1. n \in Nat /\ n < Len(S) + len
    BY <1>2, <1>4, <1>5
  <2>2. CASE n < Len(S)
    <3>1. n + 1 \in 1 .. Len(S) + len /\ n + 1 <= Len(S) /\ n \in emitted[v] .. Len(S) - 1
      BY <1>2, <1>5, <2>1, <2>2
    <3>2. S[n + 1].at = 0
      BY <1>4, <1>5, <1>9, <3>1
    <3>3. PICK i \in 1 .. Len(s) : s[i] = n
      BY <1>7, <3>1, <3>2
    <3>4. i \in 1 .. Len(s) + 1 /\ Append(s, Len(S))[i] = n
      BY <1>6, <3>3
    <3>5. QED BY <1>4, <1>6, <3>4
  <2>3. CASE ~(n < Len(S))
    <3>1. /\ n + 1 \in 1 .. Len(S) + len /\ ~(n + 1 <= Len(S))
          /\ n + 1 - Len(S) \in 1 .. len
      BY <1>5, <2>1, <2>3
    <3>2. T[n + 1 - Len(S)].at = 0
      BY <1>4, <1>5, <1>9, <3>1
    <3>3. T[n + 1 - Len(S)].at = (n + 1 - Len(S)) - 1
      BY <1>3, <3>1
    <3>4. n = Len(S)
      BY <1>5, <2>1, <3>2, <3>3
    <3>5. Len(s) + 1 \in 1 .. Len(s) + 1 /\ Append(s, Len(S))[Len(s) + 1] = n
      BY <1>6, <3>4
    <3>6. QED BY <1>4, <1>6, <3>5
  <2>4. QED BY <2>2, <2>3
<1>10. \A u \in VCs \ {v} : starts'[u] = starts[u] /\ stream'[u] = stream[u]
  BY <1>1, <1>2
<1>11. ASSUME NEW u \in VCs
       PROVE  /\ \A i, j \in 1 .. Len(starts'[u]) : i < j => starts'[u][i] < starts'[u][j]
              /\ \A n \in emitted[u] .. Len(stream'[u]) - 1 :
                    stream'[u][n + 1].at = 0 => \E i \in 1 .. Len(starts'[u]) : starts'[u][i] = n
  <2>1. CASE u = v
    BY <1>8, <1>9, <2>1
  <2>2. CASE u # v
    <3>1. /\ \A i, j \in 1 .. Len(starts[u]) : i < j => starts[u][i] < starts[u][j]
          /\ \A n \in emitted[u] .. Len(stream[u]) - 1 :
                stream[u][n + 1].at = 0 => \E i \in 1 .. Len(starts[u]) : starts[u][i] = n
      BY DEF StartsOK
    <3>2. starts'[u] = starts[u] /\ stream'[u] = stream[u]
      BY <1>10, <2>2
    <3>3. QED BY <3>1, <3>2
  <2>3. QED BY <2>1, <2>2
<1>12. QED BY <1>1, <1>11 DEF StartsOK

\* A frame is cut off: it points at its first start.
LEMMA EmitStarts ==
    ASSUME SenderOK, StartsOK, NEW v \in VCs, EmitFrame(v), NEW f, f = NextFrame(v)
    PROVE  StartsOK' /\ PointsFirst(f)
<1> DEFINE S == stream[v]
           s == starts[v]
           e == emitted[v]
           A == Ahead(v)
           d == f.data
<1>1. /\ UNCHANGED stream /\ emitted' = [emitted EXCEPT ![v] = @ + DataLen]
      /\ FrameOK(f)' /\ f.vc = v /\ f.from = e
  BY EmitKeepsSender
<1>2. starts' = [starts EXCEPT ![v] = A] /\ f.fhp = Pointer(v) /\ d = SubSeq(queued[v], 1, DataLen)
  BY DEF EmitFrame, NextFrame, MakeFrame
<1>3. /\ s \in Seq(Nat) /\ e \in Nat /\ DataLen \in Nat /\ queued[v] \in Seq(Octet)
      /\ Len(queued[v]) >= DataLen /\ starts \in [VCs -> Seq(Nat)] /\ emitted \in [VCs -> Nat]
      /\ S \in Seq(Octet)
  <2>1. /\ s \in Seq(Nat) /\ e \in Nat /\ queued[v] \in Seq(Octet) /\ S \in Seq(Octet)
        /\ starts \in [VCs -> Seq(Nat)] /\ emitted \in [VCs -> Nat]
    BY DEF SenderOK
  <2>2. DataLen \in Nat /\ Len(queued[v]) >= DataLen
    BY FormatAssumption DEF EmitFrame
  <2>3. QED BY <2>1, <2>2
<1>4. Len(d) = DataLen
  <2> DEFINE q == queued[v]
  <2> HIDE DEF q
  <2>1. Len(SubSeq(q, 1, DataLen)) = DataLen
    BY <1>3 DEF q
  <2>2. QED BY <1>2, <2>1 DEF q
<1>5. \A j \in 1 .. DataLen : e + j <= Len(S) /\ d[j] = S[e + j]
  <2>1. Piece(S, d, e)
    BY <1>1 DEF FrameOK
  <2> HIDE DEF S, d, e
  <2>2. QED BY <1>3, <1>4, <2>1 DEF Piece
<1>6. Len(S) \in Nat /\ Len(s) \in Nat
  <2> HIDE DEF S, s
  <2>1. QED BY <1>3
<1>7. PICK b \in 1 .. Len(s) + 1 :
        /\ DOMAIN A = 1 .. Len(s) - b + 1
        /\ \A i \in DOMAIN A : A[i] = s[b + i - 1]
        /\ \A i \in 1 .. b - 1 : s[i] < e
  BY <1>3, AheadOfEmitted
<1>8. A \in Seq(Nat) /\ (A # <<>> => Head(A) \in Nat /\ Head(A) >= e /\ Head(A) = A[1] /\ 1 \in DOMAIN A)
  <2>1. A \in Seq(Nat) /\ (A # <<>> => \E k \in DOMAIN s : Head(A) = s[k] /\ s[k] >= e)
    BY <1>3, AheadOfEmitted
  <2> HIDE DEF A, s, e
  <2>2. QED BY <1>3, <2>1
<1>9. /\ \A i, j \in 1 .. Len(s) : i < j => s[i] < s[j]
      /\ \A n \in e .. Len(S) - 1 : S[n + 1].at = 0 => \E i \in 1 .. Len(s) : s[i] = n
  BY DEF StartsOK
<1>10. \A i \in 1 .. Len(s) : s[i] \in Nat
  BY <1>3
<1>11. Len(A) = Len(s) - b + 1
  <2> HIDE DEF A
  <2>1. DOMAIN A = 1 .. Len(A) /\ Len(A) \in Nat
    BY <1>8
  <2> HIDE DEF s
  <2>2. Len(s) - b + 1 \in Nat
    BY <1>6
  <2>3. QED BY <1>7, <2>1, <2>2
<1>12. Pointer(v) = IF A # <<>> /\ Head(A) < e + DataLen THEN Head(A) - e ELSE NoStart
  BY DEF Pointer
<1> HIDE DEF S, s, e, A, d
<1>13. ASSUME NEW n \in e .. Len(S) - 1, S[n + 1].at = 0
       PROVE  \E i \in 1 .. Len(A) : A[i] = n /\ A # <<>> /\ Head(A) <= n
  <2>1. PICK k \in 1 .. Len(s) : s[k] = n
    BY <1>9, <1>13
  <2>2. n \in Nat /\ n >= e
    BY <1>3
  <2>3. k >= b
    <3>1. ~(k \in 1 .. b - 1)
      BY <1>3, <1>7, <2>1, <2>2
    <3>2. QED BY <1>6, <3>1
  <2>4. k - b + 1 \in 1 .. Len(A) /\ k - b + 1 \in DOMAIN A /\ b + (k - b + 1) - 1 = k
    BY <1>6, <1>7, <1>11, <2>3
  <2>5. A[k - b + 1] = n
    BY <1>7, <2>1, <2>4
  <2>6. A # <<>>
    BY <1>8, <2>4
  <2>7. Head(A) = s[b] /\ b \in 1 .. Len(s)
    <3>1. b + 1 - 1 = b /\ b \in 1 .. Len(s)
      BY <1>6, <2>3
    <3>2. QED BY <1>7, <1>8, <2>6, <3>1
  <2>8. s[b] <= s[k]
    <3>1. CASE b = k
      BY <1>10, <2>7, <3>1
    <3>2. CASE b # k
      BY <1>6, <1>9, <1>10, <2>3, <2>7, <3>2
    <3>3. QED BY <3>1, <3>2
  <2>9. QED BY <2>1, <2>4, <2>5, <2>6, <2>7, <2>8
<1>14. PointsFirst(f)
  <2>1. f.fhp < Len(d) \/ f.fhp = NoStart
    BY <1>2, <1>3, <1>4, <1>8, <1>12
  <2>2. ASSUME NEW j \in 1 .. DataLen, d[j].at = 0 PROVE f.fhp < j
    <3>1. PICK n : n = e + j - 1
      OBVIOUS
    <3>2. n \in e .. Len(S) - 1 /\ n + 1 = e + j
      BY <1>3, <1>5, <1>6, <3>1
    <3>3. A # <<>> /\ Head(A) <= n
      BY <1>5, <1>13, <2>2, <3>2
    <3>4. Head(A) \in Nat /\ Head(A) >= e
      BY <1>8, <3>3
    <3>5. Head(A) < e + DataLen /\ Head(A) - e < j
      BY <1>3, <3>1, <3>3, <3>4
    <3>6. QED BY <1>2, <1>12, <3>3, <3>5
  <2>3. QED BY <1>3, <1>4, <2>1, <2>2 DEF PointsFirst, d
<1>15. /\ \A i, j \in 1 .. Len(A) : i < j => A[i] < A[j]
       /\ \A n \in e + DataLen .. Len(S) - 1 : S[n + 1].at = 0 => \E i \in 1 .. Len(A) : A[i] = n
  <2>1. ASSUME NEW i \in 1 .. Len(A), NEW j \in 1 .. Len(A), i < j PROVE A[i] < A[j]
    <3>1. /\ b + i - 1 \in 1 .. Len(s) /\ b + j - 1 \in 1 .. Len(s) /\ b + i - 1 < b + j - 1
          /\ i \in DOMAIN A /\ j \in DOMAIN A
      BY <1>6, <1>7, <1>11, <2>1
    <3>2. QED BY <1>7, <1>9, <3>1
  <2>2. \A n \in e + DataLen .. Len(S) - 1 : n \in e .. Len(S) - 1
    BY <1>3, <1>6
  <2>3. QED BY <1>13, <2>1, <2>2
<1>16. starts'[v] = A /\ emitted'[v] = e + DataLen
  BY <1>1, <1>2, <1>3 DEF e
<1>17. \A u \in VCs \ {v} : starts'[u] = starts[u] /\ emitted'[u] = emitted[u]
  BY <1>1, <1>2, <1>3
<1>18. ASSUME NEW u \in VCs
       PROVE  /\ \A i, j \in 1 .. Len(starts'[u]) : i < j => starts'[u][i] < starts'[u][j]
              /\ \A n \in emitted'[u] .. Len(stream[u]) - 1 :
                    stream[u][n + 1].at = 0 => \E i \in 1 .. Len(starts'[u]) : starts'[u][i] = n
  <2>1. CASE u = v
    BY <1>15, <1>16, <2>1 DEF S
  <2>2. CASE u # v
    <3>1. /\ \A i, j \in 1 .. Len(starts[u]) : i < j => starts[u][i] < starts[u][j]
          /\ \A n \in emitted[u] .. Len(stream[u]) - 1 :
                stream[u][n + 1].at = 0 => \E i \in 1 .. Len(starts[u]) : starts[u][i] = n
      BY DEF StartsOK
    <3>2. starts'[u] = starts[u] /\ emitted'[u] = emitted[u]
      BY <1>17, <2>2
    <3>3. QED BY <3>1, <3>2
  <2>3. QED BY <2>1, <2>2
<1>19. StartsOK'
  BY <1>1, <1>18 DEF StartsOK
<1>20. QED BY <1>14, <1>19

\* Frames that are left are as new as they were.
LEMMA NewStays ==
    ASSUME NewOK, Thinned,
           \A i \in 1 .. Len(channel') :
              channel'[i].ours /\ lastFrame'[channel'[i].vc] # None
                => lastFrame'[channel'[i].vc].seq < channel'[i].seq
    PROVE  NewOK'
<1>1. PICK m \in [1 .. Len(channel') -> 1 .. Len(channel)] :
         /\ \A i, j \in 1 .. Len(channel') : i < j => m[i] < m[j]
         /\ \A i \in 1 .. Len(channel') : /\ Alike(channel'[i], channel[m[i]])
                                          /\ channel'[i].ours => channel[m[i]].ours
  BY DEF Thinned
<1>2. ASSUME NEW i \in 1 .. Len(channel')
      PROVE  /\ m[i] \in 1 .. Len(channel)
             /\ channel'[i].vc = channel[m[i]].vc /\ channel'[i].seq = channel[m[i]].seq
             /\ channel'[i].data = channel[m[i]].data /\ channel'[i].fhp = channel[m[i]].fhp
             /\ channel'[i].ours => channel[m[i]].ours
  BY <1>1 DEF Alike
<1>3. \A i \in 1 .. Len(channel') : PointsFirst(channel'[i])
  <2> SUFFICES ASSUME NEW i \in 1 .. Len(channel') PROVE PointsFirst(channel'[i])
    OBVIOUS
  <2>1. PointsFirst(channel[m[i]])
    BY <1>2 DEF NewOK
  <2>2. QED BY <1>2, <2>1 DEF PointsFirst
<1>4. ASSUME NEW i \in 1 .. Len(channel'), NEW j \in 1 .. Len(channel'), i < j,
             channel'[i].ours, channel'[j].ours, channel'[i].vc = channel'[j].vc
      PROVE  channel'[i].seq < channel'[j].seq
  <2>1. m[i] < m[j]
    BY <1>1, <1>4
  <2>2. channel[m[i]].seq < channel[m[j]].seq
    <3>1. /\ m[i] \in 1 .. Len(channel) /\ m[j] \in 1 .. Len(channel)
          /\ channel[m[i]].ours /\ channel[m[j]].ours /\ channel[m[i]].vc = channel[m[j]].vc
      BY <1>2, <1>4
    <3>2. QED BY <2>1, <3>1 DEF NewOK
  <2>3. QED BY <1>2, <2>2
<1>5. QED BY <1>3, <1>4 DEF NewOK, PointsFirst

\* A frame more, the newest of its channel unless it is another spacecraft's.
LEMMA NewSent ==
    ASSUME LInv, NewOK, NEW f \in Frame, PointsFirst(f), f.ours => f.seq = seqs[f.vc],
           channel' = Append(channel, f), UNCHANGED lastFrame
    PROVE  NewOK'
<1>1. channel \in Seq(Frame) /\ Len(channel) \in Nat
  BY DEF LInv, FramesOK
<1>2. /\ Len(channel') = Len(channel) + 1
      /\ \A i \in 1 .. Len(channel) + 1 :
            IF i <= Len(channel) THEN i \in 1 .. Len(channel) /\ channel'[i] = channel[i]
            ELSE i = Len(channel) + 1 /\ channel'[i] = f
  BY <1>1
<1>3. f.vc \in VCs
  BY DEF Frame
<1>4. \A g \in Known : g.seq < seqs[g.vc]
  BY DEF LInv, FramesOK, FrameOK
<1>5. \A i \in 1 .. Len(channel) : channel[i] \in Known
  BY ChannelFrame
<1>6. \A i \in 1 .. Len(channel') : PointsFirst(channel'[i])
  <2> SUFFICES ASSUME NEW i \in 1 .. Len(channel') PROVE PointsFirst(channel'[i])
    OBVIOUS
  <2>1. channel'[i] = f \/ (i \in 1 .. Len(channel) /\ channel'[i] = channel[i])
    BY <1>1, <1>2
  <2>2. QED BY <2>1 DEF NewOK
<1>7. ASSUME NEW i \in 1 .. Len(channel'), NEW j \in 1 .. Len(channel'), i < j,
             channel'[i].ours, channel'[j].ours, channel'[i].vc = channel'[j].vc
      PROVE  channel'[i].seq < channel'[j].seq
  <2>1. i \in 1 .. Len(channel) /\ channel'[i] = channel[i]
    BY <1>1, <1>2, <1>7
  <2>2. CASE j <= Len(channel)
    <3>1. j \in 1 .. Len(channel) /\ channel'[j] = channel[j]
      BY <1>1, <1>2, <2>2
    <3>2. QED BY <1>7, <2>1, <3>1 DEF NewOK
  <2>3. CASE ~(j <= Len(channel))
    <3>1. channel'[j] = f
      BY <1>1, <1>2, <2>3
    <3>2. channel[i].seq < seqs[channel[i].vc]
      BY <1>4, <1>5, <2>1
    <3>3. QED BY <1>7, <2>1, <3>1, <3>2
  <2>4. QED BY <2>2, <2>3
<1>8. ASSUME NEW i \in 1 .. Len(channel'), channel'[i].ours, lastFrame'[channel'[i].vc] # None
      PROVE  lastFrame'[channel'[i].vc].seq < channel'[i].seq
  <2>1. CASE i <= Len(channel)
    <3>1. i \in 1 .. Len(channel) /\ channel'[i] = channel[i]
      BY <1>1, <1>2, <2>1
    <3>2. QED BY <1>8, <3>1 DEF NewOK
  <2>2. CASE ~(i <= Len(channel))
    <3>1. channel'[i] = f
      BY <1>1, <1>2, <2>2
    <3>2. lastFrame[f.vc] \in Known /\ lastFrame[f.vc].vc = f.vc
      BY <1>3, <1>8, <3>1 DEF Known, LInv, FramesOK
    <3>3. QED BY <1>4, <1>8, <3>1, <3>2
  <2>3. QED BY <2>1, <2>2
<1>9. QED BY <1>6, <1>7, <1>8 DEF NewOK, PointsFirst

\* The oldest n frames are gone.
LEMMA OlderGone ==
    ASSUME channel \in Seq(Frame), channel' \in Seq(Frame), NEW n \in Nat,
           \A i \in 1 .. Len(channel') : n + i \in 1 .. Len(channel) /\ channel'[i] = channel[n + i]
    PROVE  Thinned
<1> DEFINE m == [i \in 1 .. Len(channel') |-> n + i]
<1>1. m \in [1 .. Len(channel') -> 1 .. Len(channel)] /\ \A i \in 1 .. Len(channel') : m[i] = n + i
  OBVIOUS
<1> HIDE DEF m
<1>2. \A i, j \in 1 .. Len(channel') : i < j => m[i] < m[j]
  BY <1>1
<1>3. \A i \in 1 .. Len(channel') : /\ Alike(channel'[i], channel[m[i]])
                                    /\ channel'[i].ours => channel[m[i]].ours
  <2> SUFFICES ASSUME NEW i \in 1 .. Len(channel')
               PROVE  Alike(channel'[i], channel[m[i]]) /\ (channel'[i].ours => channel[m[i]].ours)
    OBVIOUS
  <2>1. channel'[i] = channel[m[i]]
    BY <1>1
  <2>2. channel'[i] \in Frame
    OBVIOUS
  <2>3. QED BY <2>1, <2>2 DEF Alike
<1>4. QED BY <1>1, <1>2, <1>3 DEF Thinned

LEMMA LaggedNew ==
    ASSUME LInv, NewOK, Lagged
    PROVE  NewOK'
<1>1. PICK n \in 1 .. Len(channel) :
         channel' = SubSeq(channel, n + 1, Len(channel)) /\ lastFrame' = [v \in VCs |-> None]
  BY DEF Lagged
<1>2. channel \in Seq(Frame) /\ Len(channel) \in Nat
  BY DEF LInv, FramesOK
<1>3. /\ channel' \in Seq(Frame)
      /\ \A i \in 1 .. Len(channel') : n + i \in 1 .. Len(channel) /\ channel'[i] = channel[n + i]
  BY <1>1, <1>2
<1>4. Thinned
  <2>1. n \in Nat
    BY <1>2
  <2>2. QED BY <1>2, <1>3, <2>1, OlderGone
<1>5. \A i \in 1 .. Len(channel') : lastFrame'[channel'[i].vc] = None
  <2> SUFFICES ASSUME NEW i \in 1 .. Len(channel') PROVE lastFrame'[channel'[i].vc] = None
    OBVIOUS
  <2>1. channel'[i] \in Frame
    BY <1>3
  <2>2. channel'[i].vc \in VCs
    BY <2>1 DEF Frame
  <2>3. QED BY <1>1, <2>2
<1>6. QED BY <1>4, <1>5, NewStays

LEMMA ReceiveNew ==
    ASSUME LInv, NewOK, ~scene.disorder, Receive
    PROVE  NewOK'
<1>1. 1 \in 1 .. Len(channel) /\ channel' = RemoveAt(channel, 1) /\ Note(channel[1])
  BY DEF Receive
<1>2. channel \in Seq(Frame) /\ Len(channel) \in Nat /\ lastFrame \in [VCs -> Frame \cup {None}]
  BY DEF LInv, FramesOK
<1>3. channel' \in Seq(Frame)
  BY <1>1, <1>2, RemoveAtType
<1>4. \A i \in 1 .. Len(channel') :
         /\ 1 + i \in 1 .. Len(channel) /\ channel'[i] = channel[1 + i] /\ 1 < 1 + i
         /\ channel[1 + i].vc \in VCs
  <2> SUFFICES ASSUME NEW i \in 1 .. Len(channel')
               PROVE  /\ 1 + i \in 1 .. Len(channel) /\ channel'[i] = channel[1 + i] /\ 1 < 1 + i
                      /\ channel[1 + i].vc \in VCs
    OBVIOUS
  <2>1. i \in 1 .. Len(channel) - 1
    BY <1>1, <1>2, WithoutFirst
  <2>2. i + 1 \in 1 .. Len(channel) /\ channel'[i] = channel[i + 1] /\ i + 1 = 1 + i
    BY <1>1, <1>2, <2>1, WithoutFirst
  <2>3. QED BY <1>2, <2>1, <2>2, ChannelFrame
<1>5. Thinned
  BY <1>2, <1>3, <1>4, OlderGone
<1>6. ASSUME NEW i \in 1 .. Len(channel'), channel'[i].ours, lastFrame'[channel'[i].vc] # None
      PROVE  lastFrame'[channel'[i].vc].seq < channel'[i].seq
  <2>1. PICK u : u = channel[1 + i].vc
    OBVIOUS
  <2>2. u \in VCs /\ channel[1 + i].ours
    BY <1>4, <1>6, <2>1
  <2>3. CASE lastFrame'[u] = lastFrame[u]
    BY <1>4, <1>6, <2>1, <2>2, <2>3 DEF NewOK
  <2>4. CASE lastFrame'[u] # lastFrame[u]
    <3>1. Takes(channel[1]) /\ lastFrame' = [lastFrame EXCEPT ![channel[1].vc] = channel[1]]
      BY <1>1, <2>4 DEF Note
    <3>2. channel[1].vc = u /\ lastFrame'[u] = channel[1] /\ channel[1].ours
      BY <1>2, <2>2, <2>4, <3>1 DEF Takes
    <3>3. channel[1].seq < channel[1 + i].seq
      BY <1>1, <1>4, <2>1, <2>2, <3>2 DEF NewOK
    <3>4. QED BY <1>4, <2>1, <3>2, <3>3
  <2>5. QED BY <2>3, <2>4
<1>7. QED BY <1>5, <1>6, NewStays

-----------------------------------------------------------------------------
(* What was accepted, and what of it is kept. *)

\* Between drains what arrived whole is emitted, or idle.
LEMMA ReadyDone ==
    ASSUME LInv, SpansOK, WaitingOK, KeptOK, pc = "ready", NEW v \in VCs, NEW n \in Nat,
           Start(v, n), Arrived(v, n, n + PacketAt(v, n).len)
    PROVE  Done(v, n)
<1> SUFFICES ASSUME ~Done(v, n) PROVE FALSE
  OBVIOUS
<1> DEFINE S == stream[v]
           q == pending[v]
           k == PacketAt(v, n).len
<1>1. inSync[v] /\ FrontOf(v) <= n
  BY DEF KeptOK, Owed, Kept
<1>2. AtPacket(v) /\ Mark(v) = End(v) /\ NotWhole(q)
  BY <1>1 DEF LInv, ReceiverOK, Mark, WaitingOK
<1>3. PICK a \in Nat : Piece(S, q, a) /\ Boundary(S, a) /\ a + Len(q) = End(v)
  BY <1>2 DEF AtPacket
<1>4. Whole(S) /\ S \in Seq(Octet) /\ q \in Seq(Octet)
  BY <1>3 DEF LInv, SenderOK, Piece
<1>5. Len(q) \in Nat /\ Len(S) \in Nat
  BY <1>4
<1>6. FrontOf(v) = a
  <2> DEFINE l == Len(q)
  <2>1. FrontOf(v) = (a + l) - l /\ l \in Nat
    BY <1>2, <1>3, <1>5 DEF FrontOf
  <2> HIDE DEF l
  <2>2. QED BY <2>1
<1>7. n + k <= a + Len(q)
  <2>1. PICK b \in accepted : b.vc = v /\ n + k <= b.hi
    BY DEF Arrived
  <2>2. b.hi <= End(v) /\ b.hi \in Nat
    BY <2>1 DEF SpansOK
  <2>3. n + 1 \in 1 .. Len(S) /\ S[n + 1] \in Octet
    BY <1>4, <1>5 DEF Start
  <2>4. k \in Nat
    BY <2>3, OctetParts DEF PacketAt
  <2>5. End(v) \in Nat
    BY <1>3, <1>5
  <2>6. QED BY <1>3, <2>1, <2>2, <2>4, <2>5
<1>8. n + 1 \in 1 .. Len(S) /\ S[n + 1].at = 0 /\ PacketAt(v, n) = S[n + 1].pkt
  BY <1>5 DEF Start, PacketAt
<1>9. k > HdrLen /\ k \in Nat
  <2>1. S[n + 1] \in Octet
    BY <1>4, <1>8
  <2>2. S[n + 1].pkt.len > HdrLen
    BY <1>4, <1>8 DEF Whole
  <2>3. QED BY <1>8, <2>1, <2>2, OctetParts
<1> DEFINE p == q[1].pkt
<1>10. Len(q) >= HdrLen
  BY <1>1, <1>5, <1>6, <1>7, <1>9, FormatAssumption
<1>11. /\ p \in Packet /\ \A j \in 0 .. p.len - 1 : S[a + 1 + j] = [pkt |-> p, at |-> j]
  BY <1>3, <1>4, <1>10, PieceReads
<1>12. Len(q) < p.len /\ p.len \in Nat
  BY <1>2, <1>10, <1>11 DEF NotWhole, Packet
<1> HIDE DEF S, q, p, k
<1>13. n - a \in 0 .. p.len - 1 /\ a + 1 + (n - a) = n + 1
  <2>1. n < a + Len(q)
    BY <1>5, <1>7, <1>9, FormatAssumption
  <2>2. QED BY <1>1, <1>5, <1>6, <1>12, <2>1
<1>14. S[n + 1] = [pkt |-> p, at |-> n - a]
  BY <1>11, <1>13
<1>15. n = a /\ k = p.len
  BY <1>8, <1>13, <1>14 DEF k
<1>16. QED BY <1>5, <1>7, <1>12, <1>15

\* A frame taken is the last one.
LEMMA TakenSpans ==
    ASSUME LInv, SpansOK, NEW f \in Known, Takes(f), Note(f),
           lastFrame[f.vc] # None => lastFrame[f.vc].seq < f.seq /\ End(f.vc) <= f.from
    PROVE  SpansOK'
<1> DEFINE v == f.vc
<1>1. /\ f \in Frame /\ f # None /\ v \in VCs /\ f.seq \in Nat /\ f.from \in Nat /\ Len(f.data) \in Nat
      /\ lastFrame \in [VCs -> Frame \cup {None}]
  <2>1. f \in Frame /\ lastFrame \in [VCs -> Frame \cup {None}]
    BY DEF LInv, FramesOK, FrameOK
  <2>2. f.data \in Seq(Octet) /\ v \in VCs /\ f.seq \in Nat /\ f.from \in Nat
    BY <2>1 DEF Frame
  <2>3. QED BY <2>1, <2>2, FrameNotNone
<1>2. accepted' = accepted \cup {Span(f)} /\ lastFrame' = [lastFrame EXCEPT ![v] = f]
  BY DEF Note
<1>3. lastFrame'[v] = f /\ \A u \in VCs \ {v} : lastFrame'[u] = lastFrame[u]
  BY <1>1, <1>2
<1>4. End(v)' = f.from + Len(f.data) /\ \A u \in VCs \ {v} : End(u)' = End(u)
  BY <1>3 DEF End
<1>5. ASSUME NEW a \in accepted'
      PROVE  /\ a \in [vc : VCs, seq : Nat, lo : Nat, hi : Nat]
             /\ lastFrame'[a.vc] # None /\ a.seq <= lastFrame'[a.vc].seq /\ a.hi <= End(a.vc)'
  <2>1. CASE a = Span(f)
    BY <1>1, <1>3, <1>4, <2>1 DEF Span
  <2>2. CASE a \in accepted
    <3>1. /\ a \in [vc : VCs, seq : Nat, lo : Nat, hi : Nat] /\ a.vc \in VCs /\ a.seq \in Nat /\ a.hi \in Nat
          /\ lastFrame[a.vc] # None /\ a.seq <= lastFrame[a.vc].seq /\ a.hi <= End(a.vc)
      BY <2>2 DEF SpansOK
    <3>2. CASE a.vc = v
      <4>1. lastFrame[v].seq \in Nat /\ End(v) \in Nat
        BY <1>1, <3>1, <3>2, LastFrame DEF Frame
      <4>2. a.seq <= f.seq /\ a.hi <= f.from + Len(f.data)
        BY <1>1, <3>1, <3>2, <4>1
      <4>3. QED BY <1>1, <1>3, <1>4, <3>1, <3>2, <4>2
    <3>3. CASE a.vc # v
      BY <1>3, <1>4, <3>1, <3>3
    <3>4. QED BY <3>2, <3>3
  <2>3. QED BY <1>2, <2>1, <2>2
<1>6. QED BY <1>5 DEF SpansOK, End

\* A channel that a step leaves alone keeps what it kept.
LEMMA KeptStays ==
    ASSUME KeptOK, NEW v \in VCs,
           stream'[v] = stream[v], lastFrame'[v] = lastFrame[v], delivered'[v] = delivered[v],
           inSync'[v] = inSync[v], FrontOf(v)' = FrontOf(v),
           \A a : a.vc = v => (a \in accepted' <=> a \in accepted)
    PROVE  \A n \in Nat : Owed(v, n)' => Kept(v, n)'
<1> SUFFICES ASSUME NEW n \in Nat, Owed(v, n)' PROVE Kept(v, n)'
  OBVIOUS
<1>1. Start(v, n) /\ PacketAt(v, n)' = PacketAt(v, n) /\ End(v)' = End(v)
  BY DEF Owed, Start, PacketAt, End
<1>2. CASE InRun(v, n)'
  <2>1. PICK a \in accepted' :
           /\ a.vc = v /\ a.lo <= n
           /\ \A k \in a.seq .. lastFrame[v].seq : \E c \in accepted' : c.vc = v /\ c.seq = k
    BY <1>2 DEF InRun, AllTaken
  <2>2. a \in accepted /\ AllTaken(v, a.seq, lastFrame[v].seq)
    BY <2>1 DEF AllTaken
  <2>3. InRun(v, n)
    BY <1>1, <1>2, <2>1, <2>2 DEF InRun
  <2>4. QED BY <1>1, <2>3 DEF KeptOK, Owed, Kept, Done, PacketAt
<1>3. CASE Arrived(v, n, n + PacketAt(v, n).len)'
  <2>1. Arrived(v, n, n + PacketAt(v, n).len)
    BY <1>1, <1>3 DEF Arrived
  <2>2. QED BY <1>1, <2>1 DEF KeptOK, Owed, Kept, Done, PacketAt
<1>4. QED BY <1>2, <1>3 DEF Owed

\* A frame is taken: the run goes on, or begins with the frame.
LEMMA RunTaken ==
    ASSUME LInv, SpansOK, NEW f \in Known, Takes(f), Window(f), Note(f), NEW n \in Nat,
           lastFrame[f.vc] # None => lastFrame[f.vc].seq < f.seq,
           InRun(f.vc, n)'
    PROVE  /\ n < f.from + Len(f.data)
           /\ \/ f.from <= n
              \/ n < f.from /\ lastFrame[f.vc] # None /\ ~Gap(f) /\ InRun(f.vc, n)
<1> DEFINE v == f.vc
<1>1. /\ f \in Frame /\ v \in VCs /\ f.seq \in Nat /\ f.from \in Nat
      /\ lastFrame \in [VCs -> Frame \cup {None}]
  BY DEF LInv, FramesOK, FrameOK, Frame
<1>2. accepted' = accepted \cup {Span(f)} /\ lastFrame'[v] = f
  BY <1>1 DEF Note
<1>3. n < f.from + Len(f.data)
  BY <1>2 DEF InRun, End
<1>4. PICK a \in accepted' : a.vc = v /\ a.lo <= n
                             /\ \A k \in a.seq .. f.seq : \E c \in accepted' : c.vc = v /\ c.seq = k
  BY <1>2 DEF InRun, AllTaken
<1>5. ASSUME ~(f.from <= n)
      PROVE  n < f.from /\ lastFrame[v] # None /\ ~Gap(f) /\ InRun(v, n)
  <2>1. a \in accepted
    BY <1>2, <1>4, <1>5 DEF Span
  <2>2. lastFrame[v] # None /\ a.seq <= lastFrame[v].seq /\ a.seq \in Nat
    BY <1>4, <2>1 DEF SpansOK
  <2>3. /\ lastFrame[v].seq \in Nat /\ (~Gap(f) <=> f.seq = lastFrame[v].seq + 1)
        /\ (~Gap(f) => f.from = End(v)) /\ lastFrame[v].seq < f.seq
    BY <2>2, GapTells DEF LInv
  <2>4. \A k \in a.seq .. f.seq - 1 : \E c \in accepted : c.vc = v /\ c.seq = k /\ k <= lastFrame[v].seq
    <3> SUFFICES ASSUME NEW k \in a.seq .. f.seq - 1
                 PROVE  \E c \in accepted : c.vc = v /\ c.seq = k /\ k <= lastFrame[v].seq
      OBVIOUS
    <3>1. k \in a.seq .. f.seq /\ k # f.seq
      BY <1>1, <2>2
    <3>2. PICK c \in accepted' : c.vc = v /\ c.seq = k
      BY <1>4, <3>1
    <3>3. c \in accepted
      BY <1>2, <3>1, <3>2 DEF Span
    <3>4. QED BY <3>2, <3>3 DEF SpansOK
  <2>5. f.seq = lastFrame[v].seq + 1
    <3>1. f.seq - 1 \in a.seq .. f.seq - 1
      BY <1>1, <2>2, <2>3
    <3>2. f.seq - 1 <= lastFrame[v].seq
      BY <2>4, <3>1
    <3>3. QED BY <1>1, <2>3, <3>2
  <2>6. ~Gap(f) /\ f.from = End(v)
    BY <2>3, <2>5
  <2>7. n < f.from
    BY <1>1, <1>5
  <2>8. AllTaken(v, a.seq, lastFrame[v].seq)
    <3>1. f.seq - 1 = lastFrame[v].seq
      BY <2>3, <2>5
    <3>2. QED BY <2>4, <3>1 DEF AllTaken
  <2>9. InRun(v, n)
    BY <1>4, <2>1, <2>2, <2>6, <2>7, <2>8 DEF InRun
  <2>10. QED BY <2>2, <2>6, <2>7, <2>9
<1>6. QED BY <1>3, <1>5

\* What has arrived with the frame is in the run that it ends.
LEMMA ArrivedInRun ==
    ASSUME LInv, SpansOK, NEW f \in Known, Takes(f), Note(f), NEW n \in Nat, NEW h \in Nat, n < h,
           lastFrame[f.vc] # None => lastFrame[f.vc].seq < f.seq /\ End(f.vc) <= f.from,
           Arrived(f.vc, n, h)'
    PROVE  Arrived(f.vc, n, h) \/ InRun(f.vc, n)'
<1> DEFINE v == f.vc
<1>1. /\ f \in Frame /\ v \in VCs /\ f.seq \in Nat /\ f.from \in Nat /\ f # None
      /\ lastFrame \in [VCs -> Frame \cup {None}]
  <2>1. f \in Frame /\ lastFrame \in [VCs -> Frame \cup {None}]
    BY DEF LInv, FramesOK, FrameOK
  <2>2. QED BY <2>1, FrameNotNone DEF Frame
<1>2. accepted' = accepted \cup {Span(f)} /\ lastFrame'[v] = f
  BY <1>1 DEF Note
<1>3. PICK a \in accepted', b \in accepted' :
         /\ a.vc = v /\ b.vc = v /\ a.lo <= n /\ h <= b.hi
         /\ \A s \in a.seq .. b.seq : \E c \in accepted' : c.vc = v /\ c.seq = s
  BY DEF Arrived
<1>4. CASE b = Span(f)
  <2>1. b.seq = f.seq /\ n < f.from + Len(f.data)
    <3>1. Len(f.data) \in Nat
      <4>1. f.data \in Seq(Octet)
        BY <1>1 DEF Frame
      <4>2. QED BY <4>1
    <3>2. QED BY <1>1, <1>3, <1>4, <3>1 DEF Span
  <2>2. QED BY <1>1, <1>2, <1>3, <2>1 DEF InRun, AllTaken, End
<1>5. CASE b # Span(f)
  <2>1. b \in accepted
    BY <1>2, <1>5
  <2>2. lastFrame[v] # None /\ b.seq <= lastFrame[v].seq /\ b.hi <= End(v) /\ b.seq \in Nat /\ b.hi \in Nat
    BY <1>3, <2>1 DEF SpansOK
  <2>3. lastFrame[v].seq \in Nat /\ End(v) \in Nat
    BY <1>1, <2>2, LastFrame DEF Frame
  <2>4. b.seq < f.seq /\ n < f.from
    BY <1>1, <1>3, <2>2, <2>3
  <2>5. a \in accepted
    BY <1>1, <1>2, <1>3, <2>4 DEF Span
  <2>6. \A s \in a.seq .. b.seq : \E c \in accepted : c.vc = v /\ c.seq = s
    <3> SUFFICES ASSUME NEW s \in a.seq .. b.seq PROVE \E c \in accepted : c.vc = v /\ c.seq = s
      OBVIOUS
    <3>1. PICK c \in accepted' : c.vc = v /\ c.seq = s
      BY <1>3
    <3>2. s # f.seq
      <4>1. a.seq \in Nat
        BY <2>5 DEF SpansOK
      <4>2. QED BY <1>1, <2>2, <2>4, <4>1
    <3>3. c \in accepted
      BY <1>2, <3>1, <3>2 DEF Span
    <3>4. QED BY <3>1, <3>3
  <2>7. QED BY <1>3, <2>1, <2>5, <2>6 DEF Arrived
<1>6. QED BY <1>4, <1>5

\* A frame is taken: what its channel's run now holds is kept.
LEMMA TakenKept ==
    ASSUME LInv, SpansOK, WaitingOK, KeptOK, NEW f \in Known, PointsFirst(f),
           Takes(f), Window(f), HandleFrame(f), Note(f), UNCHANGED stream,
           lastFrame[f.vc] # None => lastFrame[f.vc].seq < f.seq /\ End(f.vc) <= f.from,
           NEW n \in Nat, Owed(f.vc, n)'
    PROVE  Kept(f.vc, n)'
<1> DEFINE v == f.vc
           S == stream[v]
           d == f.data
           p == f.fhp
           k == PacketAt(v, n).len
<1>1. /\ v \in VCs /\ f.from \in Nat /\ p \in Nat /\ d \in Seq(Octet) /\ Len(d) \in Nat
      /\ Piece(S, d, f.from) /\ (p = OnlyIdle => d = <<>>)
      /\ Whole(S) /\ S \in Seq(Octet) /\ Len(S) \in Nat /\ pc = "ready"
  <2>1. FrameOK(f) /\ f \in Frame
    BY DEF LInv, FramesOK, FrameOK
  <2>2. v \in VCs /\ f.from \in Nat /\ p \in Nat /\ d \in Seq(Octet)
    BY <2>1 DEF Frame
  <2>3. Whole(S) /\ S \in Seq(Octet)
    BY <2>2 DEF LInv, SenderOK
  <2>4. Len(d) \in Nat /\ Len(S) \in Nat
    BY <2>2, <2>3
  <2>5. QED BY <2>1, <2>2, <2>3, <2>4 DEF FrameOK, Takes
<1>2. UNCHANGED delivered
  BY FrontMoves
<1>3. Start(v, n) /\ PacketAt(v, n)' = PacketAt(v, n) /\ Done(v, n)' = Done(v, n)
  BY <1>2 DEF Owed, Start, PacketAt, Done
<1>4. n + 1 \in 1 .. Len(S) /\ S[n + 1].at = 0 /\ k \in Nat /\ k > 0
  <2>1. n + 1 \in 1 .. Len(S) /\ S[n + 1].at = 0 /\ S[n + 1] \in Octet
    BY <1>1, <1>3 DEF Start
  <2>2. S[n + 1].pkt.len > HdrLen /\ S[n + 1].pkt.len \in Nat
    BY <1>1, <2>1, OctetParts DEF Whole
  <2>3. QED BY <2>1, <2>2, FormatAssumption DEF PacketAt
<1>5. CASE Arrived(v, n, n + k)
  BY <1>1, <1>3, <1>5, ReadyDone DEF Kept
<1>6. CASE InRun(v, n)'
  <2>1. /\ n < f.from + Len(d)
        /\ \/ f.from <= n
           \/ n < f.from /\ lastFrame[v] # None /\ ~Gap(f) /\ InRun(v, n)
    BY <1>6, RunTaken
  <2>2. CASE f.from <= n
    <3> DEFINE j == n - f.from + 1
    <3>1. j \in 1 .. Len(d) /\ f.from + j = n + 1
      BY <1>1, <2>1, <2>2
    <3>2. d[j].at = 0
      BY <1>1, <1>4, <3>1 DEF Piece
    <3>3. p < j /\ Len(d) <= DataLen
      BY <3>1, <3>2 DEF PointsFirst
    <3>4. p < Len(d) /\ p < 2046 /\ f.from + p <= n
      <4>1. j \in Nat /\ n = f.from + j - 1 /\ DataLen <= 2042
        BY <1>1, <3>1, FormatAssumption
      <4>2. Len(d) \in Nat /\ DataLen \in Nat /\ j <= Len(d)
        BY <1>1, <3>1, FormatAssumption
      <4> HIDE DEF j, d, p
      <4>3. QED BY <1>1, <3>3, <4>1, <4>2
    <3>5. ~(f.fhp = OnlyIdle) /\ ~(f.fhp = NoStart) /\ ~(f.fhp >= Len(f.data))
      <4> HIDE DEF d, p
      <4>1. ~(p = OnlyIdle) /\ ~(p = NoStart) /\ ~(p >= Len(d))
        BY <1>1, <3>4 DEF OnlyIdle, NoStart
      <4>2. QED BY <4>1 DEF d, p
    <3>6. ~AcceptBadPointer(f) /\ AcceptPointer(f)
      <4>1. ~AcceptIdle(f) /\ ~AcceptBadPointer(f) /\ ~AcceptNoStart(f)
        BY <3>5 DEF AcceptIdle, AcceptBadPointer, AcceptNoStart
      <4>2. ~Reject(f) /\ ~Filter(f)
        BY DEF Reject, Filter, Takes
      <4>3. QED BY <4>1, <4>2 DEF HandleFrame
    <3>7. CASE Synced(f)
      <4>1. inSync'[v] /\ FrontOf(v)' = FrontOf(v) /\ FrontOf(v) \in Int /\ FrontOf(v) <= f.from
        BY <3>6, <3>7, FrontMoves
      <4>2. QED BY <1>1, <2>2, <4>1 DEF Kept
    <3>8. CASE ~Synced(f)
      <4>1. inSync'[v] /\ FrontOf(v)' = f.from + p
        BY <3>6, <3>8, FrontMoves
      <4>2. QED BY <3>4, <4>1 DEF Kept
    <3>9. QED BY <3>7, <3>8
  <2>3. CASE n < f.from /\ lastFrame[v] # None /\ ~Gap(f) /\ InRun(v, n)
    <3>1. Done(v, n) \/ (inSync[v] /\ FrontOf(v) <= n)
      BY <1>1, <1>3, <2>3 DEF KeptOK, Owed, Kept
    <3>2. CASE Done(v, n)
      BY <1>3, <3>2 DEF Kept
    <3>3. CASE inSync[v] /\ FrontOf(v) <= n
      <4>1. Synced(f)
        BY <2>3, <3>3 DEF Synced
      <4>2. ~AcceptBadPointer(f)
        <5>1. p < Len(d) \/ p \in {OnlyIdle, NoStart}
          BY DEF PointsFirst
        <5>2. ~(f.fhp \notin {OnlyIdle, NoStart} /\ f.fhp >= Len(f.data))
          <6> HIDE DEF d, p
          <6>1. ~(p \notin {OnlyIdle, NoStart} /\ p >= Len(d))
            BY <1>1, <5>1
          <6>2. QED BY <6>1 DEF d, p
        <5>3. QED BY <5>2 DEF AcceptBadPointer
      <4>3. inSync'[v] /\ FrontOf(v)' = FrontOf(v)
        BY <4>1, <4>2, FrontMoves
      <4>4. QED BY <3>3, <4>3 DEF Kept
    <3>4. QED BY <3>1, <3>2, <3>3
  <2>4. QED BY <2>1, <2>2, <2>3
<1>7. InRun(v, n)' \/ Arrived(v, n, n + k)'
  BY <1>3 DEF Owed
<1>8. Arrived(v, n, n + k)' => Arrived(v, n, n + k) \/ InRun(v, n)'
  <2>1. PICK h : h = n + k
    OBVIOUS
  <2>2. h \in Nat /\ n < h
    BY <1>4, <2>1
  <2>3. Arrived(v, n, h)' => Arrived(v, n, h) \/ InRun(v, n)'
    BY <2>2, ArrivedInRun
  <2>4. (n + k)' = h
    BY <1>3, <2>1
  <2>5. Arrived(v, n, n + k)' => Arrived(v, n, h)'
    BY <2>4 DEF Arrived
  <2>6. QED BY <2>1, <2>3, <2>5
<1>9. QED BY <1>5, <1>6, <1>7, <1>8

\* The sender and the link do not touch what was accepted.
LEMMA LocalStays ==
    ASSUME LocalOK, StartsOK', NewOK',
           UNCHANGED <<stream, accepted, lastFrame, pc, cur, rest, pending, inSync, delivered>>
    PROVE  LocalOK'
<1>1. UNCHANGED <<stream, accepted, lastFrame, pc, cur, rest, pending, inSync, delivered>>
  OBVIOUS
<1>2. SpansOK' /\ WaitingOK'
  BY <1>1 DEF LocalOK, SpansOK, WaitingOK, End
<1>3. KeptOK'
  <2> SUFFICES ASSUME NEW v \in VCs PROVE \A n \in Nat : Owed(v, n)' => Kept(v, n)'
    BY DEF KeptOK
  <2>1. FrontOf(v)' = FrontOf(v)
    BY <1>1 DEF FrontOf, Mark, End
  <2>2. QED BY <1>1, <2>1, KeptStays DEF LocalOK
<1>4. QED BY <1>2, <1>3 DEF LocalOK

\* A packet more is queued: nothing of it was accepted yet.
LEMMA QueueLocal ==
    ASSUME LInv, LocalOK, NEW v \in VCs, NEW len \in Nat, NEW idle \in BOOLEAN,
           len > HdrLen, Queue(v, len, idle), UNCHANGED <<deframer, link>>
    PROVE  LocalOK'
<1>1. UNCHANGED <<channel, accepted, lastFrame, pc, cur, rest, pending, inSync, delivered>>
  BY DEF deframer, link
<1>2. StartsOK'
  BY QueueStarts DEF LInv, LocalOK
<1>3. NewOK' /\ SpansOK' /\ WaitingOK'
  BY <1>1 DEF LocalOK, NewOK, SpansOK, WaitingOK, End
<1>4. \A u \in VCs : End(u)' = End(u) /\ FrontOf(u)' = FrontOf(u)
  BY <1>1 DEF FrontOf, Mark, End
<1> DEFINE S == stream[v]
           T == Octets([id |-> packets[v] + 1, len |-> len, idle |-> idle])
<1>5. stream' = [stream EXCEPT ![v] = @ \o T] /\ stream \in [VCs -> Seq(Octet)] /\ T \in Seq(Octet)
  <2>1. [id |-> packets[v] + 1, len |-> len, idle |-> idle] \in Packet
    BY DEF LInv, SenderOK, Packet
  <2>2. QED BY <2>1, OctetsType DEF Queue, LInv, SenderOK
<1> HIDE DEF T
<1>6. stream'[v] = S \o T /\ \A u \in VCs \ {v} : stream'[u] = stream[u]
  BY <1>5
<1>7. S \in Seq(Octet) /\ Len(S) \in Nat
  <2>1. S \in Seq(Octet)
    BY <1>5
  <2>2. QED BY <2>1
<1>8. lastFrame[v] # None => End(v) \in Nat /\ End(v) <= Len(S)
  <2> SUFFICES ASSUME lastFrame[v] # None PROVE End(v) \in Nat /\ End(v) <= Len(S)
    OBVIOUS
  <2>1. End(v) \in Nat /\ End(v) <= emitted[v] /\ emitted[v] \in Nat
    BY LastFrame
  <2>2. queued[v] \in Seq(Octet) /\ emitted[v] + Len(queued[v]) = Len(S)
    BY DEF LInv, SenderOK
  <2>3. Len(queued[v]) \in Nat
    BY <2>2
  <2>4. QED BY <1>7, <2>1, <2>2, <2>3
<1>9. ASSUME NEW n \in Nat, Owed(v, n)'
      PROVE  Kept(v, n)'
  <2>1. n + 1 \in 1 .. Len(stream'[v]) /\ stream'[v][n + 1].at = 0 /\ stream'[v] \in Seq(Octet)
    <3>1. stream'[v] \in Seq(Octet)
      BY <1>5, <1>6, <1>7
    <3>2. Len(stream'[v]) \in Nat
      BY <3>1
    <3>3. QED BY <1>9, <3>1, <3>2 DEF Owed, Start
  <2>2. PacketAt(v, n)' = stream'[v][n + 1].pkt /\ stream'[v][n + 1].pkt.len \in Nat
    <3>1. stream'[v][n + 1] \in Octet
      BY <2>1
    <3>2. QED BY <3>1, OctetParts DEF PacketAt
  <2>3. n < Len(S)
    <3>1. CASE InRun(v, n)'
      <4>1. lastFrame[v] # None /\ n < End(v)
        BY <1>1, <3>1 DEF InRun, End
      <4>2. QED BY <1>7, <1>8, <4>1
    <3>2. CASE Arrived(v, n, n + PacketAt(v, n).len)'
      <4>1. PICK b \in accepted : b.vc = v /\ n + stream'[v][n + 1].pkt.len <= b.hi
        BY <1>1, <2>2, <3>2 DEF Arrived
      <4>2. b.hi <= End(v) /\ b.hi \in Nat /\ lastFrame[v] # None
        BY <4>1 DEF LocalOK, SpansOK
      <4>3. stream'[v][n + 1].pkt.len > 0
        <5>1. Whole(stream'[v])
          BY QueueKeepsSender DEF LInv, SenderOK
        <5>2. stream'[v][n + 1].pkt.len > HdrLen
          BY <2>1, <5>1 DEF Whole
        <5>3. QED BY <2>2, <5>2, FormatAssumption
      <4>4. End(v) \in Nat /\ End(v) <= Len(S) /\ Len(S) \in Nat
        BY <1>7, <1>8, <4>2
      <4>5. QED
        <5> DEFINE l == stream'[v][n + 1].pkt.len
                   d == End(v)
                   h == b.hi
                   z == Len(S)
        <5>1. l \in Nat /\ l > 0 /\ n + l <= h /\ h <= d /\ d <= z /\ h \in Nat /\ d \in Nat /\ z \in Nat
          BY <2>2, <4>1, <4>2, <4>3, <4>4
        <5> HIDE DEF l, d, h, z
        <5>2. n < z
          BY <5>1
        <5>3. QED BY <5>2 DEF z
    <3>3. QED BY <1>9, <3>1, <3>2 DEF Owed
  <2>4. stream'[v][n + 1] = S[n + 1]
    <3> DEFINE i == n + 1
    <3>1. Len(T) \in Nat
      BY <1>5
    <3>2. i \in 1 .. Len(S) + Len(T) /\ i <= Len(S)
      BY <1>7, <2>3, <3>1
    <3> HIDE DEF i, S
    <3>3. (S \o T)[i] = IF i <= Len(S) THEN S[i] ELSE T[i - Len(S)]
      BY <1>5, <1>7, <3>2, Joined
    <3>4. QED BY <1>6, <3>2, <3>3 DEF i
  <2>5. Owed(v, n)
    <3>1. Start(v, n) /\ PacketAt(v, n)' = PacketAt(v, n)
      BY <1>7, <2>1, <2>3, <2>4 DEF Start, PacketAt
    <3>2. InRun(v, n)' => InRun(v, n)
      BY <1>1 DEF InRun, AllTaken, End
    <3>3. Arrived(v, n, n + PacketAt(v, n).len)' => Arrived(v, n, n + PacketAt(v, n).len)
      BY <1>1, <3>1 DEF Arrived
    <3>4. QED BY <1>9, <3>1, <3>2, <3>3 DEF Owed
  <2>6. Kept(v, n)
    BY <2>5 DEF LocalOK, KeptOK
  <2>7. PacketAt(v, n)' = PacketAt(v, n)
    BY <2>4 DEF PacketAt
  <2>8. QED BY <1>1, <1>4, <2>6, <2>7 DEF Kept, Done
<1>10. ASSUME NEW u \in VCs \ {v}
       PROVE  \A n \in Nat : Owed(u, n)' => Kept(u, n)'
  BY <1>1, <1>4, <1>6, KeptStays DEF LocalOK
<1>11. KeptOK'
  <2> SUFFICES ASSUME NEW u \in VCs PROVE \A n \in Nat : Owed(u, n)' => Kept(u, n)'
    BY DEF KeptOK
  <2>1. QED BY <1>9, <1>10
<1>12. QED BY <1>2, <1>3, <1>11 DEF LocalOK

\* The deframer starts over: nothing is owed.
LEMMA LaggedLocal ==
    ASSUME LInv, LocalOK, Lagged
    PROVE  LocalOK'
<1>1. /\ accepted' = {} /\ lastFrame' = [v \in VCs |-> None] /\ pending' = [v \in VCs |-> <<>>]
      /\ UNCHANGED framer
  BY DEF Lagged, Reset
<1>2. StartsOK'
  BY <1>1 DEF framer, LocalOK, StartsOK
<1>3. NewOK'
  BY LaggedNew DEF LocalOK
<1>4. SpansOK' /\ KeptOK'
  BY <1>1 DEF SpansOK, KeptOK, Owed, InRun, Arrived
<1>5. WaitingOK'
  <2>1. \A v \in VCs : NotWhole(pending'[v])
    BY <1>1, FormatAssumption DEF NotWhole
  <2>2. QED BY <2>1 DEF WaitingOK
<1>6. QED BY <1>2, <1>3, <1>4, <1>5 DEF LocalOK

LEMMA ReceiveLocal ==
    ASSUME LInv, OInv, LocalOK, ~scene.disorder, Receive
    PROVE  LocalOK'
<1>1. /\ 1 \in 1 .. Len(channel) /\ Window(channel[1]) /\ HandleFrame(channel[1]) /\ Note(channel[1])
      /\ UNCHANGED framer
  BY DEF Receive
<1>2. PICK f : f = channel[1]
  OBVIOUS
<1>3. f \in Known /\ f.vc \in VCs /\ f.from \in Nat /\ PointsFirst(f)
  BY <1>1, <1>2, ChannelFrame DEF LocalOK, NewOK
<1>4. UNCHANGED <<stream, starts, emitted>>
  BY <1>1 DEF framer
<1>5. StartsOK'
  BY <1>4 DEF LocalOK, StartsOK
<1>6. NewOK'
  BY ReceiveNew DEF LocalOK
<1>7. CASE ~Takes(f)
  <2>1. UNCHANGED <<accepted, lastFrame>>
    BY <1>1, <1>2, <1>7 DEF Note
  <2>2. Reject(f) \/ Filter(f)
    BY <1>1, <1>2, <1>7 DEF HandleFrame, AcceptIdle, AcceptBadPointer, AcceptNoStart, AcceptPointer
  <2>3. UNCHANGED <<pc, cur, rest, pending, inSync, delivered>>
    BY <2>2 DEF Reject, Filter, deframer
  <2>4. QED BY <1>4, <1>5, <1>6, <2>1, <2>3, LocalStays
<1>8. CASE Takes(f)
  <2>1. /\ f.ours /\ pc = "ready" /\ lastFrame' = [lastFrame EXCEPT ![f.vc] = f]
        /\ accepted' = accepted \cup {Span(f)}
        /\ lastFrame \in [VCs -> Frame \cup {None}]
    BY <1>1, <1>2, <1>8 DEF Takes, Note, LInv, FramesOK
  <2>2. /\ UNCHANGED delivered
        /\ \A u \in VCs \ {f.vc} : pending'[u] = pending[u] /\ inSync'[u] = inSync[u]
        /\ pc' # "ready" => cur' = f.vc
        /\ pc' = "ready" => pending'[f.vc] \in {<<>>, pending[f.vc]}
    BY <1>1, <1>2, <1>3, <1>4, <1>8, FrontMoves
  <2>3. lastFrame[f.vc] # None => lastFrame[f.vc].seq < f.seq /\ End(f.vc) <= f.from
    BY <1>1, <1>2, <2>1 DEF LocalOK, NewOK, OInv, OrderOK
  <2>4. SpansOK'
    BY <1>1, <1>2, <1>3, <1>8, <2>3, TakenSpans DEF LocalOK
  <2>5. \A u \in VCs : NotWhole(pending[u])
    BY <2>1 DEF LocalOK, WaitingOK
  <2>6. WaitingOK'
    <3> SUFFICES ASSUME NEW u \in VCs, pc' = "ready" \/ cur' # u PROVE NotWhole(pending'[u])
      BY DEF WaitingOK
    <3>1. CASE u = f.vc
      <4>1. pending'[u] = <<>> \/ pending'[u] = pending[u]
        BY <2>2, <3>1
      <4>2. NotWhole(<<>>)
        BY FormatAssumption DEF NotWhole
      <4>3. QED BY <2>5, <4>1, <4>2
    <3>2. CASE u # f.vc
      BY <2>2, <2>5, <3>2
    <3>3. QED BY <3>1, <3>2
  <2>7. ASSUME NEW n \in Nat, Owed(f.vc, n)'
        PROVE  Kept(f.vc, n)'
    BY <1>1, <1>2, <1>3, <1>4, <1>8, <2>3, <2>7, TakenKept DEF LocalOK
  <2>8. ASSUME NEW u \in VCs \ {f.vc}
        PROVE  \A n \in Nat : Owed(u, n)' => Kept(u, n)'
    <3>1. lastFrame'[u] = lastFrame[u] /\ End(u)' = End(u)
      BY <2>1 DEF End
    <3>2. FrontOf(u)' = FrontOf(u)
      BY <2>1, <2>2, <3>1 DEF FrontOf, Mark
    <3>3. \A a : a.vc = u => (a \in accepted' <=> a \in accepted)
      BY <2>1 DEF Span
    <3>4. QED BY <1>4, <2>2, <3>1, <3>2, <3>3, KeptStays DEF LocalOK
  <2>9. KeptOK'
    <3> SUFFICES ASSUME NEW u \in VCs PROVE \A n \in Nat : Owed(u, n)' => Kept(u, n)'
      BY DEF KeptOK
    <3>1. QED BY <2>7, <2>8
  <2>10. QED BY <1>5, <1>6, <2>4, <2>6, <2>9 DEF LocalOK
<1>9. QED BY <1>7, <1>8

\* A complete packet comes out at the front: it is done, and what is behind it stays.
LEMMA ExtractKept ==
    ASSUME LInv, DeliveredOK', Extract, UNCHANGED <<framer, link>>, NEW n \in Nat,
           Start(cur, n), Kept(cur, n)
    PROVE  Kept(cur, n)'
<1> DEFINE S == stream[cur]
           q == pending[cur]
           z == delivered[cur]
<1>1. HasHeader /\ UNCHANGED <<stream, lastFrame, pc, cur, rest, inSync>>
  BY DEF Extract, framer, link
<1>2. PICK a \in Nat, p \in Packet :
         /\ cur \in VCs /\ Piece(S, q, a) /\ a + Len(q) = Mark(cur)
         /\ a < Len(S) /\ p.len > HdrLen /\ a + p.len <= Len(S)
         /\ \A j \in 0 .. p.len - 1 : S[a + 1 + j] = [pkt |-> p, at |-> j]
         /\ Readings(q) = {[version0 |-> TRUE, len |-> p.len, idle |-> p.idle]}
  BY <1>1, HeaderReads DEF LInv
<1>3. /\ q \in Seq(Octet) /\ S \in Seq(Octet) /\ z \in Seq(Seq(Octet)) /\ p.len \in Nat
      /\ pending \in [VCs -> Seq(Octet)] /\ delivered \in [VCs -> Seq(Seq(Octet))]
  BY <1>2 DEF LInv, SenderOK, ReceiverOK, ReceiverTypes, Packet
<1>4. Len(q) \in Nat /\ Len(S) \in Nat /\ p.len > 0
  BY <1>2, <1>3, FormatAssumption
<1> DEFINE o == SubSeq(q, p.len + 1, Len(q))
           s == SubSeq(q, 1, p.len)
<1>5. /\ Len(q) >= p.len /\ pending'[cur] = o
      /\ delivered'[cur] = IF p.idle THEN z ELSE Append(z, s)
  <2>1. PICK h \in Readings(q) :
           /\ Len(q) >= h.len
           /\ pending' = [pending EXCEPT ![cur] = SubSeq(@, h.len + 1, Len(@))]
           /\ delivered' = [delivered EXCEPT ![cur] =
                              IF h.idle THEN @ ELSE Append(@, SubSeq(q, 1, h.len))]
    BY DEF Extract
  <2>2. h.len = p.len /\ h.idle = p.idle
    BY <1>2
  <2>3. pending'[cur] = o
    BY <1>2, <1>3, <2>1, <2>2
  <2>4. delivered'[cur] = IF p.idle THEN z ELSE Append(z, s)
    BY <1>2, <1>3, <2>1, <2>2
  <2>5. QED BY <2>1, <2>2, <2>3, <2>4
<1>6. s \in Seq(Octet) /\ s[1] = S[a + 1] /\ Len(o) = Len(q) - p.len
  <2> DEFINE l == p.len
  <2>1. l \in Nat /\ l > 0 /\ l <= Len(q) /\ Len(q) \in Nat
    BY <1>3, <1>4, <1>5
  <2> HIDE DEF l, q
  <2>2. SubSeq(q, 1, l) \in Seq(Octet) /\ SubSeq(q, 1, l)[1] = q[1] /\ Len(SubSeq(q, l + 1, Len(q))) = Len(q) - l
    BY <1>3, <2>1
  <2>3. q[1] = S[a + 1]
    <3>1. 1 \in 1 .. Len(q)
      BY <2>1
    <3>2. QED BY <1>2, <3>1 DEF Piece
  <2>4. QED BY <2>2, <2>3 DEF l, q
<1>7. S[a + 1] = [pkt |-> p, at |-> 0]
  <2>1. 0 \in 0 .. p.len - 1 /\ a + 1 + 0 = a + 1
    BY <1>2, <1>3, <1>4
  <2>2. S[a + 1 + 0] = [pkt |-> p, at |-> 0]
    <3> HIDE DEF S, q, o, s, z
    <3>1. QED BY <1>2, <2>1
  <2>3. QED BY <2>1, <2>2
<1> HIDE DEF s, o
<1>8. /\ ToSet(z) \subseteq ToSet(delivered'[cur])
      /\ ~p.idle => s \in ToSet(delivered'[cur])
  <2> HIDE DEF z
  <2>1. /\ Append(z, s) \in Seq(Seq(Octet)) /\ Len(Append(z, s)) = Len(z) + 1 /\ Len(z) \in Nat
        /\ DOMAIN Append(z, s) = 1 .. Len(z) + 1 /\ DOMAIN z = 1 .. Len(z)
        /\ \A k \in 1 .. Len(z) + 1 : Append(z, s)[k] = IF k <= Len(z) THEN z[k] ELSE s
    <3>1. z \in Seq(Seq(Octet)) /\ s \in Seq(Octet)
      BY <1>3, <1>6
    <3> DEFINE Y == Seq(Octet)
    <3> HIDE DEF Y
    <3>2. z \in Seq(Y) /\ s \in Y
      BY <3>1 DEF Y
    <3>3. Len(z) \in Nat /\ DOMAIN z = 1 .. Len(z)
      BY ONLY <3>2
    <3>4. Append(z, s) \in Seq(Y) /\ Len(Append(z, s)) = Len(z) + 1
      BY ONLY <3>2
    <3>5. DOMAIN Append(z, s) = 1 .. Len(z) + 1
      BY ONLY <3>4
    <3>6. \A k \in 1 .. Len(z) + 1 : Append(z, s)[k] = IF k <= Len(z) THEN z[k] ELSE s
      BY ONLY <3>2, <3>3
    <3>7. QED BY <3>3, <3>4, <3>5, <3>6 DEF Y
  <2>2. ToSet(z) \subseteq ToSet(Append(z, s))
    BY <2>1 DEF ToSet
  <2>3. s \in ToSet(Append(z, s))
    <3>1. Len(z) + 1 \in DOMAIN Append(z, s) /\ Append(z, s)[Len(z) + 1] = s
      BY <2>1
    <3>2. QED BY <3>1 DEF ToSet
  <2>4. QED BY <1>5, <2>2, <2>3
<1>9. ~p.idle => Octets(p) \in ToSet(delivered'[cur])
  <2> SUFFICES ASSUME ~p.idle PROVE Octets(p) \in ToSet(delivered'[cur])
    OBVIOUS
  <2>1. s \in ToSet(delivered'[cur])
    BY <1>8
  <2>2. s = Octets(s[1].pkt)
    BY <1>1, <1>2, <2>1 DEF DeliveredOK, Genuine
  <2>3. s[1].pkt = p
    BY <1>6, <1>7
  <2>4. QED BY <2>1, <2>2, <2>3
<1>10. FrontOf(cur) = a /\ FrontOf(cur)' = a + p.len
  <2> DEFINE l == Len(q)
             k == p.len
  <2>1. FrontOf(cur) = (a + l) - l /\ FrontOf(cur)' = (a + l) - (l - k) /\ l \in Nat /\ k \in Nat
    <3>1. Mark(cur)' = Mark(cur)
      BY <1>1 DEF Mark, End
    <3>2. FrontOf(cur)' = Mark(cur) - (Len(q) - p.len)
      BY <1>1, <1>5, <1>6, <3>1 DEF FrontOf
    <3>3. QED BY <1>2, <1>3, <1>4, <3>2 DEF FrontOf
  <2> HIDE DEF l, k
  <2>2. FrontOf(cur) = a /\ FrontOf(cur)' = a + k
    BY <2>1
  <2>3. QED BY <2>2 DEF k
<1>11. PacketAt(cur, n)' = PacketAt(cur, n) /\ n + 1 \in 1 .. Len(S) /\ S[n + 1].at = 0
  BY <1>1, <1>4 DEF Start, PacketAt
<1>12. Done(cur, n) => Done(cur, n)'
  BY <1>1, <1>8, <1>11 DEF Done
<1>13. CASE ~Done(cur, n)
  <2>1. inSync[cur] /\ a <= n
    BY <1>10, <1>13 DEF Kept
  <2>2. CASE n = a
    <3>1. PacketAt(cur, n) = p
      BY <1>7, <2>2 DEF PacketAt
    <3>2. Done(cur, n)'
      BY <1>1, <1>9, <1>11, <3>1 DEF Done
    <3>3. QED BY <3>2 DEF Kept
  <2>3. CASE n # a
    <3>1. ~(n < a + p.len)
      <4> SUFFICES ASSUME n < a + p.len PROVE FALSE
        OBVIOUS
      <4>1. n - a \in 0 .. p.len - 1 /\ a + 1 + (n - a) = n + 1 /\ n - a > 0
        BY <1>3, <2>1, <2>3
      <4>2. S[n + 1] = [pkt |-> p, at |-> n - a]
        BY <1>2, <4>1
      <4>3. QED BY <1>11, <4>1, <4>2
    <3>2. a + p.len <= n
      BY <1>3, <3>1
    <3>3. QED BY <1>1, <1>10, <2>1, <3>2 DEF Kept
  <2>4. QED BY <2>2, <2>3
<1>14. QED BY <1>12, <1>13 DEF Kept

\* Up to the pointer nothing is left over: a frame points where a packet starts.
LEMMA NothingLeftOver ==
    ASSUME LInv, DrainEnds, pc = "finish", inSync[cur]
    PROVE  pending[cur] = <<>>
<1> DEFINE S == stream[cur]
           q == pending[cur]
           p == q[1].pkt
<1>1. cur \in VCs /\ AtPacket(cur) /\ Mark(cur) = End(cur) - Len(rest)
  BY DEF LInv, ReceiverOK, Mark
<1>2. PICK a \in Nat : Piece(S, q, a) /\ Boundary(S, a) /\ a + Len(q) = Mark(cur)
  BY <1>1 DEF AtPacket
<1>3. Boundary(S, Mark(cur)) /\ Whole(S)
  BY <1>1 DEF LInv, SenderOK, ReceiverOK
<1>4. q \in Seq(Octet) /\ S \in Seq(Octet)
  BY <1>2, <1>3 DEF Piece, Whole
<1>5. Len(q) \in Nat /\ Len(S) \in Nat
  BY <1>4
<1> SUFFICES ASSUME q # <<>> PROVE FALSE
  OBVIOUS
<1>6. Len(q) > 0
  BY <1>4
<1> DEFINE w == S[a + 1].pkt
<1>7. /\ w \in Packet /\ w.len > HdrLen /\ a + w.len <= Len(S) /\ w.len \in Nat
      /\ \A j \in 0 .. w.len - 1 : S[a + 1 + j] = [pkt |-> w, at |-> j]
  <2>1. a < Len(S)
    BY <1>2, <1>5, <1>6 DEF Piece
  <2>2. QED BY <1>2, <1>3, <2>1, WholePacket DEF Packet
<1>8. Len(q) < w.len
  <2>1. CASE Len(q) >= HdrLen
    <3>1. Readings(q) = {[version0 |-> TRUE, len |-> p.len, idle |-> p.idle]}
      BY <1>2, <1>3, <2>1, PieceReads
    <3>2. HasHeader
      BY <2>1 DEF HasHeader
    <3>3. Len(q) < p.len
      BY <3>1, <3>2 DEF DrainEnds
    <3>4. q[1] = S[a + 1]
      <4>1. 1 \in 1 .. Len(q)
        BY <1>5, <1>6
      <4>2. QED BY <1>2, <4>1 DEF Piece
    <3>5. QED BY <3>3, <3>4
  <2>2. CASE ~(Len(q) >= HdrLen)
    BY <1>5, <1>7, <2>2, FormatAssumption
  <2>3. QED BY <2>1, <2>2
<1> HIDE DEF S, q, w
<1>9. Len(q) \in 0 .. w.len - 1
  BY <1>5, <1>7, <1>8
<1>10. S[a + 1 + Len(q)] = [pkt |-> w, at |-> Len(q)] /\ a + 1 + Len(q) = Mark(cur) + 1
  BY <1>2, <1>5, <1>7, <1>9
<1>11. Mark(cur) < Len(S)
  BY <1>2, <1>5, <1>7, <1>8
<1>12. S[Mark(cur) + 1].at = 0
  BY <1>3, <1>11 DEF Boundary
<1>13. QED BY <1>6, <1>10, <1>12

LEMMA DrainLocal ==
    ASSUME LInv, DeliveredOK', OInv, LocalOK, Drain, UNCHANGED <<framer, link>>
    PROVE  LocalOK'
<1>1. UNCHANGED <<stream, starts, emitted, channel, accepted, lastFrame>>
  BY DEF framer, link
<1>2. pc # "ready" /\ cur' = cur
  BY DEF Drain, Extract, DrainLosesSync, DrainEnds, HasHeader
<1>3. /\ cur \in VCs /\ inSync[cur] /\ Whole(stream[cur])
      /\ pending \in [VCs -> Seq(Octet)] /\ inSync \in [VCs -> BOOLEAN]
      /\ delivered \in [VCs -> Seq(Seq(Octet))]
  BY <1>2 DEF LInv, ReceiverOK, ReceiverTypes, OInv, PastOK, SenderOK
<1>4. StartsOK' /\ NewOK' /\ SpansOK' /\ \A v \in VCs : End(v)' = End(v)
  BY <1>1 DEF LocalOK, StartsOK, NewOK, SpansOK, End
<1>5. ~DrainLosesSync
  <2> SUFFICES ASSUME DrainLosesSync PROVE FALSE
    OBVIOUS
  <2>1. HasHeader /\ \E h \in Readings(pending[cur]) : ~h.version0
    BY DEF DrainLosesSync
  <2>2. PICK p \in Packet :
           Readings(pending[cur]) = {[version0 |-> TRUE, len |-> p.len, idle |-> p.idle]}
    BY <2>1, HeaderReads DEF LInv
  <2>3. QED BY <2>1, <2>2
<1>6. ASSUME NEW u \in VCs \ {cur}
      PROVE  pending'[u] = pending[u] /\ inSync'[u] = inSync[u] /\ delivered'[u] = delivered[u]
  BY <1>3, <1>5 DEF Drain, Extract, DrainEnds
<1>7. WaitingOK'
  <2> SUFFICES ASSUME NEW u \in VCs, pc' = "ready" \/ cur' # u PROVE NotWhole(pending'[u])
    BY DEF WaitingOK
  <2>1. CASE u # cur
    BY <1>6, <2>1 DEF LocalOK, WaitingOK
  <2>2. CASE u = cur
    <3>1. pc' = "ready"
      BY <1>2, <2>2
    <3>2. DrainEnds /\ pending' = pending
      BY <1>2, <1>5, <3>1 DEF Drain, Extract, DrainEnds
    <3> DEFINE q == pending[cur]
    <3>3. NotWhole(q)
      <4> SUFFICES ASSUME Len(q) >= HdrLen PROVE Len(q) < q[1].pkt.len
        BY DEF NotWhole
      <4>1. HasHeader
        BY <1>2 DEF HasHeader
      <4>2. PICK a : Piece(stream[cur], q, a) /\ Boundary(stream[cur], a)
        BY <4>1, HeaderReads DEF LInv
      <4>3. Readings(q) = {[version0 |-> TRUE, len |-> q[1].pkt.len, idle |-> q[1].pkt.idle]}
        BY <1>3, <4>2, PieceReads
      <4>4. QED BY <3>2, <4>1, <4>3 DEF DrainEnds
    <3>4. QED BY <2>2, <3>2, <3>3
  <2>3. QED BY <2>1, <2>2
<1>8. ASSUME NEW n \in Nat, Owed(cur, n)'
      PROVE  Kept(cur, n)'
  <2>1. Owed(cur, n)
    BY <1>1, <1>2, <1>8 DEF Owed, Start, InRun, Arrived, AllTaken, PacketAt, End
  <2>2. Start(cur, n) /\ Kept(cur, n)
    BY <1>3, <2>1 DEF LocalOK, KeptOK, Owed
  <2>3. CASE Extract
    BY <2>2, <2>3, ExtractKept
  <2>4. CASE DrainEnds
    <3>1. UNCHANGED delivered
      BY <2>4 DEF DrainEnds
    <3>2. Done(cur, n)' = Done(cur, n)
      BY <1>1, <1>2, <3>1 DEF Done, PacketAt
    <3>3. CASE pc = "finish"
      <4>1. pending[cur] = <<>>
        BY <1>3, <2>4, <3>3, NothingLeftOver
      <4>2. pending'[cur] = rest /\ inSync'[cur] /\ pc' = "last"
        BY <1>3, <2>4, <3>3 DEF DrainEnds
      <4>3. FrontOf(cur)' = End(cur) - Len(rest)
        BY <1>2, <1>3, <1>4, <4>2 DEF FrontOf, Mark
      <4>4. FrontOf(cur) = (End(cur) - Len(rest)) - 0
        BY <3>3, <4>1 DEF FrontOf, Mark
      <4>5. FrontOf(cur)' = FrontOf(cur)
        <5>1. End(cur) \in Nat /\ Len(rest) \in Nat
          <6>1. lastFrame[cur] # None /\ rest \in Seq(Octet)
            BY <1>2 DEF LInv, ReceiverOK, ReceiverTypes
          <6>2. QED BY <1>3, <6>1, LastFrame
        <5> DEFINE e == End(cur)
                   l == Len(rest)
        <5>2. FrontOf(cur)' = e - l /\ FrontOf(cur) = (e - l) - 0 /\ e \in Nat /\ l \in Nat
          BY <4>3, <4>4, <5>1
        <5> HIDE DEF e, l
        <5>3. QED BY <5>2
      <4>6. QED BY <1>2, <2>2, <3>2, <4>2, <4>5 DEF Kept
    <3>4. CASE pc # "finish"
      <4>1. UNCHANGED <<pending, inSync>> /\ pc' = "ready"
        BY <2>4, <3>4 DEF DrainEnds
      <4>2. FrontOf(cur)' = FrontOf(cur)
        BY <1>2, <1>3, <1>4, <3>4, <4>1 DEF FrontOf, Mark
      <4>3. QED BY <1>2, <2>2, <3>2, <4>1, <4>2 DEF Kept
    <3>5. QED BY <3>3, <3>4
  <2>5. QED BY <1>5, <2>3, <2>4 DEF Drain
<1>9. ASSUME NEW u \in VCs \ {cur}
      PROVE  \A n \in Nat : Owed(u, n)' => Kept(u, n)'
  <2>1. FrontOf(u)' = FrontOf(u)
    BY <1>2, <1>4, <1>6 DEF FrontOf, Mark
  <2>2. QED BY <1>1, <1>6, <2>1, KeptStays DEF LocalOK
<1>10. KeptOK'
  <2> SUFFICES ASSUME NEW u \in VCs, NEW n \in Nat, Owed(u, n)' PROVE Kept(u, n)'
    BY DEF KeptOK
  <2>1. CASE u = cur
    <3>1. Owed(cur, n)'
      BY <1>2, <2>1 DEF Owed, Start, InRun, Arrived, AllTaken, PacketAt, End
    <3>2. Kept(cur, n)'
      BY <1>8, <3>1
    <3>3. QED BY <1>2, <2>1, <3>2 DEF Kept, Done, PacketAt, FrontOf, Mark, End
  <2>2. CASE u # cur
    BY <1>9, <2>2
  <2>3. QED BY <2>1, <2>2
<1>11. QED BY <1>4, <1>7, <1>10 DEF LocalOK

-----------------------------------------------------------------------------
(* On a link that keeps the order of its frames and leaves their pointers alone. *)

LEMMA LocalStep ==
    ASSUME TInv, Orderly, OInv, LocalOK, [Next]_vars
    PROVE  LocalOK'
<1>1. LInv /\ LInv' /\ ~scene.disorder
  <2>1. TInv' /\ scene' = scene
    BY InvStep, SceneStays
  <2>2. QED BY <2>1 DEF TInv, Orderly, Protected
<1>2. channel \in Seq(Frame) /\ Len(channel) \in Nat
  BY <1>1 DEF LInv, FramesOK
<1>3. scene \in Scenes /\ scene.sizes \subseteq Sizes /\ scene.channels \subseteq VCs
  BY LinkAssumption DEF TInv, Scene
<1>4. CASE PackPacket
  <2>1. PICK v \in scene.channels, len \in scene.sizes :
           Queue(v, len, FALSE) /\ UNCHANGED <<deframer, link>>
    BY <1>4 DEF PackPacket, Pack
  <2>2. v \in VCs /\ len \in Nat /\ len > HdrLen
    <3>1. v \in VCs /\ len \in Sizes
      BY <1>3
    <3>2. QED BY <3>1, FormatAssumption
  <2>3. QED BY <1>1, <2>1, <2>2, QueueLocal
<1>5. CASE FlushChannel
  <2>1. PICK v \in VCs : Flush(v) /\ UNCHANGED <<deframer, link>>
    BY <1>5 DEF FlushChannel
  <2> DEFINE room == DataLen - (Len(queued[v]) % DataLen)
  <2>2. Queue(v, IdleLen(room), TRUE)
    BY <2>1 DEF Flush
  <2>3. room \in Int
    <3> DEFINE n == Len(queued[v])
    <3>1. n \in Nat
      <4>1. queued[v] \in Seq(Octet)
        BY <1>1 DEF LInv, SenderOK
      <4>2. QED BY <4>1
    <3> HIDE DEF n
    <3>2. DataLen - (n % DataLen) \in Int
      BY <3>1, FormatAssumption
    <3>3. QED BY <3>2 DEF n
  <2> HIDE DEF room
  <2>4. QED BY <1>1, <2>1, <2>2, <2>3, IdleLenLong, QueueLocal
<1>6. CASE SendFrame
  <2>1. PICK v \in VCs : /\ EmitFrame(v) /\ channel' = Append(channel, NextFrame(v))
                         /\ UNCHANGED <<deframer, accepted, lastFrame>>
    BY <1>6 DEF SendFrame, Send
  <2>2. PICK f : f = NextFrame(v)
    OBVIOUS
  <2>3. /\ UNCHANGED stream /\ FrameOK(f)' /\ f.vc = v /\ f.seq = seqs[v]
        /\ StartsOK' /\ PointsFirst(f)
    BY <1>1, <2>1, <2>2, EmitKeepsSender, EmitStarts DEF LInv, LocalOK
  <2>4. f \in Frame
    BY <2>3 DEF FrameOK
  <2>5. NewOK'
    BY <1>1, <2>1, <2>2, <2>3, <2>4, NewSent DEF LocalOK
  <2>6. QED BY <2>1, <2>3, <2>5, LocalStays DEF deframer
<1>7. CASE SendIdle
  <2>1. PICK v \in scene.channels :
           /\ EmitIdle(v) /\ channel' = Append(channel, MakeFrame(v, OnlyIdle, <<>>))
           /\ UNCHANGED <<deframer, accepted, lastFrame>>
    BY <1>7 DEF SendIdle, Send
  <2>2. PICK f : f = MakeFrame(v, OnlyIdle, <<>>)
    OBVIOUS
  <2>3. /\ UNCHANGED <<stream, emitted, starts>> /\ FrameOK(f)' /\ f.vc = v /\ f.seq = seqs[v]
    BY <1>1, <1>3, <2>1, <2>2, IdleKeepsSender DEF LInv, EmitIdle
  <2>4. f \in Frame
    BY <2>3 DEF FrameOK
  <2>5. PointsFirst(f)
    <3>1. f.data = <<>> /\ f.fhp = OnlyIdle
      BY <2>2 DEF MakeFrame
    <3>2. QED BY <3>1, FormatAssumption DEF PointsFirst
  <2>6. NewOK'
    BY <1>1, <2>1, <2>2, <2>3, <2>4, <2>5, NewSent DEF LocalOK
  <2>7. StartsOK'
    BY <2>3 DEF LocalOK, StartsOK
  <2>8. QED BY <2>1, <2>3, <2>6, <2>7, LocalStays DEF deframer
<1>8. CASE Lose \/ Damage
  <2>1. UNCHANGED <<framer, deframer, accepted, lastFrame>>
    BY <1>8 DEF Lose, Damage
  <2>2. Thinned
    BY <1>2, <1>8, LoseThins
  <2>3. ASSUME NEW i \in 1 .. Len(channel'), channel'[i].ours, lastFrame'[channel'[i].vc] # None
        PROVE  lastFrame'[channel'[i].vc].seq < channel'[i].seq
    <3>1. PICK m \in [1 .. Len(channel') -> 1 .. Len(channel)] :
             \A j \in 1 .. Len(channel') : /\ Alike(channel'[j], channel[m[j]])
                                           /\ channel'[j].ours => channel[m[j]].ours
      BY <2>2 DEF Thinned
    <3>2. m[i] \in 1 .. Len(channel)
      BY <3>1
    <3>3. /\ channel'[i].vc = channel[m[i]].vc /\ channel'[i].seq = channel[m[i]].seq
          /\ channel[m[i]].ours
      BY <2>3, <3>1 DEF Alike
    <3>4. lastFrame' = lastFrame
      BY <2>1
    <3>5. QED BY <2>3, <3>2, <3>3, <3>4 DEF LocalOK, NewOK
  <2>4. NewOK'
    BY <2>2, <2>3, NewStays DEF LocalOK
  <2>5. StartsOK'
    BY <2>1 DEF framer, LocalOK, StartsOK
  <2>6. QED BY <2>1, <2>4, <2>5, LocalStays DEF framer, deframer
<1>9. CASE Mispoint
  BY <1>9 DEF Mispoint, Orderly
<1>10. CASE Duplicate
  BY <1>1, <1>10 DEF Duplicate
<1>11. CASE Stray
  <2>1. PICK i \in 1 .. Len(channel) :
           /\ channel' = Append(channel, [channel[i] EXCEPT !.ours = FALSE])
           /\ UNCHANGED <<framer, deframer, accepted, lastFrame>>
    BY <1>11 DEF Stray, Send
  <2>2. PICK g : g = channel[i]
    OBVIOUS
  <2>3. PICK f : f = [g EXCEPT !.ours = FALSE]
    OBVIOUS
  <2>4. g \in Frame /\ PointsFirst(g)
    BY <1>2, <2>2 DEF LocalOK, NewOK
  <2>5. f \in Frame /\ ~f.ours /\ f.data = g.data /\ f.fhp = g.fhp
    BY <2>3, <2>4 DEF Frame
  <2>6. PointsFirst(f)
    BY <2>4, <2>5 DEF PointsFirst
  <2>7. NewOK'
    BY <1>1, <2>1, <2>2, <2>3, <2>5, <2>6, NewSent DEF LocalOK
  <2>8. StartsOK'
    BY <2>1 DEF framer, LocalOK, StartsOK
  <2>9. QED BY <2>1, <2>7, <2>8, LocalStays DEF framer, deframer
<1>12. CASE Lagged
  BY <1>1, <1>12, LaggedLocal
<1>13. CASE Receive
  BY <1>1, <1>13, ReceiveLocal
<1>14. CASE DrainPackets
  BY <1>1, <1>14, DrainLocal DEF DrainPackets, LInv
<1>15. CASE UNCHANGED vars
  <2>1. UNCHANGED <<framer, deframer, channel, accepted, lastFrame>>
    BY <1>15 DEF vars, link
  <2>2. StartsOK' /\ NewOK'
    BY <2>1 DEF framer, LocalOK, StartsOK, NewOK
  <2>3. QED BY <2>1, <2>2, LocalStays DEF framer, deframer
<1>16. QED BY <1>4, <1>5, <1>6, <1>7, <1>8, <1>9, <1>10, <1>11, <1>12, <1>13, <1>14, <1>15 DEF Next

LEMMA LocalInit == Init => LocalOK
<1> SUFFICES ASSUME Init PROVE LocalOK
  OBVIOUS
<1>1. /\ stream = [v \in VCs |-> <<>>] /\ starts = [v \in VCs |-> <<>>]
      /\ emitted = [v \in VCs |-> 0] /\ pending = [v \in VCs |-> <<>>]
      /\ channel = <<>> /\ accepted = {} /\ lastFrame = [v \in VCs |-> None]
  BY DEF Init, FramerInit, DeframerInit
<1>2. StartsOK /\ NewOK /\ SpansOK
  BY <1>1 DEF StartsOK, NewOK, SpansOK
<1>3. WaitingOK
  BY <1>1, FormatAssumption DEF WaitingOK, NotWhole
<1>4. KeptOK
  BY <1>1 DEF KeptOK, Owed, InRun, Arrived
<1>5. QED BY <1>2, <1>3, <1>4 DEF LocalOK

\* What a run of frames owes is what LossIsLocal asks for.
LEMMA OwedAll ==
    ASSUME LInv, LocalOK, pc = "ready", NEW v \in VCs, NEW i \in 1 .. Len(stream[v]),
           stream[v][i].at = 0, ~stream[v][i].pkt.idle,
           Arrived(v, i - 1, i - 1 + stream[v][i].pkt.len)
    PROVE  Octets(stream[v][i].pkt) \in ToSet(delivered[v])
<1>1. stream[v] \in Seq(Octet)
  BY DEF LInv, SenderOK
<1>2. Len(stream[v]) \in Nat
  BY <1>1
<1>3. PICK n : n = i - 1
  OBVIOUS
<1>4. n \in Nat /\ n \in 0 .. Len(stream[v]) - 1 /\ n + 1 = i
  BY <1>2, <1>3
<1>5. Start(v, n) /\ PacketAt(v, n) = stream[v][i].pkt
  BY <1>4 DEF Start, PacketAt
<1>6. Arrived(v, n, n + PacketAt(v, n).len)
  BY <1>3, <1>5
<1>7. Done(v, n)
  BY <1>4, <1>5, <1>6, ReadyDone DEF LocalOK
<1>8. QED BY <1>5, <1>7 DEF Done

\* A frame that is lost, damaged or missed costs the packets it carries a part of
\* and no other: on a link that keeps the order of frames and leaves pointers
\* alone, a packet whose own frames were all accepted is emitted by the deframer.
THEOREM OtherPacketsArrive == Spec => []LossIsLocal
<1> DEFINE Inv == RInv /\ (Orderly => LocalOK)
<1>1. Init => Inv
  BY LinkInit, LocalInit
<1>2. Inv /\ [Next]_vars => Inv'
  <2> SUFFICES ASSUME Inv, [Next]_vars PROVE Inv'
    OBVIOUS
  <2>1. TInv' /\ scene' = scene
    BY InvStep, SceneStays DEF RInv
  <2>2. Orderly' => OInv'
    BY <2>1, OrderlyStep DEF RInv, Orderly
  <2>3. Orderly' => LocalOK'
    BY <2>1, LocalStep DEF RInv, Orderly
  <2>4. QED BY <2>1, <2>2, <2>3 DEF RInv
<1>3. Inv => LossIsLocal
  <2> SUFFICES ASSUME Inv, pc = "ready", Orderly, NEW v \in VCs, NEW i \in 1 .. Len(stream[v]),
                      stream[v][i].at = 0, ~stream[v][i].pkt.idle,
                      Arrived(v, i - 1, i - 1 + stream[v][i].pkt.len)
               PROVE  Octets(stream[v][i].pkt) \in ToSet(delivered[v])
    BY DEF LossIsLocal
  <2>1. LInv
    BY DEF RInv, TInv, Orderly, Protected
  <2>2. QED BY <2>1, OwedAll
<1>4. QED BY <1>1, <1>2, <1>3, PTL DEF Spec

-----------------------------------------------------------------------------
(***************************************************************************)
(* What the counters count, on a link that keeps the order of its frames.  *)
(* The frames sent are numbered in the order of the master channel; of     *)
(* those behind the last one counted each is under way or was lost.        *)
(***************************************************************************)

Sound(f) == f.ok /\ f.ours
Tells(f, g) == f.vc = g.vc /\ f.seq = g.seq /\ f.mc = g.mc /\ f.count = g.count

\* H says of each of the first t frames its channel and its place there.
Sits(H, f, n) == H[n] = [vc |-> f.vc, seq |-> f.seq]

Numbering(H, t) ==
    /\ t \in Nat /\ H \in [0 .. t - 1 -> [vc : VCs, seq : Nat]]
    /\ mcCount = t % Modulus
    /\ \A n \in 0 .. t - 1 : H[n].seq < seqs[H[n].vc]
    /\ \A m, n \in 0 .. t - 1 : m < n /\ H[m].vc = H[n].vc => H[m].seq < H[n].seq
    /\ \A v \in VCs, s \in Nat : s < seqs[v] => \E n \in 0 .. t - 1 : H[n] = [vc |-> v, seq |-> s]

\* From number b on each frame is under way, in its place, or was lost.
Waits(H, t, b) ==
    /\ b \in 0 .. t
    /\ \A i \in 1 .. Len(channel) : Sound(channel[i]) =>
          /\ channel[i].count = channel[i].seq % Modulus
          /\ \E n \in b .. t - 1 : Sits(H, channel[i], n) /\ channel[i].mc = n % Modulus
    /\ \A i, j \in 1 .. Len(channel), m, n \in 0 .. t - 1 :
          i < j /\ Sound(channel[i]) /\ Sound(channel[j]) /\ Sits(H, channel[i], m) /\ Sits(H, channel[j], n)
             => m < n
    /\ \E D : /\ IsFiniteSet(D) /\ Cardinality(D) <= damage
              /\ \A n \in b .. t - 1 :
                    n \in D \/ \E i \in 1 .. Len(channel) : Sound(channel[i]) /\ Sits(H, channel[i], n)

\* The counters are those of number b - 1, the last frame counted.  As long as no
\* gap was counted no frame of a followed channel was missed before it.
Unbroken(H, b) ==
    /\ vcGaps = 0
    /\ \A v \in VCs : lastFrame[v] # None =>
          \A n \in 0 .. b - 1 : H[n].vc = v => H[n].seq <= lastFrame[v].seq

Followed(H, b) ==
    /\ IF lastMc = None THEN \A v \in VCs : lastFrame[v] = None
       ELSE b > 0 /\ lastMc = (b - 1) % Modulus
    /\ \A v \in VCs :
          /\ lastCount[v] = IF lastFrame[v] = None THEN None ELSE lastFrame[v].seq % Modulus
          /\ lastFrame[v] # None =>
                v \in Listed /\ lastFrame[v].vc = v /\ \E n \in 0 .. b - 1 : Sits(H, lastFrame[v], n)
    /\ damage = 0 => mcGaps = 0
    /\ damage < Modulus /\ mcGaps = 0 => Unbroken(H, b)

NumberedOK == \E H, t, b : Numbering(H, t) /\ Waits(H, t, b) /\ Followed(H, b)

LEMMA NumberType ==
    ASSUME NEW H, NEW t, Numbering(H, t)
    PROVE  /\ t \in Nat
           /\ \A n \in 0 .. t - 1 : /\ H[n].vc \in VCs /\ H[n].seq \in Nat
                                    /\ H[n].seq < seqs[H[n].vc]
           /\ \A m, n \in 0 .. t - 1 : m < n /\ H[m].vc = H[n].vc => H[m].seq < H[n].seq
<1>1. \A n \in 0 .. t - 1 : H[n] \in [vc : VCs, seq : Nat]
  BY DEF Numbering
<1>2. \A n \in 0 .. t - 1 : H[n].seq < seqs[H[n].vc]
  BY DEF Numbering
<1>3. \A m, n \in 0 .. t - 1 : m < n /\ H[m].vc = H[n].vc => H[m].seq < H[n].seq
  BY DEF Numbering
<1>4. t \in Nat
  BY DEF Numbering
<1>5. QED BY <1>1, <1>2, <1>3, <1>4

LEMMA SitsOnce ==
    ASSUME NEW H, NEW t, Numbering(H, t), NEW m \in 0 .. t - 1, NEW n \in 0 .. t - 1, H[m] = H[n]
    PROVE  m = n
<1>1. H[m] \in [vc : VCs, seq : Nat] /\ H[n] \in [vc : VCs, seq : Nat] /\ t \in Nat
  BY DEF Numbering
<1>2. ~(m < n) /\ ~(n < m)
  <2>1. H[m].seq \in Nat /\ H[m].vc = H[n].vc /\ H[m].seq = H[n].seq
    BY <1>1
  <2>2. (m < n => H[m].seq < H[n].seq) /\ (n < m => H[n].seq < H[m].seq)
    BY <2>1 DEF Numbering
  <2>3. QED BY <2>1, <2>2
<1>3. QED BY <1>1, <1>2

\* Nothing is counted.
LEMMA FollowedStays ==
    ASSUME NEW H, NEW G, NEW b, \A n \in 0 .. b - 1 : G[n] = H[n], Followed(H, b),
           UNCHANGED <<lastMc, lastFrame, lastCount, vcGaps, mcGaps>>,
           damage \in Nat, damage' \in Nat, damage <= damage'
    PROVE  Followed(G, b)'
<1>1. (damage' = 0 => damage = 0) /\ (damage' < Modulus => damage < Modulus)
  BY FormatAssumption
<1>2. \A v \in VCs : lastFrame[v] # None =>
         v \in Listed /\ lastFrame[v].vc = v /\ \E n \in 0 .. b - 1 : Sits(G, lastFrame[v], n)
  BY DEF Followed, Sits
<1>3. Unbroken(H, b) => Unbroken(G, b)'
  BY DEF Unbroken
<1>4. QED BY <1>1, <1>2, <1>3 DEF Followed

\* A frame more, the newest of all.
LEMMA SentNumbered ==
    ASSUME NEW H, NEW t, NEW b, Numbering(H, t), Waits(H, t, b), Followed(H, b),
           seqs \in [VCs -> Nat], damage \in Nat, channel \in Seq(Frame), NEW v \in VCs, NEW f \in Frame, Sound(f), f.vc = v,
           f.seq = seqs[v], f.mc = mcCount, f.count = f.seq % Modulus,
           channel' = Append(channel, f), mcCount' = Successor(mcCount),
           seqs' = [seqs EXCEPT ![v] = @ + 1],
           UNCHANGED <<damage, lastMc, lastFrame, lastCount, vcGaps, mcGaps>>
    PROVE  NumberedOK'
<1> DEFINE e == [vc |-> v, seq |-> seqs[v]]
<1>1. t \in Nat /\ b \in 0 .. t /\ H \in [0 .. t - 1 -> [vc : VCs, seq : Nat]]
  BY DEF Numbering, Waits
<1>2. e \in [vc : VCs, seq : Nat] /\ e.vc = v /\ e.seq = seqs[v]
  OBVIOUS
<1>3. PICK G : G = [n \in 0 .. t |-> IF n = t THEN e ELSE H[n]]
  OBVIOUS
<1>4. /\ \A n \in 0 .. t - 1 : G[n] = H[n] /\ H[n] \in [vc : VCs, seq : Nat] /\ n < t /\ n \in 0 .. t
      /\ G[t] = e /\ t \in 0 .. t
  BY <1>1, <1>3
<1>5. \A n \in 0 .. t : n \in 0 .. t - 1 \/ n = t
  BY <1>1
<1>6. G \in [0 .. t -> [vc : VCs, seq : Nat]]
  <2>1. \A n \in 0 .. t : (IF n = t THEN e ELSE H[n]) \in [vc : VCs, seq : Nat]
    BY <1>2, <1>4, <1>5
  <2> HIDE DEF e
  <2>2. QED BY <1>3, <2>1
<1>7. /\ seqs'[v] = seqs[v] + 1 /\ seqs[v] \in Nat
      /\ \A u \in VCs : seqs[u] <= seqs'[u] /\ seqs[u] \in Nat /\ (u # v => seqs'[u] = seqs[u])
  OBVIOUS
<1> HIDE DEF e
<1>8. mcCount' = (t + 1) % Modulus
  BY <1>1, SuccessorOfCount DEF Numbering
<1>9. \A n \in 0 .. t : G[n].seq < seqs'[G[n].vc]
  <2>1. ASSUME NEW n \in 0 .. t - 1 PROVE G[n].seq < seqs'[G[n].vc]
    <3>1. G[n] = H[n] /\ H[n].vc \in VCs /\ H[n].seq \in Nat /\ H[n].seq < seqs[H[n].vc]
      BY <1>4 DEF Numbering
    <3>2. PICK u \in VCs : u = H[n].vc
      BY <3>1
    <3>3. seqs[u] \in Nat /\ seqs'[u] \in Nat /\ seqs[u] <= seqs'[u]
      BY <1>7
    <3>4. QED BY <3>1, <3>2, <3>3
  <2>2. G[t].seq < seqs'[G[t].vc]
    BY <1>2, <1>4, <1>7
  <2>3. QED BY <1>5, <2>1, <2>2
<1>10. ASSUME NEW m \in 0 .. t, NEW n \in 0 .. t, m < n, G[m].vc = G[n].vc
       PROVE  G[m].seq < G[n].seq
  <2>1. m \in 0 .. t - 1 /\ G[m] = H[m]
    BY <1>1, <1>4, <1>10
  <2>2. CASE n \in 0 .. t - 1
    BY <1>4, <1>10, <2>1, <2>2 DEF Numbering
  <2>3. CASE n = t
    <3>1. H[m].seq < seqs[H[m].vc]
      BY <2>1 DEF Numbering
    <3>2. QED BY <1>2, <1>4, <1>10, <2>1, <2>3, <3>1
  <2>4. QED BY <1>5, <2>2, <2>3
<1>11. ASSUME NEW u \in VCs, NEW s \in Nat, s < seqs'[u]
       PROVE  \E n \in 0 .. t : G[n] = [vc |-> u, seq |-> s]
  <2>1. CASE s < seqs[u]
    <3>1. PICK n \in 0 .. t - 1 : H[n] = [vc |-> u, seq |-> s]
      BY <2>1 DEF Numbering
    <3>2. QED BY <1>4, <3>1
  <2>2. CASE ~(s < seqs[u])
    <3>1. u = v /\ s = seqs[v]
      BY <1>7, <1>11, <2>2
    <3>2. QED BY <1>4, <3>1 DEF e
  <2>3. QED BY <2>1, <2>2
<1>12. Numbering(G, t + 1)'
  <2>1. t + 1 \in Nat /\ (t + 1) - 1 = t
    BY <1>1
  <2>2. QED BY <1>6, <1>8, <1>9, <1>10, <1>11, <2>1 DEF Numbering
<1>13. /\ Len(channel') = Len(channel) + 1 /\ Len(channel) \in Nat
       /\ \A i \in 1 .. Len(channel) : channel'[i] = channel[i] /\ i \in 1 .. Len(channel) + 1
       /\ channel'[Len(channel) + 1] = f
       /\ \A i \in 1 .. Len(channel') : i \in 1 .. Len(channel) \/ i = Len(channel) + 1
  OBVIOUS
<1>14. ASSUME NEW g, NEW n \in 0 .. t - 1
       PROVE  Sits(G, g, n) <=> Sits(H, g, n)
  BY <1>4 DEF Sits
<1>15. Sits(G, f, t)
  BY <1>4 DEF Sits, e
<1>16. ASSUME NEW i \in 1 .. Len(channel'), Sound(channel'[i])
       PROVE  /\ channel'[i].count = channel'[i].seq % Modulus
              /\ \E n \in b .. t : Sits(G, channel'[i], n) /\ channel'[i].mc = n % Modulus
  <2>1. CASE i \in 1 .. Len(channel)
    <3>1. PICK n \in b .. t - 1 : Sits(H, channel[i], n) /\ channel[i].mc = n % Modulus
      BY <1>13, <1>16, <2>1 DEF Waits
    <3>2. n \in 0 .. t - 1 /\ n \in b .. t
      BY <1>1
    <3>3. Sits(G, channel[i], n)
      BY <1>14, <3>1, <3>2
    <3>4. channel[i].count = channel[i].seq % Modulus
      BY <1>13, <1>16, <2>1 DEF Waits
    <3>5. QED BY <1>13, <2>1, <3>1, <3>2, <3>3, <3>4
  <2>2. CASE i = Len(channel) + 1
    <3>1. f.mc = t % Modulus /\ t \in b .. t
      BY <1>1 DEF Numbering
    <3>2. QED BY <1>13, <1>15, <2>2, <3>1
  <2>3. QED BY <1>13, <2>1, <2>2
<1>17. ASSUME NEW i \in 1 .. Len(channel), Sound(channel[i]), NEW n \in 0 .. t, Sits(G, channel[i], n)
       PROVE  n \in 0 .. t - 1 /\ Sits(H, channel[i], n)
  <2>1. PICK k \in b .. t - 1 : Sits(H, channel[i], k)
    BY <1>17 DEF Waits
  <2>2. k \in 0 .. t - 1 /\ k \in 0 .. t
    BY <1>1
  <2>3. k # t
    BY <1>1, <2>2
  <2>4. H[k].seq < seqs[H[k].vc]
    BY <2>2 DEF Numbering
  <2>5. n # t
    <3> SUFFICES ASSUME n = t PROVE FALSE
      OBVIOUS
    <3>1. e = H[k]
      BY <1>4, <1>17, <2>1 DEF Sits
    <3>2. QED BY <1>2, <1>7, <2>4, <3>1
  <2>6. n \in 0 .. t - 1
    BY <1>5, <2>5
  <2>7. QED BY <1>14, <1>17, <2>6
<1>18. ASSUME NEW i \in 1 .. Len(channel'), NEW j \in 1 .. Len(channel'), NEW m \in 0 .. t, NEW n \in 0 .. t,
              i < j, Sound(channel'[i]), Sound(channel'[j]), Sits(G, channel'[i], m), Sits(G, channel'[j], n)
       PROVE  m < n
  <2>1. i \in 1 .. Len(channel) /\ channel'[i] = channel[i]
    BY <1>13, <1>18
  <2>2. m \in 0 .. t - 1 /\ Sits(H, channel[i], m)
    BY <1>17, <1>18, <2>1
  <2>3. CASE j \in 1 .. Len(channel)
    <3>1. n \in 0 .. t - 1 /\ Sits(H, channel[j], n) /\ Sound(channel[j])
      BY <1>13, <1>17, <1>18, <2>3
    <3>2. QED BY <1>18, <2>1, <2>2, <2>3, <3>1 DEF Waits
  <2>4. CASE j = Len(channel) + 1
    <3>1. G[n] = e
      BY <1>13, <1>18, <2>4 DEF Sits, e
    <3>2. n = t
      <4> SUFFICES ASSUME n # t PROVE FALSE
        OBVIOUS
      <4>1. n \in 0 .. t - 1
        BY <1>5
      <4>2. H[n] = e /\ H[n].seq < seqs[H[n].vc]
        BY <1>4, <3>1, <4>1 DEF Numbering
      <4>3. QED BY <1>2, <1>7, <4>2
    <3>3. QED BY <1>1, <2>2, <3>2
  <2>5. QED BY <1>13, <2>3, <2>4
<1>19. \E D : /\ IsFiniteSet(D) /\ Cardinality(D) <= damage'
              /\ \A n \in b .. t :
                    n \in D \/ \E i \in 1 .. Len(channel') : Sound(channel'[i]) /\ Sits(G, channel'[i], n)
  <2>1. PICK D : /\ IsFiniteSet(D) /\ Cardinality(D) <= damage
                 /\ \A n \in b .. t - 1 :
                       n \in D \/ \E i \in 1 .. Len(channel) : Sound(channel[i]) /\ Sits(H, channel[i], n)
    BY DEF Waits
  <2>2. ASSUME NEW n \in b .. t
        PROVE  n \in D \/ \E i \in 1 .. Len(channel') : Sound(channel'[i]) /\ Sits(G, channel'[i], n)
    <3>1. CASE n = t
      <4>1. Len(channel) + 1 \in 1 .. Len(channel')
        BY <1>13
      <4>2. QED BY <1>13, <1>15, <3>1, <4>1
    <3>2. CASE n # t
      <4>1. n \in b .. t - 1 /\ n \in 0 .. t - 1
        BY <1>1, <3>2
      <4>2. QED BY <1>13, <1>14, <2>1, <4>1
    <3>3. QED BY <3>1, <3>2
  <2>3. QED BY <2>1, <2>2
<1>20. Waits(G, t + 1, b)'
  <2>1. (t + 1) - 1 = t /\ b \in 0 .. t + 1
    BY <1>1
  <2>2. QED BY <1>16, <1>18, <1>19, <2>1 DEF Waits
<1>21. Followed(G, b)'
  <2>1. \A n \in 0 .. b - 1 : G[n] = H[n]
    BY <1>1, <1>4
  <2>2. QED BY <2>1, FollowedStays
<1>22. QED BY <1>12, <1>20, <1>21 DEF NumberedOK

\* On their way frames are lost and marked, and other ones come in between.
LEMMA OnTheWay ==
    ASSUME NEW H, NEW t, NEW b, Numbering(H, t), Waits(H, t, b), UNCHANGED <<mcCount, seqs>>,
           damage \in Nat, damage' \in Nat,
           NEW m, \A i \in 1 .. Len(channel') : Sound(channel'[i]) =>
                     m[i] \in 1 .. Len(channel) /\ Sound(channel[m[i]]) /\ Tells(channel'[i], channel[m[i]]),
           \A i, j \in 1 .. Len(channel') : i < j => m[i] < m[j],
           NEW E, IsFiniteSet(E), Cardinality(E) + damage <= damage',
           \A i \in 1 .. Len(channel) : Sound(channel[i]) =>
              \/ \A n \in 0 .. t - 1 : Sits(H, channel[i], n) => n \in E
              \/ \E j \in 1 .. Len(channel') : Sound(channel'[j]) /\ Tells(channel'[j], channel[i])
    PROVE  Numbering(H, t)' /\ Waits(H, t, b)'
<1>1. Numbering(H, t)'
  <2>1. mcCount' = mcCount /\ seqs' = seqs /\ Numbering(H, t)
    OBVIOUS
  <2>2. QED BY ONLY <2>1 DEF Numbering
<1>2. t \in Nat /\ b \in 0 .. t
  BY DEF Numbering, Waits
<1>3. ASSUME NEW f, NEW g, Tells(f, g), NEW n
      PROVE  Sits(H, f, n) <=> Sits(H, g, n)
  BY <1>3 DEF Tells, Sits
<1>4. ASSUME NEW i \in 1 .. Len(channel'), Sound(channel'[i])
      PROVE  /\ channel'[i].count = channel'[i].seq % Modulus
             /\ \E n \in b .. t - 1 : Sits(H, channel'[i], n) /\ channel'[i].mc = n % Modulus
  <2>1. m[i] \in 1 .. Len(channel) /\ Sound(channel[m[i]]) /\ Tells(channel'[i], channel[m[i]])
    BY <1>4
  <2>2. /\ channel[m[i]].count = channel[m[i]].seq % Modulus
        /\ \E n \in b .. t - 1 : Sits(H, channel[m[i]], n) /\ channel[m[i]].mc = n % Modulus
    BY <2>1 DEF Waits
  <2>3. QED BY <1>3, <2>1, <2>2 DEF Tells
<1>5. ASSUME NEW i \in 1 .. Len(channel'), NEW j \in 1 .. Len(channel'),
             NEW k \in 0 .. t - 1, NEW n \in 0 .. t - 1, i < j, Sound(channel'[i]), Sound(channel'[j]),
             Sits(H, channel'[i], k), Sits(H, channel'[j], n)
      PROVE  k < n
  <2>1. /\ m[i] \in 1 .. Len(channel) /\ Sound(channel[m[i]]) /\ Tells(channel'[i], channel[m[i]])
        /\ m[j] \in 1 .. Len(channel) /\ Sound(channel[m[j]]) /\ Tells(channel'[j], channel[m[j]])
        /\ m[i] < m[j]
    BY <1>5
  <2>2. Sits(H, channel[m[i]], k) /\ Sits(H, channel[m[j]], n)
    BY <1>3, <1>5, <2>1
  <2>3. QED BY <2>1, <2>2 DEF Waits
<1>6. \E D : /\ IsFiniteSet(D) /\ Cardinality(D) <= damage'
             /\ \A n \in b .. t - 1 :
                   n \in D \/ \E i \in 1 .. Len(channel') : Sound(channel'[i]) /\ Sits(H, channel'[i], n)
  <2>1. PICK D : /\ IsFiniteSet(D) /\ Cardinality(D) <= damage
                 /\ \A n \in b .. t - 1 :
                       n \in D \/ \E i \in 1 .. Len(channel) : Sound(channel[i]) /\ Sits(H, channel[i], n)
    BY DEF Waits
  <2>2. IsFiniteSet(D \cup E) /\ Cardinality(D \cup E) <= damage'
    <3>1. /\ IsFiniteSet(D \cup E)
          /\ Cardinality(D \cup E) = Cardinality(D) + Cardinality(E) - Cardinality(D \cap E)
      BY <2>1, FS_Union
    <3>2. IsFiniteSet(D \cap E)
      BY <2>1, FS_Subset
    <3>3. Cardinality(D) \in Nat /\ Cardinality(E) \in Nat /\ Cardinality(D \cap E) \in Nat
      BY <2>1, <3>2, FS_CardinalityType
    <3>4. QED BY <2>1, <3>1, <3>3
  <2>3. ASSUME NEW n \in b .. t - 1
        PROVE  n \in D \cup E \/ \E i \in 1 .. Len(channel') : Sound(channel'[i]) /\ Sits(H, channel'[i], n)
    <3>1. n \in 0 .. t - 1
      BY <1>2
    <3>2. SUFFICES ASSUME NEW i \in 1 .. Len(channel), Sound(channel[i]), Sits(H, channel[i], n)
                   PROVE  n \in E \/ \E j \in 1 .. Len(channel') : Sound(channel'[j]) /\ Sits(H, channel'[j], n)
      BY <2>1
    <3>3. CASE \A k \in 0 .. t - 1 : Sits(H, channel[i], k) => k \in E
      BY <3>1, <3>2, <3>3
    <3>4. CASE \E j \in 1 .. Len(channel') : Sound(channel'[j]) /\ Tells(channel'[j], channel[i])
      BY <1>3, <3>2, <3>4
    <3>5. QED BY <3>2, <3>3, <3>4
  <2>4. QED BY <2>2, <2>3
<1>7. Waits(H, t, b)'
  BY <1>2, <1>4, <1>5, <1>6 DEF Waits
<1>8. QED BY <1>1, <1>7

\* Between the last frame counted and the first one under way are lost ones.
LEMMA FirstSits ==
    ASSUME NEW H, NEW t, NEW b, Numbering(H, t), Waits(H, t, b), damage \in Nat,
           Len(channel) \in Nat, 1 \in 1 .. Len(channel), Sound(channel[1])
    PROVE  \E n \in b .. t - 1 : /\ Sits(H, channel[1], n) /\ channel[1].mc = n % Modulus
                                 /\ n - b <= damage
<1>1. t \in Nat /\ b \in 0 .. t
  BY DEF Numbering, Waits
<1>2. PICK n \in b .. t - 1 : Sits(H, channel[1], n) /\ channel[1].mc = n % Modulus
  BY DEF Waits
<1>3. PICK D : /\ IsFiniteSet(D) /\ Cardinality(D) <= damage
               /\ \A k \in b .. t - 1 :
                     k \in D \/ \E i \in 1 .. Len(channel) : Sound(channel[i]) /\ Sits(H, channel[i], k)
  BY DEF Waits
<1>4. b .. n - 1 \subseteq D
  <2> SUFFICES ASSUME NEW k \in b .. n - 1, k \notin D PROVE FALSE
    OBVIOUS
  <2>1. k \in b .. t - 1 /\ k \in 0 .. t - 1 /\ n \in 0 .. t - 1 /\ k < n
    BY <1>1
  <2>2. PICK i \in 1 .. Len(channel) : Sound(channel[i]) /\ Sits(H, channel[i], k)
    BY <1>3, <2>1
  <2>3. CASE i = 1
    <3>1. H[k] = H[n]
      BY <1>2, <2>2, <2>3 DEF Sits
    <3>2. k = n
      BY <2>1, <3>1, SitsOnce
    <3>3. QED BY <2>1, <3>2
  <2>4. CASE i # 1
    <3>1. 1 < i
      BY <2>4
    <3>2. n < k
      BY <1>2, <2>1, <2>2, <3>1 DEF Waits
    <3>3. QED BY <1>1, <2>1, <3>2
  <2>5. QED BY <2>3, <2>4
<1>5. n - b <= damage
  <2>1. n \in Nat /\ b \in Nat /\ b <= n /\ b \in Int /\ n - 1 \in Int
    BY <1>1
  <2>2. Cardinality(b .. n - 1) = n - b
    <3>1. Cardinality(b .. n - 1) = IF b > n - 1 THEN 0 ELSE (n - 1) - b + 1
      BY <2>1, FS_Interval
    <3> DEFINE c == Cardinality(b .. n - 1)
    <3>2. c = IF b > n - 1 THEN 0 ELSE (n - 1) - b + 1
      BY <3>1
    <3> HIDE DEF c
    <3>3. c = n - b
      BY <2>1, <3>2
    <3>4. QED BY <3>3 DEF c
  <2>3. Cardinality(b .. n - 1) <= Cardinality(D)
    BY <1>3, <1>4, FS_Subset
  <2>4. Cardinality(D) \in Nat
    BY <1>3, FS_CardinalityType
  <2>5. QED BY <1>3, <2>1, <2>2, <2>3, <2>4
<1>6. QED BY <1>2, <1>5

\* The first frame is counted: those behind it wait on.
LEMMA FirstTaken ==
    ASSUME NEW H, NEW t, NEW b, Numbering(H, t), Waits(H, t, b), channel \in Seq(Frame),
           1 \in 1 .. Len(channel), Sound(channel[1]), NEW n \in b .. t - 1, Sits(H, channel[1], n),
           channel' = RemoveAt(channel, 1), UNCHANGED <<mcCount, seqs, damage>>
    PROVE  Numbering(H, t)' /\ Waits(H, t, n + 1)'
<1>1. Numbering(H, t)'
  <2>1. mcCount' = mcCount /\ seqs' = seqs /\ Numbering(H, t)
    OBVIOUS
  <2>2. QED BY ONLY <2>1 DEF Numbering
<1>2. t \in Nat /\ b \in 0 .. t
  BY DEF Numbering, Waits
<1>3. n \in 0 .. t - 1 /\ n + 1 \in 0 .. t
  BY <1>2
<1>4. /\ Len(channel') = Len(channel) - 1 /\ Len(channel) \in Nat
      /\ \A k \in 1 .. Len(channel') : k + 1 \in 1 .. Len(channel) /\ channel'[k] = channel[k + 1] /\ 1 < k + 1
      /\ \A k \in 1 .. Len(channel) : k = 1 \/ (k - 1 \in 1 .. Len(channel') /\ channel'[k - 1] = channel[k])
  <2>1. /\ Len(channel') = Len(channel) - 1 /\ Len(channel) \in Nat
        /\ \A k \in 1 .. Len(channel) - 1 : k + 1 \in 1 .. Len(channel) /\ channel'[k] = channel[k + 1]
    BY WithoutFirst
  <2>2. ASSUME NEW k \in 1 .. Len(channel), k # 1
        PROVE  k - 1 \in 1 .. Len(channel') /\ channel'[k - 1] = channel[k]
    <3>1. k - 1 \in 1 .. Len(channel) - 1 /\ (k - 1) + 1 = k
      BY <2>1, <2>2
    <3>2. QED BY <2>1, <3>1
  <2>3. QED BY <2>1, <2>2
<1>5. ASSUME NEW i \in 1 .. Len(channel'), Sound(channel'[i])
      PROVE  /\ channel'[i].count = channel'[i].seq % Modulus
             /\ \E k \in n + 1 .. t - 1 : Sits(H, channel'[i], k) /\ channel'[i].mc = k % Modulus
  <2>1. i + 1 \in 1 .. Len(channel) /\ channel'[i] = channel[i + 1] /\ 1 < i + 1
    BY <1>4
  <2>2. PICK k \in b .. t - 1 : Sits(H, channel[i + 1], k) /\ channel[i + 1].mc = k % Modulus
    BY <1>5, <2>1 DEF Waits
  <2>3. k \in 0 .. t - 1
    BY <1>2
  <2>4. n < k
    BY <1>3, <1>5, <2>1, <2>2, <2>3 DEF Waits
  <2>5. k \in n + 1 .. t - 1
    BY <1>3, <2>3, <2>4
  <2>6. channel[i + 1].count = channel[i + 1].seq % Modulus
    BY <1>5, <2>1 DEF Waits
  <2>7. QED BY <2>1, <2>2, <2>5, <2>6
<1>6. ASSUME NEW i \in 1 .. Len(channel'), NEW j \in 1 .. Len(channel'),
             NEW k \in 0 .. t - 1, NEW l \in 0 .. t - 1, i < j, Sound(channel'[i]), Sound(channel'[j]),
             Sits(H, channel'[i], k), Sits(H, channel'[j], l)
      PROVE  k < l
  <2>1. /\ i + 1 \in 1 .. Len(channel) /\ channel'[i] = channel[i + 1]
        /\ j + 1 \in 1 .. Len(channel) /\ channel'[j] = channel[j + 1]
    BY <1>4
  <2>2. i + 1 < j + 1
    BY <1>4, <1>6
  <2>3. QED BY <1>6, <2>1, <2>2 DEF Waits
<1>7. \E D : /\ IsFiniteSet(D) /\ Cardinality(D) <= damage'
             /\ \A k \in n + 1 .. t - 1 :
                   k \in D \/ \E i \in 1 .. Len(channel') : Sound(channel'[i]) /\ Sits(H, channel'[i], k)
  <2>1. PICK D : /\ IsFiniteSet(D) /\ Cardinality(D) <= damage
                 /\ \A k \in b .. t - 1 :
                       k \in D \/ \E i \in 1 .. Len(channel) : Sound(channel[i]) /\ Sits(H, channel[i], k)
    BY DEF Waits
  <2>2. ASSUME NEW k \in n + 1 .. t - 1
        PROVE  k \in D \/ \E i \in 1 .. Len(channel') : Sound(channel'[i]) /\ Sits(H, channel'[i], k)
    <3>1. k \in b .. t - 1 /\ k \in 0 .. t - 1 /\ k # n
      BY <1>2, <1>3
    <3>2. SUFFICES ASSUME NEW i \in 1 .. Len(channel), Sound(channel[i]), Sits(H, channel[i], k)
                   PROVE  \E j \in 1 .. Len(channel') : Sound(channel'[j]) /\ Sits(H, channel'[j], k)
      BY <2>1, <3>1
    <3>3. i # 1
      <4> SUFFICES ASSUME i = 1 PROVE FALSE
        OBVIOUS
      <4>1. H[k] = H[n]
        BY <3>2 DEF Sits
      <4>2. QED BY <1>3, <3>1, <4>1, SitsOnce
    <3>4. QED BY <1>4, <3>2, <3>3
  <2>3. QED BY <2>1, <2>2
<1>8. Waits(H, t, n + 1)'
  BY <1>3, <1>5, <1>6, <1>7 DEF Waits
<1>9. QED BY <1>1, <1>8

LEMMA FollowedReset ==
    ASSUME NEW H, NEW b, Followed(H, b), lastMc' = None, lastFrame' = [v \in VCs |-> None],
           lastCount' = [v \in VCs |-> None], UNCHANGED <<vcGaps, mcGaps>>,
           damage \in Nat, damage' \in Nat, damage <= damage'
    PROVE  Followed(H, b)'
<1>1. (damage' = 0 => damage = 0) /\ (damage' < Modulus => damage < Modulus)
  BY FormatAssumption
<1>2. Unbroken(H, b) => Unbroken(H, b)'
  BY DEF Unbroken
<1>3. QED BY <1>1, <1>2 DEF Followed

\* Fewer than Modulus frames are lost: the master channel's counter shows it.
LEMMA MasterTells ==
    ASSUME NEW b \in Nat, b > 0, NEW n \in Nat, b <= n, n - b < Modulus,
           ~Breaks((b - 1) % Modulus, n % Modulus), (b - 1) % Modulus # None
    PROVE  n = b
<1>1. n % Modulus = Successor((b - 1) % Modulus)
  BY DEF Breaks
<1>2. Successor((b - 1) % Modulus) = b % Modulus
  <2>1. b - 1 \in Nat /\ (b - 1) + 1 = b
    OBVIOUS
  <2>2. QED BY <2>1, SuccessorOfCount
<1>3. b - n < Modulus
  BY FormatAssumption
<1>4. QED BY <1>1, <1>2, <1>3, CountTells

\* The next frame of the master channel is the next one of its own channel.
LEMMA NextOfChannel ==
    ASSUME NEW H, NEW t, NEW b, Numbering(H, t), b \in 0 .. t - 1, seqs \in [VCs -> Nat],
           NEW f \in Frame, Sits(H, f, b), NEW g \in Frame, g.vc = f.vc,
           NEW k \in 0 .. b - 1, Sits(H, g, k),
           \A n \in 0 .. b - 1 : H[n].vc = g.vc => H[n].seq <= g.seq
    PROVE  f.seq = g.seq + 1
<1>1. t \in Nat /\ b \in Nat /\ b < t /\ b \in 0 .. t - 1
  <2>1. t \in Nat
    BY NumberType
  <2>2. QED BY <2>1
<1>2. f.vc \in VCs /\ f.seq \in Nat /\ g.seq \in Nat
  BY DEF Frame
<1>3. H[b] = [vc |-> f.vc, seq |-> f.seq] /\ H[k] = [vc |-> f.vc, seq |-> g.seq]
  BY DEF Sits
<1>4. g.seq < f.seq
  <2>1. k \in 0 .. t - 1 /\ k < b /\ H[k].vc = H[b].vc
    BY <1>1, <1>3
  <2>2. H[k].seq < H[b].seq
    BY <1>1, <2>1, NumberType
  <2>3. QED BY <1>3, <2>2
<1>5. f.seq < seqs[f.vc]
  <2>1. H[b].seq < seqs[H[b].vc]
    BY <1>1, NumberType
  <2>2. QED BY <1>3, <2>1
<1>6. ~(g.seq + 1 < f.seq)
  <2> SUFFICES ASSUME g.seq + 1 < f.seq PROVE FALSE
    OBVIOUS
  <2>1. g.seq + 1 \in Nat /\ g.seq + 1 < seqs[f.vc]
    BY <1>2, <1>5
  <2>2. PICK j \in 0 .. t - 1 : H[j] = [vc |-> f.vc, seq |-> g.seq + 1]
    BY <1>2, <2>1 DEF Numbering
  <2>3. ~(b < j)
    <3>1. b < j => H[b].seq < H[j].seq
      <4>1. H[b].vc = H[j].vc
        BY <1>3, <2>2
      <4>2. QED BY <1>1, <4>1, NumberType
    <3>2. QED BY <1>2, <1>3, <2>2, <3>1
  <2>4. j # b
    BY <1>2, <1>3, <2>2
  <2>5. j \in 0 .. b - 1
    BY <1>1, <2>3, <2>4
  <2>6. QED BY <1>2, <2>2, <2>5
<1>7. QED BY <1>2, <1>4, <1>6

\* A frame is counted, and taken if its channel is followed.
LEMMA CountedFollowed ==
    ASSUME NEW H, NEW t, NEW b, Numbering(H, t), b \in 0 .. t, Followed(H, b), seqs \in [VCs -> Nat],
           NEW n \in b .. t - 1, NEW f \in Frame, Sits(H, f, n), f.mc = n % Modulus,
           f.count = f.seq % Modulus, damage \in Nat, n - b <= damage, UNCHANGED damage,
           mcGaps \in Nat, vcGaps \in Nat, lastFrame \in [VCs -> Frame \cup {None}],
           lastCount \in [VCs -> 0 .. Modulus - 1 \cup {None}],
           mcGaps' = mcGaps + OneIf(Breaks(lastMc, f.mc)), lastMc' = f.mc,
           \/ /\ f.vc \in Listed
              /\ vcGaps' = vcGaps + OneIf(Breaks(lastCount[f.vc], f.count))
              /\ lastCount' = [lastCount EXCEPT ![f.vc] = f.count]
              /\ lastFrame' = [lastFrame EXCEPT ![f.vc] = f]
           \/ f.vc \notin Listed /\ UNCHANGED <<vcGaps, lastCount, lastFrame>>
    PROVE  Followed(H, n + 1)'
<1>1. t \in Nat /\ b \in Nat /\ n \in Nat /\ b <= n /\ n \in 0 .. t - 1 /\ (n + 1) - 1 = n
  <2>1. t \in Nat
    BY NumberType
  <2>2. QED BY <2>1
<1>2. f.vc \in VCs /\ f.seq \in Nat /\ f # None /\ f.mc # None /\ f.count # None
  <2>1. f.vc \in VCs /\ f.seq \in Nat /\ f.mc \in Nat /\ f.count \in Nat
    BY DEF Frame
  <2>2. QED BY <2>1, LinkAssumption
<1>3. H[n] = [vc |-> f.vc, seq |-> f.seq]
  BY DEF Sits
<1>4. \A v \in VCs : \/ lastFrame'[v] = lastFrame[v] /\ lastCount'[v] = lastCount[v] /\ (v = f.vc => v \notin Listed)
                     \/ v = f.vc /\ v \in Listed /\ lastFrame'[v] = f /\ lastCount'[v] = f.count
  BY <1>2
<1>5. IF lastMc' = None THEN \A v \in VCs : lastFrame'[v] = None
      ELSE n + 1 > 0 /\ lastMc' = ((n + 1) - 1) % Modulus
  BY <1>1, <1>2
<1>6. ASSUME NEW v \in VCs
      PROVE  /\ lastCount'[v] = IF lastFrame'[v] = None THEN None ELSE lastFrame'[v].seq % Modulus
             /\ lastFrame'[v] # None =>
                   /\ v \in Listed /\ lastFrame'[v].vc = v
                   /\ \E k \in 0 .. (n + 1) - 1 : Sits(H, lastFrame'[v], k)
  <2>1. CASE lastFrame'[v] = lastFrame[v] /\ lastCount'[v] = lastCount[v]
    <3>1. /\ lastCount[v] = IF lastFrame[v] = None THEN None ELSE lastFrame[v].seq % Modulus
          /\ lastFrame[v] # None => v \in Listed /\ lastFrame[v].vc = v
                                    /\ \E k \in 0 .. b - 1 : Sits(H, lastFrame[v], k)
      BY DEF Followed
    <3>2. 0 .. b - 1 \subseteq 0 .. (n + 1) - 1
      BY <1>1
    <3>3. QED BY <2>1, <3>1, <3>2
  <2>2. CASE v = f.vc /\ v \in Listed /\ lastFrame'[v] = f /\ lastCount'[v] = f.count
    <3>1. n \in 0 .. (n + 1) - 1
      BY <1>1
    <3>2. QED BY <1>2, <2>2, <3>1
  <2>3. QED BY <1>4, <2>1, <2>2
<1>7. /\ ~Breaks(lastMc, f.mc) => mcGaps' = mcGaps
      /\ mcGaps' = 0 => mcGaps = 0 /\ ~Breaks(lastMc, f.mc)
  BY DEF OneIf
<1>8. damage' = 0 => mcGaps' = 0
  <2> SUFFICES ASSUME damage = 0 PROVE mcGaps' = 0
    OBVIOUS
  <2>1. mcGaps = 0 /\ n = b
    BY <1>1 DEF Followed
  <2>2. ~Breaks(lastMc, f.mc)
    <3> SUFFICES ASSUME lastMc # None PROVE f.mc = Successor(lastMc)
      BY DEF Breaks
    <3>1. b > 0 /\ lastMc = (b - 1) % Modulus
      BY DEF Followed
    <3>2. b - 1 \in Nat /\ (b - 1) + 1 = n
      BY <1>1, <2>1, <3>1
    <3>3. QED BY <3>1, <3>2, SuccessorOfCount
  <2>3. QED BY <1>7, <2>1, <2>2
<1>9. ASSUME damage < Modulus, mcGaps' = 0
      PROVE  Unbroken(H, n + 1)'
  <2>1. Unbroken(H, b) /\ ~Breaks(lastMc, f.mc) /\ vcGaps = 0
    BY <1>7, <1>9 DEF Followed, Unbroken
  <2>2. ASSUME lastMc # None PROVE n = b
    <3>1. b > 0 /\ lastMc = (b - 1) % Modulus
      BY <2>2 DEF Followed
    <3>2. n - b < Modulus
      BY <1>1, <1>9, FormatAssumption
    <3>3. QED BY <1>1, <2>1, <2>2, <3>1, <3>2, MasterTells
  <2>3. ASSUME NEW v \in VCs, lastFrame[v] # None
        PROVE  /\ n = b /\ lastFrame[v] \in Frame /\ lastFrame[v].vc = v
               /\ \A k \in 0 .. b - 1 : H[k].vc = v => H[k].seq <= lastFrame[v].seq
    BY <2>1, <2>2, <2>3 DEF Followed, Unbroken
  <2>4. vcGaps' = 0
    <3>1. CASE f.vc \notin Listed
      BY <2>1, <3>1
    <3>2. CASE f.vc \in Listed
      <4>1. vcGaps' = vcGaps + OneIf(Breaks(lastCount[f.vc], f.count))
        BY <3>2
      <4>2. ~Breaks(lastCount[f.vc], f.count)
        <5>1. CASE lastFrame[f.vc] = None
          BY <1>2, <5>1 DEF Followed, Breaks
        <5>2. CASE lastFrame[f.vc] # None
          <6>1. PICK g : g = lastFrame[f.vc]
            OBVIOUS
          <6>2. n = b /\ g \in Frame /\ g.vc = f.vc /\ \A k \in 0 .. b - 1 : H[k].vc = g.vc => H[k].seq <= g.seq
            BY <1>2, <2>3, <5>2, <6>1
          <6>3. PICK k \in 0 .. b - 1 : Sits(H, g, k)
            BY <1>2, <5>2, <6>1 DEF Followed
          <6>4. f.seq = g.seq + 1
            BY <1>1, <6>2, <6>3, NextOfChannel
          <6>5. g.seq \in Nat /\ lastCount[f.vc] = g.seq % Modulus
            BY <1>2, <5>2, <6>1, <6>2 DEF Followed, Frame
          <6>6. f.count = Successor(lastCount[f.vc])
            BY <6>4, <6>5, SuccessorOfCount
          <6>7. QED BY <6>6 DEF Breaks
        <5>3. QED BY <5>1, <5>2
      <4>3. QED BY <2>1, <4>1, <4>2 DEF OneIf
    <3>3. QED BY <3>1, <3>2
  <2>5. ASSUME NEW v \in VCs, lastFrame'[v] # None, NEW k \in 0 .. (n + 1) - 1, H[k].vc = v
        PROVE  H[k].seq <= lastFrame'[v].seq
    <3>1. CASE lastFrame'[v] = lastFrame[v] /\ (v = f.vc => v \notin Listed)
      <4>1. n = b /\ \A l \in 0 .. b - 1 : H[l].vc = v => H[l].seq <= lastFrame[v].seq
        BY <2>3, <2>5, <3>1
      <4>2. v \in Listed
        BY <2>5, <3>1 DEF Followed
      <4>3. k # n
        BY <1>3, <2>5, <3>1, <4>2
      <4>4. k \in 0 .. b - 1
        BY <1>1, <4>1, <4>3
      <4>5. QED BY <2>5, <3>1, <4>1, <4>4
    <3>2. CASE v = f.vc /\ lastFrame'[v] = f
      <4>1. k \in 0 .. t - 1 /\ (k = n \/ k < n)
        BY <1>1
      <4>2. CASE k = n
        BY <1>2, <1>3, <3>2, <4>2
      <4>3. CASE k < n
        <5>1. H[k].seq < H[n].seq /\ H[k].seq \in Nat
          <6>1. H[k].vc = H[n].vc
            BY <1>3, <2>5, <3>2
          <6>2. QED BY <1>1, <4>1, <4>3, <6>1, NumberType
        <5>2. QED BY <1>2, <1>3, <3>2, <5>1
      <4>4. QED BY <4>1, <4>2, <4>3
    <3>3. QED BY <1>4, <3>1, <3>2
  <2>6. QED BY <2>4, <2>5 DEF Unbroken
<1>10. QED BY <1>5, <1>6, <1>8, <1>9 DEF Followed

\* Nothing is sent, lost or counted.
LEMMA NumberedStays ==
    ASSUME NumberedOK, damage \in Nat,
           UNCHANGED <<channel, mcCount, seqs, damage, lastMc, lastFrame, lastCount, vcGaps, mcGaps>>
    PROVE  NumberedOK'
<1>1. PICK H, t, b : Numbering(H, t) /\ Waits(H, t, b) /\ Followed(H, b)
  BY DEF NumberedOK
<1>2. Numbering(H, t)' /\ Waits(H, t, b)'
  BY <1>1 DEF Numbering, Waits
<1>3. Followed(H, b)'
  BY <1>1, FollowedStays
<1>4. QED BY <1>2, <1>3 DEF NumberedOK

LEMMA NumberedSent ==
    ASSUME AnyLinkOK, NumberedOK, NEW v \in VCs, NEW f \in Frame, Sound(f), f.vc = v, f.seq = seqs[v],
           f.mc = mcCount, f.count = f.seq % Modulus, channel' = Append(channel, f),
           mcCount' = Successor(mcCount), seqs' = [seqs EXCEPT ![v] = @ + 1],
           UNCHANGED <<damage, lastMc, lastFrame, lastCount, vcGaps, mcGaps>>
    PROVE  NumberedOK'
<1>1. PICK H, t, b : Numbering(H, t) /\ Waits(H, t, b) /\ Followed(H, b)
  BY DEF NumberedOK
<1>2. channel \in Seq(Frame) /\ seqs \in [VCs -> Nat] /\ damage \in Nat
  BY DEF AnyLinkOK, CarriedOK, SendingOK, SenderOK, CountingOK
<1>3. QED BY <1>1, <1>2, SentNumbered

LEMMA NumberedLost ==
    ASSUME AnyLinkOK, NumberedOK, Lose
    PROVE  NumberedOK'
<1>1. PICK H, t, b : Numbering(H, t) /\ Waits(H, t, b) /\ Followed(H, b)
  BY DEF NumberedOK
<1>2. /\ channel \in Seq(Frame) /\ Len(channel) \in Nat /\ damage \in Nat
      /\ UNCHANGED <<mcCount, seqs, lastMc, lastFrame, lastCount, vcGaps, mcGaps>>
  BY DEF AnyLinkOK, CarriedOK, CountingOK, Lose, framer, deframer
<1>3. PICK i \in 1 .. Len(channel) : channel' = RemoveAt(channel, i) /\ damage' = damage + 1
  BY DEF Lose, Faulty
<1> DEFINE m == [k \in 1 .. Len(channel) - 1 |-> IF k < i THEN k ELSE k + 1]
<1>4. /\ Len(channel') = Len(channel) - 1
      /\ \A k \in 1 .. Len(channel) - 1 : m[k] \in 1 .. Len(channel) /\ channel'[k] = channel[m[k]]
  BY <1>2, <1>3, WithoutOne
<1>5. \A k, l \in 1 .. Len(channel') : k < l => m[k] < m[l]
  BY <1>2, <1>4
<1>6. ASSUME NEW k \in 1 .. Len(channel), k # i
      PROVE  \E j \in 1 .. Len(channel') : channel'[j] = channel[k]
  <2>1. CASE k < i
    <3>1. k \in 1 .. Len(channel) - 1 /\ m[k] = k
      BY <1>2, <2>1
    <3>2. QED BY <1>4, <3>1
  <2>2. CASE ~(k < i)
    <3>1. k - 1 \in 1 .. Len(channel) - 1 /\ m[k - 1] = k
      BY <1>2, <1>6, <2>2
    <3>2. QED BY <1>4, <3>1
  <2>3. QED BY <2>1, <2>2
<1> DEFINE p == CHOOSE n \in 0 .. t - 1 : Sits(H, channel[i], n)
<1>7. \A n \in 0 .. t - 1 : Sits(H, channel[i], n) => n \in {p}
  <2> SUFFICES ASSUME NEW n \in 0 .. t - 1, Sits(H, channel[i], n) PROVE n = p
    OBVIOUS
  <2>1. p \in 0 .. t - 1 /\ Sits(H, channel[i], p)
    OBVIOUS
  <2> HIDE DEF p
  <2>2. H[n] = H[p]
    BY <2>1 DEF Sits
  <2>3. QED BY <1>1, <2>1, <2>2, SitsOnce
<1>8. PICK E : IsFiniteSet(E) /\ Cardinality(E) = 1 /\ E = {p}
  BY FS_Singleton
<1> HIDE DEF m, p
<1>9. Numbering(H, t)' /\ Waits(H, t, b)'
  <2>1. \A k \in 1 .. Len(channel') : Sound(channel'[k]) =>
           m[k] \in 1 .. Len(channel) /\ Sound(channel[m[k]]) /\ Tells(channel'[k], channel[m[k]])
    BY <1>4 DEF Tells
  <2>2. \A k \in 1 .. Len(channel) : Sound(channel[k]) =>
           \/ \A n \in 0 .. t - 1 : Sits(H, channel[k], n) => n \in E
           \/ \E j \in 1 .. Len(channel') : Sound(channel'[j]) /\ Tells(channel'[j], channel[k])
    BY <1>6, <1>7, <1>8 DEF Tells
  <2>3. damage' \in Nat /\ Cardinality(E) + damage <= damage' /\ UNCHANGED <<mcCount, seqs>>
    BY <1>2, <1>3, <1>8
  <2>4. QED BY <1>1, <1>2, <1>5, <1>8, <2>1, <2>2, <2>3, OnTheWay
<1>10. Followed(H, b)'
  <2>1. damage' \in Nat /\ damage <= damage'
    BY <1>2, <1>3
  <2>2. QED BY <1>1, <1>2, <2>1, FollowedStays
<1>11. QED BY <1>9, <1>10 DEF NumberedOK

\* A frame is marked or its pointer is changed.
LEMMA NumberedMarked ==
    ASSUME AnyLinkOK, NumberedOK, Damage \/ Mispoint
    PROVE  NumberedOK'
<1>1. PICK H, t, b : Numbering(H, t) /\ Waits(H, t, b) /\ Followed(H, b)
  BY DEF NumberedOK
<1>2. /\ channel \in Seq(Frame) /\ Len(channel) \in Nat /\ damage \in Nat
      /\ UNCHANGED <<mcCount, seqs, lastMc, lastFrame, lastCount, vcGaps, mcGaps>>
  BY DEF AnyLinkOK, CarriedOK, CountingOK, Damage, Mispoint, framer, deframer
<1>3. PICK i \in 1 .. Len(channel), p \in Nat :
         /\ damage' = damage + 1
         /\ \/ channel' = [channel EXCEPT ![i].ok = FALSE]
            \/ channel' = [channel EXCEPT ![i].fhp = p]
  <2>1. DataLen \in Nat /\ 0 .. DataLen \subseteq Nat
    BY FormatAssumption
  <2>2. QED BY <2>1 DEF Damage, Mispoint, Faulty
<1>4. PICK g : g = channel[i]
  OBVIOUS
<1>5. g \in Frame
  BY <1>2, <1>4
<1>6. PICK h \in Frame : h.ours = g.ours /\ Tells(h, g) /\ (h.ok => g.ok) /\ channel' = [channel EXCEPT ![i] = h]
  <2>1. CASE channel' = [channel EXCEPT ![i].ok = FALSE]
    <3>1. PICK h : h = [g EXCEPT !.ok = FALSE]
      OBVIOUS
    <3>2. h \in Frame /\ h.ours = g.ours /\ Tells(h, g) /\ (h.ok => g.ok)
      BY <1>5, <3>1 DEF Frame, Tells
    <3>3. channel' = [channel EXCEPT ![i] = h]
      BY <1>4, <2>1, <3>1
    <3>4. QED BY <3>2, <3>3
  <2>2. CASE channel' = [channel EXCEPT ![i].fhp = p]
    <3>1. PICK h : h = [g EXCEPT !.fhp = p]
      OBVIOUS
    <3>2. h \in Frame /\ h.ours = g.ours /\ Tells(h, g) /\ (h.ok => g.ok)
      BY <1>5, <3>1 DEF Frame, Tells
    <3>3. channel' = [channel EXCEPT ![i] = h]
      BY <1>4, <2>2, <3>1
    <3>4. QED BY <3>2, <3>3
  <2>3. QED BY <1>3, <2>1, <2>2
<1>7. /\ Len(channel') = Len(channel)
      /\ \A k \in 1 .. Len(channel) : channel'[k] = IF k = i THEN h ELSE channel[k]
  <2>1. channel' \in Seq(Frame) /\ Len(channel') = Len(channel)
    BY <1>2, <1>6, ReplacedType
  <2>2. QED BY <1>2, <1>6, <2>1
<1>8. PICK m : m = [k \in 1 .. Len(channel) |-> k]
  OBVIOUS
<1> DEFINE p0 == CHOOSE n \in 0 .. t - 1 : Sits(H, channel[i], n)
<1>9. \A n \in 0 .. t - 1 : Sits(H, channel[i], n) => n \in {p0}
  <2> SUFFICES ASSUME NEW n \in 0 .. t - 1, Sits(H, channel[i], n) PROVE n = p0
    OBVIOUS
  <2>1. p0 \in 0 .. t - 1 /\ Sits(H, channel[i], p0)
    OBVIOUS
  <2> HIDE DEF p0
  <2>2. H[n] = H[p0]
    BY <2>1 DEF Sits
  <2>3. QED BY <1>1, <2>1, <2>2, SitsOnce
<1>10. PICK E : IsFiniteSet(E) /\ Cardinality(E) = 1 /\ E = {p0}
  BY FS_Singleton
<1> HIDE DEF p0
<1>11. Numbering(H, t)' /\ Waits(H, t, b)'
  <2>1. \A k \in 1 .. Len(channel') : Sound(channel'[k]) =>
           m[k] \in 1 .. Len(channel) /\ Sound(channel[m[k]]) /\ Tells(channel'[k], channel[m[k]])
    BY <1>4, <1>6, <1>7, <1>8 DEF Tells, Sound
  <2>2. \A k, l \in 1 .. Len(channel') : k < l => m[k] < m[l]
    BY <1>7, <1>8
  <2>3. \A k \in 1 .. Len(channel) : Sound(channel[k]) =>
           \/ \A n \in 0 .. t - 1 : Sits(H, channel[k], n) => n \in E
           \/ \E j \in 1 .. Len(channel') : Sound(channel'[j]) /\ Tells(channel'[j], channel[k])
    <3> SUFFICES ASSUME NEW k \in 1 .. Len(channel), Sound(channel[k])
                 PROVE  \/ \A n \in 0 .. t - 1 : Sits(H, channel[k], n) => n \in E
                        \/ \E j \in 1 .. Len(channel') : Sound(channel'[j]) /\ Tells(channel'[j], channel[k])
      OBVIOUS
    <3>1. CASE k = i
      BY <1>9, <1>10, <3>1
    <3>2. CASE k # i
      BY <1>7, <3>2 DEF Tells
    <3>3. QED BY <3>1, <3>2
  <2>4. damage' \in Nat /\ Cardinality(E) + damage <= damage' /\ UNCHANGED <<mcCount, seqs>>
    BY <1>2, <1>3, <1>10
  <2>5. QED BY <1>1, <1>2, <1>10, <2>1, <2>2, <2>3, <2>4, OnTheWay
<1>12. Followed(H, b)'
  <2>1. damage' \in Nat /\ damage <= damage'
    BY <1>2, <1>3
  <2>2. QED BY <1>1, <1>2, <2>1, FollowedStays
<1>13. QED BY <1>11, <1>12 DEF NumberedOK

LEMMA NumberedStray ==
    ASSUME AnyLinkOK, NumberedOK, Stray
    PROVE  NumberedOK'
<1>1. PICK H, t, b : Numbering(H, t) /\ Waits(H, t, b) /\ Followed(H, b)
  BY DEF NumberedOK
<1>2. /\ channel \in Seq(Frame) /\ Len(channel) \in Nat /\ damage \in Nat
      /\ UNCHANGED <<mcCount, seqs, lastMc, lastFrame, lastCount, vcGaps, mcGaps>>
  BY DEF AnyLinkOK, CarriedOK, CountingOK, Stray, framer, deframer
<1>3. PICK i \in 1 .. Len(channel) :
         damage' = damage + 0 /\ channel' = Append(channel, [channel[i] EXCEPT !.ours = FALSE])
  BY DEF Stray, Faulty, Send
<1>4. PICK f : f = [channel[i] EXCEPT !.ours = FALSE]
  OBVIOUS
<1>5. f \in Frame /\ ~Sound(f)
  <2>1. channel[i] \in Frame
    BY <1>2
  <2>2. QED BY <1>4, <2>1 DEF Frame, Sound
<1>6. /\ Len(channel') = Len(channel) + 1
      /\ \A k \in 1 .. Len(channel) : channel'[k] = channel[k] /\ k \in 1 .. Len(channel')
      /\ \A k \in 1 .. Len(channel') : k \in 1 .. Len(channel) \/ channel'[k] = f
  <2>1. channel' = Append(channel, f)
    BY <1>3, <1>4
  <2>2. QED BY <1>2, <1>5, <2>1
<1>7. PICK m : m = [k \in 1 .. Len(channel') |-> k]
  OBVIOUS
<1>8. Numbering(H, t)' /\ Waits(H, t, b)'
  <2>1. \A k \in 1 .. Len(channel') : Sound(channel'[k]) =>
           m[k] \in 1 .. Len(channel) /\ Sound(channel[m[k]]) /\ Tells(channel'[k], channel[m[k]])
    BY <1>5, <1>6, <1>7 DEF Tells
  <2>2. \A k, l \in 1 .. Len(channel') : k < l => m[k] < m[l]
    BY <1>7
  <2>3. \A k \in 1 .. Len(channel) : Sound(channel[k]) =>
           \/ \A n \in 0 .. t - 1 : Sits(H, channel[k], n) => n \in {}
           \/ \E j \in 1 .. Len(channel') : Sound(channel'[j]) /\ Tells(channel'[j], channel[k])
    BY <1>6 DEF Tells
  <2>4. damage' \in Nat /\ UNCHANGED <<mcCount, seqs>> /\ IsFiniteSet({}) /\ Cardinality({}) + damage <= damage'
    BY <1>2, <1>3, FS_EmptySet
  <2>5. QED BY <1>1, <1>2, <2>1, <2>2, <2>3, <2>4, OnTheWay
<1>9. Followed(H, b)'
  <2>1. damage' \in Nat /\ damage <= damage'
    BY <1>2, <1>3
  <2>2. QED BY <1>1, <1>2, <2>1, FollowedStays
<1>10. QED BY <1>8, <1>9 DEF NumberedOK

\* The oldest frames are missed, and the counters start afresh.
LEMMA NumberedLagged ==
    ASSUME AnyLinkOK, NumberedOK, Lagged
    PROVE  NumberedOK'
<1>1. PICK H, t, b : Numbering(H, t) /\ Waits(H, t, b) /\ Followed(H, b)
  BY DEF NumberedOK
<1>2. channel \in Seq(Frame) /\ Len(channel) \in Nat /\ damage \in Nat
  BY DEF AnyLinkOK, CarriedOK, CountingOK
<1>3. PICK n \in 1 .. Len(channel) :
         damage' = damage + n /\ channel' = SubSeq(channel, n + 1, Len(channel))
  BY DEF Lagged, Faulty
<1>4. /\ UNCHANGED <<mcCount, seqs, vcGaps, mcGaps>> /\ lastMc' = None
      /\ lastFrame' = [v \in VCs |-> None] /\ lastCount' = [v \in VCs |-> None]
  BY DEF Lagged, Reset, framer
<1>5. /\ Len(channel') = Len(channel) - n
      /\ \A k \in 1 .. Len(channel) - n : n + k \in 1 .. Len(channel) /\ channel'[k] = channel[n + k]
      /\ \A k \in 1 .. Len(channel) : \/ k \in 1 .. n
                                      \/ k - n \in 1 .. Len(channel) - n /\ n + (k - n) = k
  BY <1>2, <1>3
<1>6. PICK m : m = [k \in 1 .. Len(channel') |-> n + k]
  OBVIOUS
<1>7. PICK p : p = [k \in 1 .. n |-> CHOOSE x \in 0 .. t - 1 : Sits(H, channel[k], x)]
  OBVIOUS
<1>8. PICK E : E = {p[k] : k \in 1 .. n}
  OBVIOUS
<1>9. IsFiniteSet(E) /\ Cardinality(E) \in Nat /\ Cardinality(E) <= n
  <2>1. p \in Surjection(1 .. n, E)
    BY <1>7, <1>8 DEF Surjection
  <2>2. IsFiniteSet(1 .. n) /\ Cardinality(1 .. n) = IF 1 > n THEN 0 ELSE n - 1 + 1
    BY FS_Interval
  <2>3. Cardinality(1 .. n) = n
    <3> DEFINE c == Cardinality(1 .. n)
    <3>1. c = IF 1 > n THEN 0 ELSE n - 1 + 1
      BY <2>2
    <3> HIDE DEF c
    <3>2. c = n
      BY <3>1
    <3>3. QED BY <3>2 DEF c
  <2>4. IsFiniteSet(E) /\ Cardinality(E) <= Cardinality(1 .. n)
    BY <2>1, <2>2, FS_Surjection
  <2>5. QED BY <2>3, <2>4, FS_CardinalityType
<1>10. ASSUME NEW k \in 1 .. n, NEW x \in 0 .. t - 1, Sits(H, channel[k], x)
       PROVE  x \in E
  <2>1. PICK y : y = CHOOSE z \in 0 .. t - 1 : Sits(H, channel[k], z)
    OBVIOUS
  <2>2. y \in 0 .. t - 1 /\ Sits(H, channel[k], y)
    BY <1>10, <2>1
  <2>3. x = y
    BY <1>1, <1>10, <2>2, SitsOnce DEF Sits
  <2>4. p[k] = y
    BY <1>7, <2>1
  <2>5. QED BY <1>8, <2>3, <2>4
<1>11. Numbering(H, t)' /\ Waits(H, t, b)'
  <2>1. \A k \in 1 .. Len(channel') : Sound(channel'[k]) =>
           m[k] \in 1 .. Len(channel) /\ Sound(channel[m[k]]) /\ Tells(channel'[k], channel[m[k]])
    BY <1>5, <1>6 DEF Tells
  <2>2. \A k, l \in 1 .. Len(channel') : k < l => m[k] < m[l]
    BY <1>6
  <2>3. \A k \in 1 .. Len(channel) : Sound(channel[k]) =>
           \/ \A x \in 0 .. t - 1 : Sits(H, channel[k], x) => x \in E
           \/ \E j \in 1 .. Len(channel') : Sound(channel'[j]) /\ Tells(channel'[j], channel[k])
    <3> SUFFICES ASSUME NEW k \in 1 .. Len(channel), Sound(channel[k])
                 PROVE  \/ \A x \in 0 .. t - 1 : Sits(H, channel[k], x) => x \in E
                        \/ \E j \in 1 .. Len(channel') : Sound(channel'[j]) /\ Tells(channel'[j], channel[k])
      OBVIOUS
    <3>1. CASE k \in 1 .. n
      BY <1>10, <3>1
    <3>2. CASE k - n \in 1 .. Len(channel) - n /\ n + (k - n) = k
      <4>1. k - n \in 1 .. Len(channel') /\ channel'[k - n] = channel[k]
        BY <1>5, <3>2
      <4>2. QED BY <4>1 DEF Tells
    <3>3. QED BY <1>5, <3>1, <3>2
  <2>4. damage' \in Nat /\ UNCHANGED <<mcCount, seqs>> /\ Cardinality(E) + damage <= damage'
    BY <1>2, <1>3, <1>4, <1>9
  <2>5. QED BY <1>1, <1>2, <1>9, <2>1, <2>2, <2>3, <2>4, OnTheWay
<1>12. Followed(H, b)'
  <2>1. damage' \in Nat /\ damage <= damage'
    BY <1>2, <1>3
  <2>2. QED BY <1>1, <1>2, <1>4, <2>1, FollowedReset
<1>13. QED BY <1>11, <1>12 DEF NumberedOK

\* The first frame under way is looked at.
LEMMA NumberedReceived ==
    ASSUME AnyLinkOK, NumberedOK, ~scene.disorder, Receive
    PROVE  NumberedOK'
<1>1. PICK H, t, b : Numbering(H, t) /\ Waits(H, t, b) /\ Followed(H, b)
  BY DEF NumberedOK
<1>2. /\ channel \in Seq(Frame) /\ Len(channel) \in Nat /\ damage \in Nat /\ seqs \in [VCs -> Nat]
      /\ lastFrame \in [VCs -> Frame \cup {None}] /\ mcGaps \in Nat /\ vcGaps \in Nat
      /\ lastCount \in [VCs -> 0 .. Modulus - 1 \cup {None}]
  <2>1. /\ channel \in Seq(Frame) /\ damage \in Nat /\ seqs \in [VCs -> Nat]
        /\ lastFrame \in [VCs -> Frame \cup {None}]
    BY DEF AnyLinkOK, CarriedOK, CountingOK, SendingOK, SenderOK
  <2>2. mcGaps \in Nat /\ vcGaps \in Nat /\ lastCount \in [VCs -> 0 .. Modulus - 1 \cup {None}]
    BY DEF AnyLinkOK, HeldOK
  <2>3. QED BY <2>1, <2>2
<1>3. /\ 1 \in 1 .. Len(channel) /\ HandleFrame(channel[1]) /\ Note(channel[1])
      /\ channel' = RemoveAt(channel, 1) /\ UNCHANGED <<mcCount, seqs, damage>>
  BY DEF Receive, framer
<1>4. PICK f : f = channel[1]
  OBVIOUS
<1>5. f \in Frame
  BY <1>2, <1>3, <1>4
<1>6. CASE Sound(f)
  <2>1. PICK n \in b .. t - 1 : Sits(H, f, n) /\ f.mc = n % Modulus /\ n - b <= damage
    BY <1>1, <1>2, <1>3, <1>4, <1>6, FirstSits
  <2>2. Numbering(H, t)' /\ Waits(H, t, n + 1)'
    BY <1>1, <1>2, <1>3, <1>4, <1>6, <2>1, FirstTaken
  <2>3. f.count = f.seq % Modulus /\ b \in 0 .. t
    BY <1>1, <1>3, <1>4, <1>6 DEF Waits
  <2>4. mcGaps' = mcGaps + OneIf(Breaks(lastMc, f.mc)) /\ lastMc' = f.mc
    <3>1. CountMaster(f)
      <4>1. ~Reject(f)
        BY <1>6 DEF Reject, Sound
      <4>2. Filter(f) => CountMaster(f)
        BY DEF Filter
      <4>3. AcceptIdle(f) \/ AcceptBadPointer(f) \/ AcceptNoStart(f) \/ AcceptPointer(f) => CountMaster(f)
        BY DEF AcceptIdle, AcceptBadPointer, AcceptNoStart, AcceptPointer, Counted
      <4>4. QED BY <1>3, <1>4, <4>1, <4>2, <4>3 DEF HandleFrame
    <3>2. f.ours
      BY <1>6 DEF Sound
    <3>3. QED BY <3>1, <3>2 DEF CountMaster, OneIf
  <2>5. \/ /\ f.vc \in Listed
           /\ vcGaps' = vcGaps + OneIf(Breaks(lastCount[f.vc], f.count))
           /\ lastCount' = [lastCount EXCEPT ![f.vc] = f.count]
           /\ lastFrame' = [lastFrame EXCEPT ![f.vc] = f]
        \/ f.vc \notin Listed /\ UNCHANGED <<vcGaps, lastCount, lastFrame>>
    <3>1. CASE Filter(f)
      BY <1>3, <1>4, <1>6, <3>1 DEF Filter, Note, Takes, Sound
    <3>2. CASE AcceptIdle(f) \/ AcceptBadPointer(f) \/ AcceptNoStart(f) \/ AcceptPointer(f)
      <4>1. Takes(f) /\ Counted(f)
        BY <3>2 DEF AcceptIdle, AcceptBadPointer, AcceptNoStart, AcceptPointer
      <4>2. QED BY <1>3, <1>4, <4>1 DEF Note, Takes, Counted, Gap
    <3>3. ~Reject(f)
      BY <1>6 DEF Reject, Sound
    <3>4. QED BY <1>3, <1>4, <3>1, <3>2, <3>3 DEF HandleFrame
  <2>6. Followed(H, n + 1)'
    <3>1. UNCHANGED damage
      BY <1>3
    <3>2. QED BY <1>1, <1>2, <1>5, <2>1, <2>3, <2>4, <2>5, <3>1, CountedFollowed
  <2>7. QED BY <2>2, <2>6 DEF NumberedOK
<1>7. CASE ~Sound(f)
  <2>1. UNCHANGED <<lastMc, lastFrame, lastCount, vcGaps, mcGaps>>
    <3>1. ~Takes(f) /\ UNCHANGED lastFrame
      BY <1>3, <1>4, <1>7 DEF Takes, Sound, Note
    <3>2. Reject(f) \/ Filter(f)
      BY <1>3, <1>4, <3>1 DEF HandleFrame, AcceptIdle, AcceptBadPointer, AcceptNoStart, AcceptPointer
    <3>3. CASE Reject(f)
      BY <3>1, <3>3 DEF Reject, deframer
    <3>4. CASE Filter(f)
      <4>1. ~f.ours /\ mcGaps' = mcGaps + 0 /\ lastMc' = lastMc /\ UNCHANGED <<lastCount, vcGaps>>
        BY <1>7, <3>4 DEF Filter, Sound, CountMaster, OneIf
      <4>2. QED BY <1>2, <3>1, <4>1
    <3>5. QED BY <3>2, <3>3, <3>4
  <2>2. /\ Len(channel') = Len(channel) - 1
        /\ \A k \in 1 .. Len(channel) - 1 : k + 1 \in 1 .. Len(channel) /\ channel'[k] = channel[k + 1]
    BY <1>2, <1>3, WithoutFirst
  <2>3. PICK m : m = [k \in 1 .. Len(channel') |-> k + 1]
    OBVIOUS
  <2>4. \A k \in 1 .. Len(channel') : Sound(channel'[k]) =>
           m[k] \in 1 .. Len(channel) /\ Sound(channel[m[k]]) /\ Tells(channel'[k], channel[m[k]])
    BY <2>2, <2>3 DEF Tells
  <2>5. \A k, l \in 1 .. Len(channel') : k < l => m[k] < m[l]
    BY <2>3
  <2>6. \A k \in 1 .. Len(channel) : Sound(channel[k]) =>
           \/ \A x \in 0 .. t - 1 : Sits(H, channel[k], x) => x \in {}
           \/ \E j \in 1 .. Len(channel') : Sound(channel'[j]) /\ Tells(channel'[j], channel[k])
    <3> SUFFICES ASSUME NEW k \in 1 .. Len(channel), Sound(channel[k])
                 PROVE  \E j \in 1 .. Len(channel') : Sound(channel'[j]) /\ Tells(channel'[j], channel[k])
      OBVIOUS
    <3>1. k # 1
      BY <1>4, <1>7
    <3>2. k - 1 \in 1 .. Len(channel) - 1 /\ (k - 1) + 1 = k
      BY <1>2, <3>1
    <3>3. k - 1 \in 1 .. Len(channel') /\ channel'[k - 1] = channel[k]
      BY <2>2, <3>2
    <3>4. QED BY <3>3 DEF Tells
  <2>7. /\ damage' \in Nat /\ UNCHANGED <<mcCount, seqs>> /\ damage <= damage'
        /\ IsFiniteSet({}) /\ Cardinality({}) + damage <= damage'
    BY <1>2, <1>3, FS_EmptySet
  <2>8. Numbering(H, t)' /\ Waits(H, t, b)'
    BY <1>1, <1>2, <2>4, <2>5, <2>6, <2>7, OnTheWay
  <2>9. Followed(H, b)'
    BY <1>1, <1>2, <2>1, <2>7, FollowedStays
  <2>10. QED BY <2>8, <2>9 DEF NumberedOK
<1>8. QED BY <1>6, <1>7

LEMMA NumberedStep ==
    ASSUME AnyLinkOK, ~scene.disorder, NumberedOK, [Next]_vars
    PROVE  NumberedOK'
<1>1. SenderOK /\ damage \in Nat /\ scene.channels \subseteq VCs
  BY LinkAssumption DEF AnyLinkOK, SendingOK, CountingOK, Scene
<1>2. CASE PackPacket \/ FlushChannel \/ DrainPackets \/ UNCHANGED vars
  <2>1. UNCHANGED <<channel, mcCount, seqs, damage, lastMc, lastFrame, lastCount, vcGaps, mcGaps>>
    BY <1>2 DEF PackPacket, Pack, FlushChannel, Flush, Queue, DrainPackets, Drain, Extract,
          DrainLosesSync, DrainEnds, vars, framer, deframer, link
  <2>2. QED BY <1>1, <2>1, NumberedStays
<1>3. CASE SendFrame
  <2>1. PICK v \in VCs : /\ EmitFrame(v) /\ channel' = Append(channel, NextFrame(v))
                         /\ UNCHANGED <<deframer, damage, lastFrame>>
    BY <1>3 DEF SendFrame, Send
  <2>2. PICK f : f = NextFrame(v)
    OBVIOUS
  <2>3. /\ seqs' = [seqs EXCEPT ![v] = @ + 1]
        /\ FrameOK(f)' /\ f.vc = v /\ f.seq = seqs[v]
    BY <1>1, <2>1, <2>2, EmitKeepsSender
  <2>4. f \in Frame /\ f.count = f.seq % Modulus
    BY <2>3 DEF FrameOK
  <2>5. Sound(f) /\ f.mc = mcCount /\ mcCount' = Successor(mcCount)
    BY <2>1, <2>2 DEF NextFrame, MakeFrame, Sound, EmitFrame, Count
  <2>6. UNCHANGED <<damage, lastMc, lastFrame, lastCount, vcGaps, mcGaps>>
    BY <2>1 DEF deframer
  <2>7. QED BY <2>1, <2>2, <2>3, <2>4, <2>5, <2>6, NumberedSent
<1>4. CASE SendIdle
  <2>1. PICK v \in VCs : /\ EmitIdle(v) /\ channel' = Append(channel, MakeFrame(v, OnlyIdle, <<>>))
                         /\ UNCHANGED <<deframer, damage, lastFrame>>
    BY <1>1, <1>4 DEF SendIdle, Send
  <2>2. PICK f : f = MakeFrame(v, OnlyIdle, <<>>)
    OBVIOUS
  <2>3. /\ seqs' = [seqs EXCEPT ![v] = @ + 1]
        /\ FrameOK(f)' /\ f.vc = v /\ f.seq = seqs[v]
    BY <1>1, <2>1, <2>2, IdleKeepsSender
  <2>4. f \in Frame /\ f.count = f.seq % Modulus
    BY <2>3 DEF FrameOK
  <2>5. Sound(f) /\ f.mc = mcCount /\ mcCount' = Successor(mcCount)
    BY <2>1, <2>2 DEF MakeFrame, Sound, EmitIdle, Count
  <2>6. UNCHANGED <<damage, lastMc, lastFrame, lastCount, vcGaps, mcGaps>>
    BY <2>1 DEF deframer
  <2>7. QED BY <2>1, <2>2, <2>3, <2>4, <2>5, <2>6, NumberedSent
<1>5. CASE Lose
  BY <1>5, NumberedLost
<1>6. CASE Damage \/ Mispoint
  BY <1>6, NumberedMarked
<1>7. CASE Duplicate
  BY <1>7 DEF Duplicate
<1>8. CASE Stray
  BY <1>8, NumberedStray
<1>9. CASE Lagged
  BY <1>9, NumberedLagged
<1>10. CASE Receive
  BY <1>10, NumberedReceived
<1>11. QED BY <1>2, <1>3, <1>4, <1>5, <1>6, <1>7, <1>8, <1>9, <1>10 DEF Next

LEMMA NumberedInit == Init => NumberedOK
<1> SUFFICES ASSUME Init PROVE NumberedOK
  OBVIOUS
<1>1. /\ mcCount = 0 /\ seqs = [v \in VCs |-> 0] /\ channel = <<>> /\ damage = 0
      /\ lastMc = None /\ lastFrame = [v \in VCs |-> None] /\ lastCount = [v \in VCs |-> None]
      /\ vcGaps = 0 /\ mcGaps = 0
  BY DEF Init, FramerInit, DeframerInit
<1>2. PICK H : H = [n \in 0 .. -1 |-> [vc |-> None, seq |-> 0]]
  OBVIOUS
<1>3. Numbering(H, 0)
  <2>1. 0 = 0 % Modulus
    BY FormatAssumption
  <2>2. H \in [0 .. 0 - 1 -> [vc : VCs, seq : Nat]]
    <3>1. \A n \in 0 .. 0 - 1 : FALSE
      OBVIOUS
    <3>2. H = [n \in 0 .. 0 - 1 |-> [vc |-> None, seq |-> 0]]
      BY <1>2
    <3>3. QED BY <3>1, <3>2
  <2>3. QED BY <1>1, <2>1, <2>2 DEF Numbering
<1>4. Waits(H, 0, 0)
  <2>1. IsFiniteSet({}) /\ Cardinality({}) <= damage
    BY <1>1, FS_EmptySet
  <2>2. QED BY <1>1, <2>1 DEF Waits
<1>5. Followed(H, 0)
  BY <1>1 DEF Followed, Unbroken
<1>6. QED BY <1>3, <1>4, <1>5 DEF NumberedOK

\* On a link that keeps the order of its frames the gap counters of the deframer
\* tell the truth: none is counted when nothing is missing, and a channel's never
\* without the master channel's while fewer than Modulus frames are missing.
THEOREM CountersTellTheTruth == Spec => []GapsMeanLoss
<1> DEFINE Inv == AnyLinkOK /\ (~scene.disorder => NumberedOK)
<1>1. Init => Inv
  BY AnyLinkInit, NumberedInit
<1>2. Inv /\ [Next]_vars => Inv'
  BY AnyLinkStep, NumberedStep, SceneStays
<1>3. Inv => GapsMeanLoss
  <2> SUFFICES ASSUME AnyLinkOK, NumberedOK, ~scene.disorder
               PROVE  /\ damage = 0 => vcGaps = 0 /\ mcGaps = 0
                      /\ damage < Modulus /\ vcGaps > 0 => mcGaps > 0
    BY DEF GapsMeanLoss
  <2>1. PICK H, b : Followed(H, b)
    BY DEF NumberedOK
  <2>2. /\ damage = 0 => mcGaps = 0
        /\ damage < Modulus /\ mcGaps = 0 => vcGaps = 0
    BY <2>1 DEF Followed, Unbroken
  <2>3. mcGaps \in Nat /\ vcGaps \in Nat /\ (damage = 0 => damage < Modulus)
    BY FormatAssumption DEF AnyLinkOK, HeldOK
  <2>4. QED BY <2>2, <2>3
<1>4. QED BY <1>1, <1>2, <1>3, PTL DEF Spec
=============================================================================

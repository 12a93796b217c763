------------------------------- MODULE TmLink -------------------------------
(***************************************************************************)
(* A TmFrameBuilder and a TmDeframer joined by what lies between them: the *)
(* link, the UDP datagrams (one frame each) and the ingest channel of the  *)
(* gateway.  Frames are lost, damaged, duplicated and reordered, frames of *)
(* another spacecraft come in between, and a pipeline that falls behind    *)
(* misses frames and resets its deframer.                                  *)
(***************************************************************************)
EXTENDS TmFramer, TmDeframer

CONSTANTS
    Room,        \* bound: frames under way
    Scenes       \* bound: the links looked at

\* What may happen on a link: whether frames overtake and are duplicated, whether
\* framing.fecf is off and a wrong pointer goes unnoticed, how many faults there
\* are, and what is sent over it.
Scene == [disorder : BOOLEAN, unprotected : BOOLEAN, faults : Nat,
          channels : SUBSET VCs, sizes : SUBSET Sizes, packets : Nat, idle : BOOLEAN]

VARIABLES
    scene,       \* the link of this behaviour
    channel,     \* frames under way
    faults,      \* faults so far
    damage,      \* frames lost or damaged so far
    accepted,    \* what the frames accepted since the last reset carried
    lastFrame    \* the last one of them on each channel, None before the first

link == <<scene, channel, faults, damage, accepted, lastFrame>>
vars == <<framer, deframer, link>>

ASSUME LinkAssumption ==
    /\ Listed \subseteq VCs
    /\ Room \in Nat
    /\ \A s \in Scenes : s \in Scene
    /\ None \notin Nat \cup Frame

Init ==
    /\ FramerInit /\ DeframerInit
    /\ scene \in Scenes
    /\ channel = <<>> /\ faults = 0 /\ damage = 0
    /\ accepted = {} /\ lastFrame = [v \in VCs |-> None]

-----------------------------------------------------------------------------
(* The sender. *)

PackPacket == \E v \in scene.channels, len \in scene.sizes :
    packets[v] < scene.packets /\ Pack(v, len) /\ UNCHANGED <<deframer, link>>
FlushChannel == \E v \in VCs : Flush(v) /\ UNCHANGED <<deframer, link>>

Send(f) == Len(channel) < Room /\ channel' = Append(channel, f)

SendFrame == \E v \in VCs :
    /\ EmitFrame(v) /\ Send(NextFrame(v))
    /\ UNCHANGED <<deframer, scene, faults, damage, accepted, lastFrame>>

SendIdle == \E v \in scene.channels :
    /\ scene.idle
    /\ EmitIdle(v) /\ Send(MakeFrame(v, OnlyIdle, <<>>))
    /\ UNCHANGED <<deframer, scene, faults, damage, accepted, lastFrame>>

-----------------------------------------------------------------------------
(* What happens under way. *)

Faulty(n) == faults < scene.faults /\ faults' = faults + 1 /\ damage' = damage + n

Lose == \E i \in 1 .. Len(channel) :
    /\ Faulty(1)
    /\ channel' = RemoveAt(channel, i)
    /\ UNCHANGED <<framer, deframer, scene, accepted, lastFrame>>

\* The check sequence, or the header's version or flags, tell.
Damage == \E i \in 1 .. Len(channel) :
    /\ channel[i].ok
    /\ Faulty(1)
    /\ channel' = [channel EXCEPT ![i].ok = FALSE]
    /\ UNCHANGED <<framer, deframer, scene, accepted, lastFrame>>

\* The first header pointer changes to any other pointer.
Mispoint == \E i \in 1 .. Len(channel), p \in 0 .. DataLen :
    /\ scene.unprotected
    /\ channel[i].fhp \notin {OnlyIdle, p}
    /\ Faulty(1)
    /\ channel' = [channel EXCEPT ![i].fhp = p]
    /\ UNCHANGED <<framer, deframer, scene, accepted, lastFrame>>

Duplicate == \E i \in 1 .. Len(channel) :
    /\ scene.disorder
    /\ Faulty(0)
    /\ Send(channel[i])
    /\ UNCHANGED <<framer, deframer, scene, accepted, lastFrame>>

\* A frame of another spacecraft, on the same channel and with the same counts.
Stray == \E i \in 1 .. Len(channel) :
    /\ Faulty(0)
    /\ Send([channel[i] EXCEPT !.ours = FALSE])
    /\ UNCHANGED <<framer, deframer, scene, accepted, lastFrame>>

\* The pipeline is told that it missed n datagrams, the oldest ones.
Lagged == \E n \in 1 .. Len(channel) :
    /\ Faulty(n)
    /\ Reset
    /\ channel' = SubSeq(channel, n + 1, Len(channel))
    /\ accepted' = {} /\ lastFrame' = [v \in VCs |-> None]
    /\ UNCHANGED <<framer, scene>>

-----------------------------------------------------------------------------
(* The receiver. *)

\* The counter cannot tell a frame from the one a multiple of Modulus frames
\* earlier or later: fewer than that are lost, late or repeated in a row.
Window(f) ==
    IF Takes(f) /\ lastFrame[f.vc] # None
    THEN LET last == lastFrame[f.vc].seq IN f.seq \in last - Modulus + 2 .. last + Modulus
    ELSE TRUE

Span(f) == [vc |-> f.vc, seq |-> f.seq, lo |-> f.from, hi |-> f.from + Len(f.data)]

Note(f) ==
    IF Takes(f)
    THEN /\ accepted' = accepted \cup {Span(f)}
         /\ lastFrame' = [lastFrame EXCEPT ![f.vc] = f]
    ELSE UNCHANGED <<accepted, lastFrame>>

Receive == \E i \in 1 .. Len(channel) :
    /\ i = 1 \/ scene.disorder
    /\ Window(channel[i])
    /\ HandleFrame(channel[i])
    /\ Note(channel[i])
    /\ channel' = RemoveAt(channel, i)
    /\ UNCHANGED <<framer, scene, faults, damage>>

DrainPackets == Drain /\ UNCHANGED <<framer, link>>

Next ==
    \/ PackPacket \/ FlushChannel \/ SendFrame \/ SendIdle
    \/ Lose \/ Damage \/ Mispoint \/ Duplicate \/ Stray \/ Lagged
    \/ Receive \/ DrainPackets

Spec == Init /\ [][Next]_vars

-----------------------------------------------------------------------------
(* Properties. *)

Orderly == ~scene.disorder /\ ~scene.unprotected

Longest == CHOOSE n \in Sizes \cup {HdrLen + DataLen} :
              \A m \in Sizes \cup {HdrLen + DataLen} : m <= n

\* Types and bounds.  The one that could be wrong is of what the deframer holds:
\* on each channel less than one packet between frames, and less than a frame
\* more while one is taken, whatever it is sent.
TypeOK ==
    /\ scene \in Scenes
    /\ \A v \in VCs :
          /\ queued[v] \in Seq(Octet) /\ stream[v] \in Seq(Octet) /\ pending[v] \in Seq(Octet)
          /\ starts[v] \in Seq(Nat)
          /\ emitted[v] \in Nat /\ packets[v] \in Nat /\ seqs[v] \in Nat
          /\ frameCount[v] \in 0 .. Modulus - 1 /\ idles[v] \in 0 .. MaxIdle
          /\ inSync[v] \in BOOLEAN
          /\ lastCount[v] \in 0 .. Modulus - 1 \cup {None}
          /\ delivered[v] \in Seq(Seq(Octet))
          /\ lastFrame[v] \in Frame \cup {None}
    /\ mcCount \in 0 .. Modulus - 1
    /\ pc \in {"ready", "finish", "last"} /\ cur \in VCs \cup {None}
    /\ pc # "ready" => cur \in VCs
    /\ rest \in Seq(Octet)
    /\ lastMc \in 0 .. Modulus - 1 \cup {None}
    /\ vcGaps \in Nat /\ mcGaps \in Nat /\ dropped \in Nat
    /\ channel \in Seq(Frame) /\ Len(channel) <= Room
    /\ faults \in 0 .. scene.faults /\ damage \in Nat
    /\ accepted \subseteq [vc : VCs, seq : Nat, lo : Nat, hi : Nat]
    /\ \A v \in VCs :
          Len(pending[v]) < Longest + IF pc = "ready" THEN 0 ELSE DataLen

\* Whatever is lost, doubled, reordered or missed, what is emitted is a packet
\* that was packed on that channel, whole: octets of two packets never meet.
NeverSpliced ==
    ~scene.unprotected => \A v \in VCs : \A s \in ToSet(delivered[v]) :
        s = Octets(s[1].pkt) /\ s[1] \in ToSet(stream[v]) /\ ~s[1].pkt.idle

\* The octets from lo to hi of a channel came in frames that were all accepted,
\* with no frame of the channel missing between them.
Arrived(v, lo, hi) ==
    \E a, b \in accepted :
        /\ a.vc = v /\ b.vc = v /\ a.lo <= lo /\ hi <= b.hi
        /\ \A s \in a.seq .. b.seq : \E c \in accepted : c.vc = v /\ c.seq = s

\* A frame lost costs the packets it carries a part of and no other: a packet
\* whose own frames arrived is emitted, whatever happened before and after.
LossIsLocal ==
    pc = "ready" /\ Orderly => \A v \in VCs : \A i \in 1 .. Len(stream[v]) :
        LET p == stream[v][i].pkt IN
        stream[v][i].at = 0 /\ ~p.idle /\ Arrived(v, i - 1, i - 1 + p.len)
            => Octets(p) \in ToSet(delivered[v])

\* A discontinuity is counted only when frames are missing, and a channel's never
\* without the master channel's, as long as frames keep their order and fewer are
\* missing than the master channel's counter can tell.
GapsMeanLoss == ~scene.disorder =>
    /\ damage = 0 => vcGaps = 0 /\ mcGaps = 0
    /\ damage < Modulus /\ vcGaps > 0 => mcGaps > 0

\* A wrong pointer does no lasting harm: after the next frame whose pointer is
\* right, what is pending is the start of a packet, from that frame's own data.
GarbageEndsAtPointer ==
    pc = "ready" => \A v \in VCs : lastFrame[v] # None =>
        LET f == lastFrame[v] IN
        f.fhp < Len(f.data) /\ f.data[f.fhp + 1].at = 0 =>
            /\ inSync[v]
            /\ \E k \in f.fhp .. Len(f.data) : pending[v] = SubSeq(f.data, k + 1, Len(f.data))
            /\ pending[v] # <<>> =>
                  pending[v][1].at = 0 /\ (Len(pending[v]) >= HdrLen => Len(pending[v]) < pending[v][1].pkt.len)

\* flush leaves nothing queued, as long as a frame has room for a header.
FlushSendsAll ==
    \A v \in VCs : Settled /\ DataLen > HdrLen /\ stream[v] # <<>> /\ Last(stream[v]).pkt.idle
        => queued[v] = <<>>

\* Each channel is a lossy queue of the packets packed on it, on a link that
\* keeps the order of frames and does not change their pointers.
Numbers == [v \in VCs |-> IF Orderly
                          THEN [k \in 1 .. Len(delivered[v]) |-> delivered[v][k][1].pkt.id]
                          ELSE <<>>]
Packed == [v \in VCs |-> IF Orderly THEN packets[v] ELSE 0]
Link == INSTANCE PacketLink WITH Channels <- VCs, sent <- Packed, got <- Numbers
IsPacketLink == Link!Spec
=============================================================================

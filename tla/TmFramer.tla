------------------------------ MODULE TmFramer ------------------------------
(***************************************************************************)
(* TmFrameBuilder of crates/gateway/src/frames.rs: packets of each virtual *)
(* channel are queued and cut into frames of DataLen octets, each pointing *)
(* at the first packet that starts in it.                                  *)
(***************************************************************************)
EXTENDS TmFormat

CONSTANTS
    MaxPackets,  \* bound: packets packed on one channel
    MaxIdle      \* bound: idle frames sent on one channel

ASSUME BoundAssumption == MaxPackets \in Nat /\ MaxIdle \in Nat

VARIABLES
    queued,      \* BuilderVc.queued
    starts,      \* BuilderVc.starts
    emitted,     \* BuilderVc.emitted
    frameCount,  \* BuilderVc.frame_count
    mcCount,     \* TmFrameBuilder.mc_count
    stream,      \* every octet queued on a channel so far
    packets,     \* number of packets queued on a channel so far
    seqs, idles  \* frames of a channel so far, and how many of them were idle

framer == <<queued, starts, emitted, frameCount, mcCount, stream, packets, seqs, idles>>

FramerInit ==
    /\ queued = [v \in VCs |-> <<>>]
    /\ starts = [v \in VCs |-> <<>>]
    /\ emitted = [v \in VCs |-> 0]
    /\ frameCount = [v \in VCs |-> 0]
    /\ mcCount = 0
    /\ stream = [v \in VCs |-> <<>>]
    /\ packets = [v \in VCs |-> 0]
    /\ seqs = [v \in VCs |-> 0]
    /\ idles = [v \in VCs |-> 0]

-----------------------------------------------------------------------------
\* A call of pack returns once no full frame is queued.
Settled == \A v \in VCs : Len(queued[v]) < DataLen

Queue(v, len, idle) ==
    LET p == [id |-> packets[v] + 1, len |-> len, idle |-> idle] IN
    /\ starts' = [starts EXCEPT ![v] = Append(@, emitted[v] + Len(queued[v]))]
    /\ queued' = [queued EXCEPT ![v] = @ \o Octets(p)]
    /\ stream' = [stream EXCEPT ![v] = @ \o Octets(p)]
    /\ packets' = [packets EXCEPT ![v] = @ + 1]
    /\ UNCHANGED <<emitted, frameCount, mcCount, seqs, idles>>

\* pack, called with one packet.
Pack(v, len) == Settled /\ packets[v] < MaxPackets /\ Queue(v, len, FALSE)

\* Mutant: an idle packet that spills is not made longer for it.
IdleLenUnspilt(room) == IF room > HdrLen THEN room ELSE HdrLen + 1

\* flush: an idle packet fills the last frame, and one more frame when the room
\* left is not enough for a header.  idle_packet never makes one shorter than a
\* header and an octet.
IdleLen(room) ==
    LET len == IF room > HdrLen THEN room ELSE room + DataLen IN
    IF len > HdrLen THEN len ELSE HdrLen + 1

Flush(v) ==
    /\ Settled /\ queued[v] # <<>> /\ packets[v] <= MaxPackets
    /\ Queue(v, IdleLen(DataLen - (Len(queued[v]) % DataLen)), TRUE)

\* frame: the header with this channel's and the master channel's count.
MakeFrame(v, fhp, data) ==
    [vc |-> v, mc |-> mcCount, count |-> frameCount[v], fhp |-> fhp, data |-> data,
     ours |-> TRUE, ok |-> TRUE, seq |-> seqs[v], from |-> emitted[v]]

Count(v) ==
    /\ mcCount' = Successor(mcCount)
    /\ frameCount' = [frameCount EXCEPT ![v] = Successor(@)]
    /\ seqs' = [seqs EXCEPT ![v] = @ + 1]

\* Starts that earlier frames have passed are forgotten, from the front.
Ahead(v) ==
    LET passed == {i \in DOMAIN starts[v] : \A j \in 1 .. i : starts[v][j] < emitted[v]}
    IN SubSeq(starts[v], Cardinality(passed) + 1, Len(starts[v]))

\* Mutant: the last start in the frame is pointed at instead of the first.
PointerToLast(v) ==
    LET here == SelectSeq(Ahead(v), LAMBDA s : s < emitted[v] + DataLen) IN
    IF here = <<>> THEN NoStart ELSE Last(here) - emitted[v]

\* The First Header Pointer of the next frame.
Pointer(v) ==
    IF Ahead(v) # <<>> /\ Head(Ahead(v)) < emitted[v] + DataLen
    THEN Head(Ahead(v)) - emitted[v]
    ELSE NoStart

NextFrame(v) == MakeFrame(v, Pointer(v), SubSeq(queued[v], 1, DataLen))

\* emit_frame: one turn of pack's loop.
EmitFrame(v) ==
    /\ Len(queued[v]) >= DataLen
    /\ starts' = [starts EXCEPT ![v] = Ahead(v)]
    /\ queued' = [queued EXCEPT ![v] = SubSeq(@, DataLen + 1, Len(@))]
    /\ emitted' = [emitted EXCEPT ![v] = @ + DataLen]
    /\ Count(v)
    /\ UNCHANGED <<stream, packets, idles>>

\* idle_frame: counted, and carries nothing.
EmitIdle(v) ==
    /\ Settled /\ idles[v] < MaxIdle
    /\ idles' = [idles EXCEPT ![v] = @ + 1]
    /\ Count(v)
    /\ UNCHANGED <<queued, starts, emitted, stream, packets>>
=============================================================================

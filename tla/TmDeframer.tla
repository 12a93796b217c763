----------------------------- MODULE TmDeframer -----------------------------
(***************************************************************************)
(* TmDeframer of crates/gateway/src/frames.rs, from a frame that has been  *)
(* cut from its datagram to the packets it completes.                      *)
(*                                                                         *)
(* A turn of the loop in drain_packets is a step; "pc" says which of       *)
(* accept's two drains is running, and no frame is taken while one is.     *)
(***************************************************************************)
EXTENDS TmFormat

CONSTANTS
    Listed,   \* framing.virtual_channels, those that are not filtered out
    None      \* no frame counted yet

VARIABLES
    pc,         \* "ready", or in accept's drain: "finish" (up to the pointer), "last"
    cur,        \* virtual channel of the frame in accept
    rest,       \* the frame's data from its pointer on, while "finish" runs
    pending,    \* VcState.pending
    inSync,     \* VcState.in_sync
    lastCount,  \* VcState.last_count
    lastMc,     \* TmDeframer.last_mc
    delivered,  \* what was emitted on each channel
    vcGaps, mcGaps, dropped   \* FramingStats: vc_frame_gaps, mc_frame_gaps, packets_dropped

deframer == <<pc, cur, rest, pending, inSync, lastCount, lastMc, delivered, vcGaps, mcGaps, dropped>>

DeframerInit ==
    /\ pc = "ready" /\ cur = None /\ rest = <<>>
    /\ pending = [v \in VCs |-> <<>>]
    /\ inSync = [v \in VCs |-> FALSE]
    /\ lastCount = [v \in VCs |-> None]
    /\ lastMc = None
    /\ delivered = [v \in VCs |-> <<>>]
    /\ vcGaps = 0 /\ mcGaps = 0 /\ dropped = 0

-----------------------------------------------------------------------------
(* accept, up to its first call of drain_packets. *)

Breaks(last, count) == last # None /\ count # Successor(last)
OneIf(b) == IF b THEN 1 ELSE 0

\* Mutant: a frame of another spacecraft is counted on the master channel.
CountMasterFirst(f) ==
    /\ mcGaps' = mcGaps + OneIf(Breaks(lastMc, f.mc))
    /\ lastMc' = f.mc

\* The master channel's count is followed on every frame of this spacecraft.
CountMaster(f) ==
    /\ mcGaps' = mcGaps + OneIf(f.ours /\ Breaks(lastMc, f.mc))
    /\ lastMc' = IF f.ours THEN f.mc ELSE lastMc

\* A frame that is accepted, and what a gap before it leaves of its channel.
Takes(f) == pc = "ready" /\ f.ok /\ f.ours /\ f.vc \in Listed
Gap(f) == Breaks(lastCount[f.vc], f.count)
Held(f) == IF Gap(f) THEN <<>> ELSE pending[f.vc]

\* Mutant: a gap empties the channel but leaves it in sync.
SyncedThroughGap(f) == inSync[f.vc]

Synced(f) == inSync[f.vc] /\ ~Gap(f)

Counted(f) ==
    /\ CountMaster(f)
    /\ vcGaps' = vcGaps + OneIf(Gap(f))
    /\ lastCount' = [lastCount EXCEPT ![f.vc] = f.count]

Leave(f, octets, sync) ==
    /\ pending' = [pending EXCEPT ![f.vc] = octets]
    /\ inSync' = [inSync EXCEPT ![f.vc] = sync]

Continue(label, f, tail) == pc' = label /\ cur' = f.vc /\ rest' = tail

\* A frame that fails its checks.
Reject(f) == pc = "ready" /\ ~f.ok /\ UNCHANGED deframer

\* A frame of another spacecraft, or of a channel that is not listed.
Filter(f) ==
    /\ pc = "ready" /\ f.ok /\ (~f.ours \/ f.vc \notin Listed)
    /\ CountMaster(f)
    /\ UNCHANGED <<pc, cur, rest, pending, inSync, lastCount, delivered, vcGaps, dropped>>

AcceptIdle(f) ==
    /\ Takes(f) /\ f.fhp = OnlyIdle
    /\ Counted(f)
    /\ Leave(f, Held(f), Synced(f))
    /\ dropped' = dropped + OneIf(Gap(f) /\ pending[f.vc] # <<>>)
    /\ UNCHANGED <<pc, cur, rest, delivered>>

\* The pointer is past the end of the data.
AcceptBadPointer(f) ==
    /\ Takes(f) /\ f.fhp \notin {OnlyIdle, NoStart} /\ f.fhp >= Len(f.data)
    /\ Counted(f)
    /\ Leave(f, <<>>, FALSE)
    /\ dropped' = dropped + OneIf(pending[f.vc] # <<>>)
    /\ UNCHANGED <<pc, cur, rest, delivered>>

\* Mutant: what completes in a frame without a start waits for the next one.
AcceptNoStartUndrained(f) ==
    /\ Takes(f) /\ f.fhp = NoStart
    /\ Counted(f)
    /\ Leave(f, IF Synced(f) THEN Held(f) \o f.data ELSE Held(f), Synced(f))
    /\ dropped' = dropped + OneIf(Gap(f) /\ pending[f.vc] # <<>>)
    /\ UNCHANGED <<pc, cur, rest, delivered>>

\* No packet starts here: more of the packet in progress, if there is one.
AcceptNoStart(f) ==
    /\ Takes(f) /\ f.fhp = NoStart
    /\ Counted(f)
    /\ \/ /\ Synced(f)
          /\ Leave(f, Held(f) \o f.data, TRUE)
          /\ Continue("last", f, <<>>)
       \/ /\ ~Synced(f)
          /\ Leave(f, Held(f), FALSE)
          /\ UNCHANGED <<pc, cur, rest>>
    /\ dropped' = dropped + OneIf(Gap(f) /\ pending[f.vc] # <<>>)
    /\ UNCHANGED delivered

\* Mutant: the pointer is used to find a packet only when out of sync.
AcceptPointerOnce(f) ==
    /\ Takes(f) /\ f.fhp < Len(f.data)
    /\ Counted(f)
    /\ Leave(f, IF Synced(f) THEN Held(f) \o f.data ELSE SubSeq(f.data, f.fhp + 1, Len(f.data)), TRUE)
    /\ Continue("last", f, <<>>)
    /\ dropped' = dropped + OneIf(Gap(f) /\ pending[f.vc] # <<>>)
    /\ UNCHANGED delivered

\* A packet starts here: what is before the pointer finishes the packet in
\* progress, what follows starts afresh.
AcceptPointer(f) ==
    /\ Takes(f) /\ f.fhp < Len(f.data)
    /\ Counted(f)
    /\ \/ /\ Synced(f)
          /\ Leave(f, Held(f) \o SubSeq(f.data, 1, f.fhp), TRUE)
          /\ Continue("finish", f, SubSeq(f.data, f.fhp + 1, Len(f.data)))
       \/ /\ ~Synced(f)
          /\ Leave(f, SubSeq(f.data, f.fhp + 1, Len(f.data)), TRUE)
          /\ Continue("last", f, <<>>)
    /\ dropped' = dropped + OneIf(Gap(f) /\ pending[f.vc] # <<>>)
    /\ UNCHANGED delivered

HandleFrame(f) ==
    \/ Reject(f) \/ Filter(f)
    \/ AcceptIdle(f) \/ AcceptBadPointer(f) \/ AcceptNoStart(f) \/ AcceptPointer(f)

-----------------------------------------------------------------------------
(* drain_packets. *)

\* What the octets at the front read as: the header they are, or any.
Reading == [version0 : BOOLEAN, len : Sizes, idle : BOOLEAN]
Intact(s) == \A i \in 1 .. HdrLen : s[i] = [pkt |-> s[1].pkt, at |-> i - 1]
Readings(s) ==
    IF Intact(s) THEN {[version0 |-> TRUE, len |-> s[1].pkt.len, idle |-> s[1].pkt.idle]}
    ELSE Reading

HasHeader == pc # "ready" /\ Len(pending[cur]) >= HdrLen

\* Mutant: only the header of an emitted packet is taken off.
ExtractHeader ==
    /\ HasHeader
    /\ \E h \in Readings(pending[cur]) :
          /\ h.version0 /\ Len(pending[cur]) >= h.len
          /\ pending' = [pending EXCEPT ![cur] = SubSeq(@, HdrLen + 1, Len(@))]
          /\ delivered' = [delivered EXCEPT ![cur] =
                             IF h.idle THEN @ ELSE Append(@, SubSeq(pending[cur], 1, h.len))]
    /\ UNCHANGED <<pc, cur, rest, inSync, lastCount, lastMc, vcGaps, mcGaps, dropped>>

\* A complete packet is emitted, unless it is an idle packet.
Extract ==
    /\ HasHeader
    /\ \E h \in Readings(pending[cur]) :
          /\ h.version0 /\ Len(pending[cur]) >= h.len
          /\ pending' = [pending EXCEPT ![cur] = SubSeq(@, h.len + 1, Len(@))]
          /\ delivered' = [delivered EXCEPT ![cur] =
                             IF h.idle THEN @ ELSE Append(@, SubSeq(pending[cur], 1, h.len))]
    /\ UNCHANGED <<pc, cur, rest, inSync, lastCount, lastMc, vcGaps, mcGaps, dropped>>

\* Not a packet version: this is not a packet boundary.
DrainLosesSync ==
    /\ HasHeader
    /\ \E h \in Readings(pending[cur]) : ~h.version0
    /\ pending' = [pending EXCEPT ![cur] = <<>>]
    /\ inSync' = [inSync EXCEPT ![cur] = FALSE]
    /\ dropped' = dropped + 1
    /\ UNCHANGED <<pc, cur, rest, lastCount, lastMc, delivered, vcGaps, mcGaps>>

\* The front is no complete packet.  After the first drain, what is left over
\* disagrees with the pointer and is dropped.
DrainEnds ==
    /\ pc # "ready"
    /\ HasHeader => \E h \in Readings(pending[cur]) : h.version0 /\ Len(pending[cur]) < h.len
    /\ \/ /\ pc = "finish"
          /\ pending' = [pending EXCEPT ![cur] = rest]
          /\ inSync' = [inSync EXCEPT ![cur] = TRUE]
          /\ dropped' = dropped + OneIf(pending[cur] # <<>>)
          /\ pc' = "last" /\ rest' = <<>>
       \/ /\ pc = "last"
          /\ pc' = "ready"
          /\ UNCHANGED <<pending, inSync, dropped, rest>>
    /\ UNCHANGED <<cur, lastCount, lastMc, delivered, vcGaps, mcGaps>>

Drain == Extract \/ DrainLosesSync \/ DrainEnds

\* reset, when the pipeline has missed datagrams.
Reset ==
    /\ pc = "ready"
    /\ pending' = [v \in VCs |-> <<>>]
    /\ inSync' = [v \in VCs |-> FALSE]
    /\ lastCount' = [v \in VCs |-> None]
    /\ lastMc' = None
    /\ UNCHANGED <<pc, cur, rest, delivered, vcGaps, mcGaps, dropped>>
=============================================================================

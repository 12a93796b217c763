------------------------------- MODULE AsmSync -------------------------------
(***************************************************************************)
(* TmDeframer::push_stream of crates/gateway/src/frames.rs: frames are cut *)
(* out of a byte stream by looking for the Attached Sync Marker.           *)
(*                                                                         *)
(* A byte has a value, which the search looks at, and the frame it belongs *)
(* to with its place in it (0 in the marker), which stand for what the     *)
(* frame checks look at: bytes pass as a frame exactly when they are one,  *)
(* whole and undamaged.                                                    *)
(* A turn of push_stream's loop is a step.                                 *)
(***************************************************************************)
EXTENDS Integers, Sequences, FiniteSets, SequencesExt

CONSTANTS
    Marker,     \* ASM, a sequence of byte values
    FrameLen,   \* framing.frame_length
    Values,     \* byte values
    MaxFrames,  \* bound: frames sent
    MaxNoise,   \* bound: bytes between frames, bytes changed or lost, and resets
    MaxBytes    \* bound: bytes in a datagram

\* The marker has no border: no proper suffix of it is a prefix (1ACFFC1D has none).
ASSUME AsmAssumption ==
    /\ Marker \in Seq(Values) /\ Marker # <<>>
    /\ FrameLen \in Nat \ {0}
    /\ MaxFrames \in Nat /\ MaxNoise \in Nat /\ MaxBytes \in Nat
    /\ \A k \in 1 .. Len(Marker) - 1 :
          SubSeq(Marker, 1, k) # SubSeq(Marker, Len(Marker) - k + 1, Len(Marker))

VARIABLES
    wire,        \* bytes sent that are in no datagram yet
    frames,      \* number of frames sent
    noise,       \* noise so far
    seen,        \* bytes of the datagrams pushed since the last reset
    before,      \* handled and discarded at the last reset
    pc,          \* "ready", or "scan" in push_stream's loop
    stream,      \* TmDeframer.stream, from pos on
    handled,     \* frames that passed
    discarded,   \* FramingStats.bytes_discarded
    bad          \* FramingStats.frames_crc_error and frames_invalid

link == <<wire, frames, noise, seen, before>>
syncVars == <<link, pc, stream, handled, discarded, bad>>

Byte == [val : Values, frame : 0 .. MaxFrames, at : 0 .. FrameLen]
Noise(v) == [val |-> v, frame |-> 0, at |-> 0]
MarkerBytes(n) == [i \in 1 .. Len(Marker) |-> [val |-> Marker[i], frame |-> n, at |-> 0]]
FrameBytes(n, data) == [i \in 1 .. FrameLen |-> [val |-> data[i], frame |-> n, at |-> i]]

-----------------------------------------------------------------------------
SyncInit ==
    /\ wire = <<>> /\ frames = 0 /\ noise = 0 /\ seen = <<>>
    /\ before = [handled |-> <<>>, discarded |-> 0]
    /\ pc = "ready" /\ stream = <<>> /\ handled = <<>> /\ discarded = 0 /\ bad = 0

\* to_cadu: a marker and a frame, whose data may look like a marker.
SendFrame ==
    /\ frames < MaxFrames
    /\ frames' = frames + 1
    /\ \E data \in [1 .. FrameLen -> Values] :
          wire' = wire \o MarkerBytes(frames + 1) \o FrameBytes(frames + 1, data)
    /\ UNCHANGED <<noise, seen, before, pc, stream, handled, discarded, bad>>

Noisy == noise < MaxNoise /\ noise' = noise + 1

SendNoise ==
    /\ Noisy
    /\ \E v \in Values : wire' = Append(wire, Noise(v))
    /\ UNCHANGED <<frames, seen, before, pc, stream, handled, discarded, bad>>

\* One byte of marker or frame arrives with another value, or none at all.
Damage ==
    /\ wire # <<>> /\ Noisy
    /\ \E i \in 1 .. Len(wire) :
          \/ \E v \in Values \ {wire[i].val} : wire' = [wire EXCEPT ![i] = Noise(v)]
          \/ wire' = RemoveAt(wire, i)
    /\ UNCHANGED <<frames, seen, before, pc, stream, handled, discarded, bad>>

\* push: a datagram with the next bytes, cut anywhere.  It may hold the end of
\* one frame, what lies between, and the start of the next, or several frames.
Push ==
    /\ pc = "ready"
    /\ \E n \in 1 .. Len(wire) :
          /\ n <= MaxBytes
          /\ stream' = stream \o SubSeq(wire, 1, n)
          /\ seen' = seen \o SubSeq(wire, 1, n)
          /\ wire' = SubSeq(wire, n + 1, Len(wire))
    /\ pc' = "scan"
    /\ UNCHANGED <<frames, noise, before, handled, discarded, bad>>

\* reset: the pipeline has missed datagrams and drops what is buffered.
Reset ==
    /\ pc = "ready" /\ Noisy
    /\ \E n \in 1 .. Len(wire) : wire' = SubSeq(wire, n + 1, Len(wire))
    /\ stream' = <<>>
    /\ seen' = <<>>
    /\ before' = [handled |-> handled, discarded |-> discarded]
    /\ UNCHANGED <<frames, pc, handled, discarded, bad>>

-----------------------------------------------------------------------------
(* The loop. *)

\* find_asm: where in s markers are, as the number of bytes before them.
IsMarker(s, i) == \A k \in 1 .. Len(Marker) : s[i + k].val = Marker[k]
Found(s) == {i \in 0 .. Len(s) - Len(Marker) : Len(s) >= Len(Marker) /\ IsMarker(s, i)}
First(s) == CHOOSE i \in Found(s) : \A j \in Found(s) : i <= j

Drop(s, n) == SubSeq(s, n + 1, Len(s))
Candidate(s) == SubSeq(Drop(s, First(s) + Len(Marker)), 1, FrameLen)
Enough(s) == Len(s) >= First(s) + Len(Marker) + FrameLen

\* handle_frame: the check sequence, lengths and header are in order.
Passes(c) == \A i \in 1 .. FrameLen : c[i].frame = c[1].frame /\ c[i].at = i

\* Bytes kept when no marker is found: they may be the start of one.
TailKept(s) == Drop(s, IF Len(s) > Len(Marker) - 1 THEN Len(s) - (Len(Marker) - 1) ELSE 0)

NoMarker ==
    /\ pc = "scan" /\ Found(stream) = {}
    /\ stream' = TailKept(stream)
    /\ discarded' = discarded + Len(stream) - Len(TailKept(stream))
    /\ pc' = "ready"
    /\ UNCHANGED <<link, handled, bad>>

\* Wait for the rest of the frame.
Incomplete ==
    /\ pc = "scan" /\ Found(stream) # {} /\ ~Enough(stream)
    /\ stream' = Drop(stream, First(stream))
    /\ discarded' = discarded + First(stream)
    /\ pc' = "ready"
    /\ UNCHANGED <<link, handled, bad>>

\* Mutant: what follows a frame that passed is dropped with it.
GoodFrameLast ==
    /\ pc = "scan" /\ Found(stream) # {} /\ Enough(stream)
    /\ Passes(Candidate(stream))
    /\ handled' = Append(handled, Candidate(stream)[1].frame)
    /\ stream' = <<>>
    /\ discarded' = discarded + First(stream)
    /\ UNCHANGED <<link, pc, bad>>

\* The search goes on behind the frame, in what the datagram still holds.
GoodFrame ==
    /\ pc = "scan" /\ Found(stream) # {} /\ Enough(stream)
    /\ Passes(Candidate(stream))
    /\ handled' = Append(handled, Candidate(stream)[1].frame)
    /\ stream' = Drop(stream, First(stream) + Len(Marker) + FrameLen)
    /\ discarded' = discarded + First(stream)
    /\ UNCHANGED <<link, pc, bad>>

\* Mutant: the search goes on after the frame that did not pass.
BadFrameSkipped ==
    /\ pc = "scan" /\ Found(stream) # {} /\ Enough(stream)
    /\ ~Passes(Candidate(stream))
    /\ bad' = bad + 1
    /\ stream' = Drop(stream, First(stream) + Len(Marker) + FrameLen)
    /\ discarded' = discarded + First(stream)
    /\ UNCHANGED <<link, pc, handled>>

\* The search goes on just past the start of the marker: the frame that did not
\* pass may hold the next one.
BadFrame ==
    /\ pc = "scan" /\ Found(stream) # {} /\ Enough(stream)
    /\ ~Passes(Candidate(stream))
    /\ bad' = bad + 1
    /\ stream' = Drop(stream, First(stream) + 1)
    /\ discarded' = discarded + First(stream)
    /\ UNCHANGED <<link, pc, handled>>

Scan == NoMarker \/ Incomplete \/ GoodFrame \/ BadFrame
SyncNext == SendFrame \/ SendNoise \/ Damage \/ Push \/ Reset \/ Scan
SyncSpec == SyncInit /\ [][SyncNext]_syncVars

-----------------------------------------------------------------------------
(* Properties. *)

\* Where an undamaged frame and its marker start in s.
Whole(s, n, i) ==
    /\ i + Len(Marker) + FrameLen <= Len(s)
    /\ IsMarker(s, i)
    /\ \A k \in 1 .. Len(Marker) : s[i + k].frame = n /\ s[i + k].at = 0
    /\ \A k \in 1 .. FrameLen :
          s[i + Len(Marker) + k].frame = n /\ s[i + Len(Marker) + k].at = k

\* No undamaged frame is passed over, whatever noise, false markers and damaged
\* frames precede it and wherever datagrams are cut; and none is handled twice.
UndamagedFramesFound ==
    /\ \A n \in 1 .. frames : \A i \in 0 .. Len(seen) - Len(stream) - 1 :
          Whole(seen, n, i) => n \in ToSet(handled)
    /\ \A j, k \in 1 .. Len(handled) : j < k => handled[j] < handled[k]

\* What a search of all the bytes from n on finds, when one from k finds later[k].
Turn(all, later, n) ==
    LET s == Drop(all, n)
        ok == Passes(Candidate(s))
        rest == later[n + First(s) + IF ok THEN Len(Marker) + FrameLen ELSE 1]
    IN IF Found(s) = {}
       THEN [handled |-> <<>>, stream |-> TailKept(s), discarded |-> Len(s) - Len(TailKept(s))]
       ELSE IF ~Enough(s)
       THEN [handled |-> <<>>, stream |-> Drop(s, First(s)), discarded |-> First(s)]
       ELSE [handled |-> (IF ok THEN <<Candidate(s)[1].frame>> ELSE <<>>) \o rest.handled,
             stream |-> rest.stream,
             discarded |-> First(s) + rest.discarded]
Searches(all) == LET go[n \in 0 .. Len(all)] == Turn(all, go, n) IN go
InOneGo == Searches(seen)[0]

\* What was found, discarded and kept depends on the bytes pushed and not on how
\* they were cut into datagrams: it is what one push of all of them gives, and
\* what is kept stays shorter than a marker and a frame.
CutsInvisible ==
    pc = "ready" =>
        LET once == InOneGo IN
        /\ handled = before.handled \o once.handled
        /\ discarded = before.discarded + once.discarded
        /\ stream = once.stream
        /\ Len(stream) < Len(Marker) + FrameLen
=============================================================================

------------------------------ MODULE TmFormat ------------------------------
(***************************************************************************)
(* What the framer and the deframer of crates/gateway/src/frames.rs share: *)
(* Space Packets and their octets, and TM Transfer Frames.                 *)
(*                                                                         *)
(* An octet is the packet it belongs to and its place in it.  Where the    *)
(* code reads a header field, the model reads it from the octets that      *)
(* carry it: a header that is not the start of one packet reads as any.    *)
(***************************************************************************)
EXTENDS Integers, Sequences, FiniteSets, SequencesExt

CONSTANTS
    VCs,       \* virtual channels in use, of the eight a frame can name
    HdrLen,    \* PACKET_HEADER_LEN, 6 in the code
    DataLen,   \* octets of packet data in a frame (data_field_len)
    Modulus,   \* of the frame counters, 256 in the code
    Sizes      \* packet lengths, header included

ASSUME FormatAssumption ==
    /\ HdrLen \in Nat \ {0}
    /\ DataLen \in 2 .. 2042
    /\ Modulus \in Nat \ {0, 1}
    /\ Sizes \subseteq Nat /\ \A n \in Sizes : n > HdrLen

\* A packet's length field is a u16 and holds one less than its octets of data.
PACKET_MAX_LEN == HdrLen + 65536
ASSUME LengthAssumption == \A n \in Sizes : n <= PACKET_MAX_LEN

NoStart == 2047     \* FHP_NO_PACKET_START
OnlyIdle == 2046    \* FHP_IDLE

\* Packets of a virtual channel are numbered in the order they were queued.
Packet == [id : Nat, len : Nat, idle : BOOLEAN]
Octet == [pkt : Packet, at : Nat]
Octets(p) == [i \in 1 .. p.len |-> [pkt |-> p, at |-> i - 1]]

\* Frame counters are u8 and wrap.
Successor(c) == (c + 1) % Modulus

\* A frame as it travels.  "ours" is false for another spacecraft's frame, "ok"
\* for one whose check sequence or header is bad.  "seq" (its place among the
\* frames of its channel) and "from" (where its data starts in the channel's
\* octets) are not in the frame: properties refer to them.
Frame == [vc : VCs, mc : Nat, count : Nat, fhp : Nat, data : Seq(Octet),
          ours : BOOLEAN, ok : BOOLEAN, seq : Nat, from : Nat]
=============================================================================

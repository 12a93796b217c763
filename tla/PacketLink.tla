------------------------------ MODULE PacketLink ------------------------------
(***************************************************************************)
(* What a link of TM frames promises as long as frames arrive in the order *)
(* they were sent: each virtual channel is a lossy queue.  The packets of  *)
(* a channel are numbered as sent, and each is delivered at most once, in  *)
(* order.                                                                  *)
(***************************************************************************)
EXTENDS Naturals, Sequences

CONSTANT Channels

VARIABLES
    sent,  \* how many packets were handed to each channel
    got    \* the numbers of those delivered, in the order of delivery

Init == sent = [v \in Channels |-> 0] /\ got = [v \in Channels |-> <<>>]

Send(v) == sent' = [sent EXCEPT ![v] = @ + 1] /\ UNCHANGED got

\* The packets skipped are lost for good.
Deliver(v) ==
    /\ \E n \in 1 .. sent[v] :
          /\ \A i \in 1 .. Len(got[v]) : got[v][i] < n
          /\ got' = [got EXCEPT ![v] = Append(@, n)]
    /\ UNCHANGED sent

Next == \E v \in Channels : Send(v) \/ Deliver(v)
Spec == Init /\ [][Next]_<<sent, got>>
=============================================================================

------------------------------ MODULE Channel ------------------------------
(***************************************************************************)
(* What the reliability layer of OpenVPN's control channel promises: a     *)
(* FIFO channel of bounded capacity, over which the packets one end writes *)
(* are delivered to the other end's TLS library once each and in order.    *)
(***************************************************************************)
EXTENDS Naturals, Sequences

CONSTANTS
    Data,      \* what a packet may hold
    Capacity   \* bound on the packets written and not yet delivered

VARIABLES sent, received

Init == sent = << >> /\ received = << >>

\* A TLS record is written as one or more packets.
Write == /\ sent' \in Seq(Data)
         /\ Len(sent) <= Len(sent') /\ SubSeq(sent', 1, Len(sent)) = sent
         /\ Len(sent') <= Len(received) + Capacity
         /\ UNCHANGED received

Deliver == /\ Len(received) < Len(sent)
           /\ received' = Append(received, sent[Len(received) + 1])
           /\ UNCHANGED sent

Next == Write \/ Deliver

Spec == Init /\ [][Next]_<<sent, received>>
=============================================================================

----------------------------- MODULE PacketQueue -----------------------------
(***************************************************************************)
(* What the packet ring promises: a bounded first-in first-out queue that  *)
(* loses a packet only when it is full, and then the new one.              *)
(***************************************************************************)
EXTENDS Naturals, Sequences

CONSTANTS Packets, Capacity

VARIABLE queue

TypeOK == queue \in Seq(Packets) /\ Len(queue) <= Capacity

Init == queue = <<>>

Full == Len(queue) = Capacity

Put(packet) == ~Full /\ queue' = Append(queue, packet)

Take == queue # <<>> /\ queue' = Tail(queue)

Next == Take \/ \E packet \in Packets : Put(packet)

Spec == Init /\ [][Next]_queue
=============================================================================

---------------------------- MODULE RxPacketRing ----------------------------
(***************************************************************************)
(* The ring between the network callback and the E1.31 receiver            *)
(* (ps/app/rx_packet_ring.c), and the callback that fills it (receive_udp  *)
(* in ps/app/ethernet_receiver.c).  Both ends run in the main loop, one    *)
(* after the other: the callback reserves a slot, fills it in place and    *)
(* commits it before it returns, so that is one step.  A packet stands for *)
(* a payload with its length, source and time stamp.                       *)
(***************************************************************************)
EXTENDS Integers

CONSTANTS
    RingDepth,   \* RX_PACKET_RING_DEPTH
    Packets,     \* what a slot can hold
    EmptySlot,   \* what it holds before the first packet
    CounterSpace \* number of values of a statistics counter: 2^32

ASSUME RingAssumption ==
    /\ RingDepth \in Nat \ {0}
    /\ CounterSpace \in Nat \ {0}

VARIABLES
    slots,       \* g_slots
    head,        \* g_head: where the next packet goes
    tail,        \* g_tail: where the next packet comes from
    depth,       \* g_depth
    high_water,  \* g_high_water
    dropped,     \* g_dropped
    processed,   \* g_processed
    rx_packets,  \* g_counters.rx_packets
    rx_oversized \* g_counters.rx_oversized

ringVars == <<slots, head, tail, depth, high_water, dropped, processed>>
vars == <<ringVars, rx_packets, rx_oversized>>

Positions == 0 .. RingDepth - 1
Counters == 0 .. CounterSpace - 1

TypeOK ==
    /\ slots \in [Positions -> Packets \cup {EmptySlot}]
    /\ head \in Positions
    /\ tail \in Positions
    /\ depth \in 0 .. RingDepth
    /\ high_water \in 0 .. RingDepth
    /\ dropped \in Counters
    /\ processed \in Counters
    /\ rx_packets \in Counters
    /\ rx_oversized \in Counters

Init ==
    /\ slots = [i \in Positions |-> EmptySlot]
    /\ head = 0 /\ tail = 0 /\ depth = 0 /\ high_water = 0
    /\ dropped = 0 /\ processed = 0
    /\ rx_packets = 0 /\ rx_oversized = 0

NextPosition(i) == (i + 1) % RingDepth

Count(counter) == (counter + 1) % CounterSpace

-----------------------------------------------------------------------------
(* Mutant: the packet a full ring loses is not counted.                    *)
DropUncounted == depth = RingDepth /\ UNCHANGED ringVars

(* rx_packet_ring_reserve on a full ring: the packet is lost and counted.  *)
Drop ==
    /\ depth = RingDepth
    /\ dropped' = Count(dropped)
    /\ UNCHANGED <<slots, head, tail, depth, high_water, processed>>

(* Mutant: the index runs to the end of the slots and one further.         *)
StoreUnwrapped(packet) ==
    /\ depth # RingDepth
    /\ slots' = [slots EXCEPT ![head] = packet]
    /\ head' = head + 1
    /\ depth' = depth + 1
    /\ high_water' = IF depth + 1 > high_water THEN depth + 1 ELSE high_water
    /\ UNCHANGED <<tail, dropped, processed>>

(* Mutant: a full ring overwrites the packet it received first.            *)
StoreOverwriting(packet) ==
    /\ slots' = [slots EXCEPT ![head] = packet]
    /\ head' = NextPosition(head)
    /\ depth' = IF depth = RingDepth THEN depth ELSE depth + 1
    /\ high_water' = IF depth' > high_water THEN depth' ELSE high_water
    /\ UNCHANGED <<tail, dropped, processed>>

(* rx_packet_ring_reserve and rx_packet_ring_commit_reserved.              *)
Store(packet) ==
    /\ depth # RingDepth
    /\ slots' = [slots EXCEPT ![head] = packet]
    /\ head' = NextPosition(head)
    /\ depth' = depth + 1
    /\ high_water' = IF depth + 1 > high_water THEN depth + 1 ELSE high_water
    /\ UNCHANGED <<tail, dropped, processed>>

(* receive_udp of a packet that fits a slot.                               *)
Receive ==
    /\ rx_packets' = Count(rx_packets)
    /\ Drop \/ \E packet \in Packets : Store(packet)
    /\ UNCHANGED rx_oversized

(* receive_udp of a larger one.                                            *)
ReceiveOversized ==
    /\ rx_packets' = Count(rx_packets)
    /\ rx_oversized' = Count(rx_oversized)
    /\ UNCHANGED ringVars

(* rx_packet_ring_dequeue.                                                 *)
Dequeue ==
    /\ depth > 0
    /\ tail' = NextPosition(tail)
    /\ depth' = depth - 1
    /\ processed' = Count(processed)
    /\ UNCHANGED <<slots, head, high_water, dropped, rx_packets, rx_oversized>>

Next == Receive \/ ReceiveOversized \/ Dequeue

Spec == Init /\ [][Next]_vars

-----------------------------------------------------------------------------
(* The packets in the ring, the oldest first.                              *)
Contents == [i \in 1 .. depth |-> slots[(tail + i - 1) % RingDepth]]

(* The ring is the queue it stands for, across every wrap of its indices   *)
(* and whether it is full or empty when they meet                          *)
(* (rx_packet_ring.c:24-55, 77-88).                                        *)
Queue == INSTANCE PacketQueue WITH Capacity <- RingDepth, queue <- Contents

QueueSpec == Queue!Spec

(* No packet is lost without trace: each one that reached receive_udp was  *)
(* handled, waits in the ring, or is in one of the two counters of lost    *)
(* packets, modulo 2^32 (ethernet_receiver.c:138-153).                     *)
EveryPacketAccounted ==
    rx_packets = (processed + depth + dropped + rx_oversized) % CounterSpace
=============================================================================

---------------------------- MODULE E131Reception ----------------------------
(***************************************************************************)
(* The receiver in its environment: packets of any sender in any order,    *)
(* lost, repeated or late as a network loses and repeats them, a PL that   *)
(* answers every commit as it likes, and time that passes in between.      *)
(***************************************************************************)
EXTENDS E131Receiver

VARIABLE now \* the time of the call, modulo TimeSpace

vars == <<receiverVars, now>>

TypeOK == ReceiverTypeOK /\ now \in Times

Init == ReceiverInit /\ now = 0

Tick == now' = (now + 1) % TimeSpace /\ UNCHANGED receiverVars

Terminated ==
    \E packet \in Senders : HandleTerminated(packet, now) /\ UNCHANGED now

WrongSlots ==
    \E packet \in Senders : HandleWrongSlots(packet, now) /\ UNCHANGED now

Universe ==
    \E packet \in DataPackets : HandleUniverse(packet, now) /\ UNCHANGED now

Sync == \E packet \in SyncPackets : HandleSync(packet, now) /\ UNCHANGED now

Poll == ReceiverPoll(now) /\ UNCHANGED now

Next == Tick \/ Terminated \/ WrongSlots \/ Universe \/ Sync \/ Poll

Spec == Init /\ [][Next]_vars

(* A receiver without a sender shows nothing: whenever no sender is        *)
(* locked, the last frame the PL took is black.                            *)
NoSourceIsBlack == ~source_locked => taken = BlackFrame
=============================================================================

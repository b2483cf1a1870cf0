------------------------- MODULE E131ReceptionProofs -------------------------
(***************************************************************************)
(* That a frame is one sweep and the bitmap tells the truth, whatever the  *)
(* network delivers and whatever the PL answers.                           *)
(***************************************************************************)
EXTENDS E131Reception, E131ReceiverProofs

(* The specification.                                                      *)

ReceptionInv == ReceiverInv /\ now \in Times

LEMMA ReceptionInit == Init => ReceptionInv
BY ReceiverInitInv, ReceiverAssumption DEF Init, ReceptionInv, Times

LEMMA ReceptionStep == ReceptionInv /\ [Next]_vars => ReceptionInv'
<1> SUFFICES ASSUME ReceptionInv, [Next]_vars PROVE ReceptionInv'
  OBVIOUS
<1> USE DEF ReceptionInv
<1>1. CASE Tick
  BY <1>1, ReceiverInvKept, ReceiverAssumption DEF Tick, Times
<1>2. CASE Terminated
  BY <1>2, TerminatedStep DEF Terminated
<1>3. CASE WrongSlots
  BY <1>3, WrongSlotsStep DEF WrongSlots, Senders, SenderOK
<1>4. CASE Universe
  BY <1>4, UniverseStep DEF Universe, DataPackets, PacketOK, SenderOK
<1>5. CASE Sync
  BY <1>5, SyncStep DEF Sync
<1>6. CASE Poll
  BY <1>6, PollStep DEF Poll
<1>7. CASE UNCHANGED vars
  BY <1>7, ReceiverInvKept DEF vars
<1> QED
  BY <1>1, <1>2, <1>3, <1>4, <1>5, <1>6, <1>7 DEF Next

LEMMA ReceptionCorrect == Spec => []ReceptionInv
BY ReceptionInit, ReceptionStep, PTL DEF Spec

(***************************************************************************)
(* Every variable of the receiver stays in its range.                      *)
(***************************************************************************)
THEOREM ReceptionTypeCorrect == Spec => []TypeOK
<1>1. ReceptionInv => TypeOK
  BY DEF ReceptionInv, ReceiverInv, TypeOK
<1> QED
  BY <1>1, ReceptionCorrect, PTL

(***************************************************************************)
(* Every frame the PL took is black or one sweep of one sender under one   *)
(* sync address, for any number of senders, addresses and universes, and   *)
(* whatever the commits return (e131_receiver.c:131-155, 211-219,          *)
(* 331-343).                                                               *)
(***************************************************************************)
THEOREM FramesAreSweeps == Spec => []FrameIsOneSweep
<1>1. ReceptionInv => FrameIsOneSweep
  BY DEF ReceptionInv, ReceiverInv
<1> QED
  BY <1>1, ReceptionCorrect, PTL

(***************************************************************************)
(* A universe the bitmap marks is in the buffer that will be committed,    *)
(* of the locked sender, the current sync address and this sweep           *)
(* (e131_receiver.c:175-187, 237, 373).                                    *)
(***************************************************************************)
THEOREM BitmapIsTrue == Spec => []BitmapMatchesBuffer
<1>1. ReceptionInv => BitmapMatchesBuffer
  BY DEF ReceptionInv, ReceiverInv
<1> QED
  BY <1>1, ReceptionCorrect, PTL
=============================================================================

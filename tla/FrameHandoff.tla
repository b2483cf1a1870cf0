---------------------------- MODULE FrameHandoff ----------------------------
(***************************************************************************)
(* The frame handoff: the PS driver against the PL, clock by clock.  Every *)
(* step is one PL clock cycle, in which the CPU makes at most one access;  *)
(* that is the only thing assumed of the relative speed of the two.        *)
(*                                                                         *)
(* Two history variables tell the frames apart: accepted[b] is the frame   *)
(* whose commit of bank b the PL accepted last, displayed what the lamps   *)
(* hold.  No action reads them.                                            *)
(***************************************************************************)
EXTENDS PlIngest

VARIABLES accepted, displayed

vars == <<psVars, plVars, accepted, displayed>>

Init ==
    /\ PlInit
    /\ PsInit
    /\ accepted = [b \in Banks |-> NoFrame]
    /\ displayed = {}

RecordHistory ==
    /\ accepted' = IF CommitAccepted(consumer_active_bank)
                   THEN [accepted EXCEPT ![commit_bank] = call.frame]
                   ELSE accepted
    /\ displayed' = IF tx_state = "TX_RESET" /\ tx_state' = "TX_IDLE"
                    THEN line ELSE displayed

Clock == PlClock /\ RecordHistory

PsAccess ==
    \/ SnapshotRead
    \/ InitEnd
    \/ ClearErrors
    \/ SelfTestEnd
    \/ EnableConsumer
    \/ BeforeEnd
    \/ WaitEnd
    \/ NotifyDrop
    \/ WriteWord
    \/ WriteMarker
    \/ ReadBack
    \/ WriteCommit
    \/ AfterEnd

Next ==
    \/ PsStall /\ Clock
    \/ CommitFrameCall /\ Clock
    \/ SnapshotRead /\ Clock
    \/ InitEnd /\ Clock
    \/ ClearErrors /\ Clock
    \/ SelfTestEnd /\ Clock
    \/ EnableConsumer /\ Clock
    \/ BeforeEnd /\ Clock
    \/ WaitEnd /\ Clock
    \/ NotifyDrop /\ Clock
    \/ WriteWord /\ Clock
    \/ WriteMarker /\ Clock
    \/ ReadBack /\ Clock
    \/ WriteCommit /\ Clock
    \/ AfterEnd /\ Clock

Spec == Init /\ [][Next]_vars

-----------------------------------------------------------------------------
(* Fairness.  The bus answers every access, so a CPU that has an access to *)
(* make makes it.  Nothing is assumed of the consumer in the specification;*)
(* the property that needs it says so: the counters of TX_SEND and         *)
(* TX_RESET are finite and the memory answers every read.                  *)
PsFairSpec == Spec /\ WF_vars(PsAccess /\ Clock)

ConsumerAdvances ==
    /\ Next
    /\ <<tx_state, config_scan, fetched>>' # <<tx_state, config_scan, fetched>>

-----------------------------------------------------------------------------
(* Types, and the bounds on what the registers and locals hold.            *)
TypeOK ==
    /\ PlTypeOK
    /\ PsTypeOK
    /\ accepted \in [Banks -> Frames \cup {NoFrame}]
    /\ displayed \in SUBSET (Frames \cup {NoFrame})

(* The driver owns the bank it chose from the moment it read               *)
(* WRITE_BANK_VALID as one until its commit takes effect.                  *)
Owning ==
    \/ pc \in {"before", "wait"} /\ step >= WriteBankValidRead /\ before.valid
    \/ pc \in {"write", "markers", "readback", "commit"}
    \/ commit_swmod

(* While the driver owns a bank, the consumer neither reads that bank nor  *)
(* has picked it: WRITE_BANK_VALID (pl_frame_control.sv:126) was read tens *)
(* of accesses ago (pl_ingest.c:134), and the consumer publishes the bank  *)
(* it picked only after it scanned the configuration                       *)
(* (ws281x_frame_consumer.sv:227), yet what was read stays true.           *)
WriterOwnsBank ==
    Owning /\ tx_state # "TX_IDLE" => tx_active_bank # before.bank

(* No frame is torn: all words sent come from one committed frame, the one *)
(* the PL accepted for the bank being read, however the next write of that *)
(* bank races the read (pl_ingest.c:421-435, consumer.sv:286-301).         *)
NoTornFrame ==
    tx_state \in Reading => line \subseteq {accepted[tx_active_bank]}

(* The handshake has no losers: the bank a driver chose is still the right *)
(* one when its commit arrives, so the PL refuses no commit and counts no  *)
(* rejection (pl_frame_control.sv:314-322).                                *)
CommitNeverRefused ==
    status \notin {"OVERFLOW", "COMMIT_REJECTED"} /\ frame_rejected = 0

(* Without faults of the consumer a call gives up only for lack of a free  *)
(* bank; in particular the second snapshot confirms every commit, though   *)
(* it is not atomic and the consumer moves while it is taken.              *)
OnlyFullBanksFail ==
    /\ result \in {"NONE", "OK", "NO_FREE_BANK"}
    /\ pc # "fatal"

(* The handoff is a channel of depth one in front of a display: every      *)
(* accepted frame is shown once, whole, in the order of the commits, and   *)
(* none is skipped.  A frame committed before the consumer is enabled      *)
(* counts as accepted when it is enabled.                                  *)
LastPicked == IF tx_state = "TX_IDLE" THEN consumer_sequence ELSE tx_sequence

Channel == INSTANCE FrameChannel WITH
    pending <- IF enable /\ frame_sequence # LastPicked
               THEN accepted[active_bank] ELSE NoFrame,
    showing <- IF tx_state = "TX_IDLE" THEN NoFrame ELSE accepted[tx_active_bank],
    shown   <- displayed

ChannelSpec == Channel!Spec

(* A commit call returns even if the serializer hangs: the wait for a bank *)
(* is bounded (pl_ingest.c:108-118), so the network loop never stops.      *)
CallReturns == pc = "before" ~> pc \in {"main", "fatal", "reset_fsm", "self_test"}

(* If the serializer keeps advancing, every frame the PL accepted while it *)
(* was enabled is recorded as shown.                                       *)
AcceptedFrameIsShown ==
    WF_vars(ConsumerAdvances) =>
        \A s \in Sequences32 :
            (enable /\ frame_sequence = s) ~> (consumer_sequence = s)
=============================================================================

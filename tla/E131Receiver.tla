---------------------------- MODULE E131Receiver ----------------------------
(***************************************************************************)
(* The E1.31 receiver (ps/app/e131_receiver.c): which sender it follows,   *)
(* the sweep of universes it assembles into a frame, when the frame goes   *)
(* to the PL, and when the lamps go black.                                 *)
(*                                                                         *)
(* An action is one call of e131_receiver_handle_packet or of              *)
(* e131_receiver_poll, with all it calls.  Times are 32-bit milliseconds,  *)
(* here modulo TimeSpace.  Left out: the statistics, the sequence numbers,   *)
(* which only count anomalies, the packets that change nothing else        *)
(* (unparsable ones, previews, ignored senders), and has_display_time,     *)
(* which is one whenever a sender is locked.                               *)
(***************************************************************************)
EXTENDS FramePipeline

CONSTANTS
    Priorities,     \* priorities in use; 0 is the value without a sender
    NoSource,       \* the CID of all zeros
    TimeSpace,      \* number of values of a 32-bit time
    BlackoutTimeout \* DAWN_E131_BLACKOUT_TIMEOUT_MS

ASSUME ReceiverAssumption ==
    /\ Priorities \subseteq Nat
    /\ NoSource \notin Sources
    /\ TimeSpace \in Nat \ {0}
    /\ BlackoutTimeout \in 1 .. TimeSpace - 1

VARIABLES
    source_locked,   \* g_status.source_locked
    locked_cid,      \* g_locked_cid
    active_priority, \* g_status.active_priority
    sync_mode,       \* g_status.sync_mode
    sync_address,    \* g_status.sync_address
    sweep,           \* g_received_bitmap and g_pending_synced_complete
    last_display_ms  \* g_last_display_ms

lockVars == <<source_locked, locked_cid, active_priority>>
syncVars == <<sync_mode, sync_address>>
receiverVars == <<lockVars, syncVars, sweep, last_display_ms, pipelineVars>>

Times == 0 .. TimeSpace - 1

ReceiverTypeOK ==
    /\ PipelineTypeOK
    /\ source_locked \in BOOLEAN
    /\ locked_cid \in Sources \cup {NoSource}
    /\ active_priority \in Priorities \cup {0}
    /\ sync_mode \in BOOLEAN
    /\ sync_address \in SyncAddresses
    /\ sweep \in [received : SUBSET Universes, pending : BOOLEAN]
    /\ last_display_ms \in Times

EmptySweep == [received |-> {}, pending |-> FALSE]

ReceiverInit ==
    /\ PipelineInit
    /\ source_locked = FALSE /\ locked_cid = NoSource /\ active_priority = 0
    /\ sync_mode = FALSE /\ sync_address = 0
    /\ sweep = EmptySweep
    /\ last_display_ms = 0

(* A data packet: who sends which universe, with which priority and sync   *)
(* address.  Of a packet that is STREAM_TERMINATED or has the wrong number *)
(* of slots the handler looks at the sender only.  A sync packet of        *)
(* address 0 matches no sweep.                                             *)
Senders == [source : Sources, priority : Priorities]

DataPackets ==
    [source : Sources, priority : Priorities, sync : SyncAddresses,
     universe : Universes]

SyncPackets == [source : Sources, sync : SyncAddresses \ {0}]

-----------------------------------------------------------------------------
(* Commits.                                                                *)

Elapsed(now, then) == (now - then) % TimeSpace

(* A frame the PL took is on display from `now` on; else last_display_ms   *)
(* keeps `displayed`, the value it has at that point of the handler.       *)
RecordDisplay(commitResult, displayed, now) ==
    last_display_ms' = IF commitResult = 0 THEN now ELSE displayed

(* commit_current, with the buffers and the sweep as they are by then.     *)
(* After a failure other than a full PL the sweep stays as it is.          *)
CommitCurrent(buffers, assembled, displayed, now) ==
    \E commitResult \in CommitResults :
        /\ Commit(buffers, commitResult)
        /\ RecordDisplay(commitResult, displayed, now)
        /\ IF commitResult >= 0
           THEN sweep' = EmptySweep /\ frame_words' = StartSweep(buffers)
           ELSE sweep' = assembled /\ frame_words' = buffers

ReleaseLock ==
    /\ source_locked' = FALSE /\ locked_cid' = NoSource /\ active_priority' = 0
    /\ sync_mode' = FALSE /\ sync_address' = 0

(* Mutant: the buffer is cleared after it was sent.                        *)
CommitBlackClearLate(displayed, now) ==
    /\ \E commitResult \in CommitResults :
        /\ Commit(frame_words, commitResult)
        /\ RecordDisplay(commitResult, displayed, now)
    /\ frame_words' = StartSweep(ClearAll(frame_words))
    /\ sweep' = EmptySweep
    /\ ReleaseLock

(* commit_black: the sender is released whatever the commit returns.       *)
CommitBlack(displayed, now) ==
    /\ \E commitResult \in CommitResults :
        /\ Commit(ClearAll(frame_words), commitResult)
        /\ RecordDisplay(commitResult, displayed, now)
    /\ frame_words' = StartSweep(ClearAll(frame_words))
    /\ sweep' = EmptySweep
    /\ ReleaseLock

-----------------------------------------------------------------------------
(* accept_source.                                                          *)

Preempts(packet) == source_locked /\ packet.source # locked_cid

Accepts(packet) == Preempts(packet) => packet.priority > active_priority

LockSource(packet) ==
    /\ source_locked' = TRUE
    /\ locked_cid' = packet.source
    /\ active_priority' = packet.priority

(* What last_display_ms is after accept_source.                            *)
DisplayTime(packet, now) ==
    IF source_locked /\ packet.source = locked_cid THEN last_display_ms ELSE now

(* The sync address of the sender differs from that of the sweep so far.   *)
SyncChanges(packet) ==
    IF packet.sync = 0
    THEN sync_mode
    ELSE ~sync_mode \/ sync_address # packet.sync

(* Mutant: a sender that takes over inherits the sweep of the other one.   *)
RestartsOnSyncOnly(packet) == SyncChanges(packet)

(* The calls of clear_assembly before a universe is written.               *)
Restarts(packet) == Preempts(packet) \/ SyncChanges(packet)

SweepBefore(restart) == IF restart THEN EmptySweep ELSE sweep

BuffersBefore(restart) ==
    IF restart THEN StartSweep(frame_words) ELSE frame_words

-----------------------------------------------------------------------------
(* The handlers.                                                           *)

(* A terminated stream, of the sender or of one that takes over.           *)
HandleTerminated(packet, now) ==
    /\ Accepts(packet)
    /\ CommitBlack(DisplayTime(packet, now), now)

(* A packet with the wrong number of slots still locks its sender.         *)
HandleWrongSlots(packet, now) ==
    /\ Accepts(packet)
    /\ LockSource(packet)
    /\ last_display_ms' = DisplayTime(packet, now)
    /\ sweep' = SweepBefore(Preempts(packet))
    /\ frame_words' = BuffersBefore(Preempts(packet))
    /\ UNCHANGED <<syncVars, write_bank, taken>>

(* A universe is written and marked.  An unsynchronized sweep is committed *)
(* when complete, a synchronized one waits for its sync packet.            *)
HandleUniverse(packet, now) ==
    LET before    == SweepBefore(Restarts(packet))
        pixels    == [source |-> packet.source, sync |-> packet.sync, fresh |-> TRUE]
        buffers   == WriteUniverse(BuffersBefore(Restarts(packet)),
                                   packet.universe, pixels)
        universes == before.received \cup {packet.universe}
        complete  == universes = Universes
        assembled == [received |-> universes,
                      pending  |-> before.pending \/ (complete /\ packet.sync # 0)]
    IN /\ Accepts(packet)
       /\ LockSource(packet)
       /\ sync_mode' = (packet.sync # 0) /\ sync_address' = packet.sync
       /\ IF complete /\ packet.sync = 0
          THEN CommitCurrent(buffers, assembled, DisplayTime(packet, now), now)
          ELSE /\ last_display_ms' = DisplayTime(packet, now)
               /\ sweep' = assembled
               /\ frame_words' = buffers
               /\ UNCHANGED <<write_bank, taken>>

(* process_sync_packet, when it commits.                                   *)
Releases(packet) ==
    /\ source_locked /\ packet.source = locked_cid
    /\ sync_mode /\ packet.sync = sync_address
    /\ sweep.pending

HandleSync(packet, now) ==
    /\ Releases(packet)
    /\ CommitCurrent(frame_words, sweep, last_display_ms, now)
    /\ UNCHANGED <<lockVars, syncVars>>

(* Mutant: a timer that strikes one millisecond late.                      *)
TimedOutLate(now) ==
    source_locked /\ Elapsed(now, last_display_ms) > BlackoutTimeout

TimedOut(now) ==
    source_locked /\ Elapsed(now, last_display_ms) >= BlackoutTimeout

(* e131_receiver_poll.                                                     *)
ReceiverPoll(now) ==
    IF TimedOut(now)
    THEN CommitBlack(last_display_ms, now)
    ELSE UNCHANGED receiverVars

-----------------------------------------------------------------------------
(* A frame the PL took is black, or every universe of it came from one     *)
(* sender, under one sync address, in the sweep that was committed: no     *)
(* takeover, change of the sync address, failed commit or swap of the two  *)
(* buffers leaves a universe of an older sweep in it                       *)
(* (e131_receiver.c:131-155, 211-219, 331-343; frame_pipeline.c:143-160).  *)
FrameIsOneSweep ==
    \/ taken = BlackFrame
    \/ \E s \in Sources, a \in SyncAddresses :
         \A u \in Universes :
            taken[u] = [source |-> s, sync |-> a, fresh |-> TRUE]

(* The bitmap tells the truth about the buffer: a universe marked as       *)
(* received is in the buffer that the next commit sends, from the locked   *)
(* sender, under the current sync address, and of this sweep; a frame      *)
(* that waits for its sync packet has all of them                          *)
(* (e131_receiver.c:175-187, 237, 373).                                    *)
BitmapMatchesBuffer ==
    /\ \A u \in sweep.received :
         frame_words[write_bank][u] =
            [source |-> locked_cid, sync |-> sync_address, fresh |-> TRUE]
    /\ sweep.pending => source_locked /\ sync_mode /\ sweep.received = Universes
=============================================================================

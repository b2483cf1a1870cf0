------------------------- MODULE E131ReceiverProofs --------------------------
(***************************************************************************)
(* That every handler of the E1.31 receiver, and its poll, keeps           *)
(* ReceiverInv.  The lemmas speak of E131Receiver alone, whatever calls    *)
(* the handlers and whatever time it passes.                               *)
(***************************************************************************)
EXTENDS E131Receiver, TLAPS

(* The inductive invariant.  A sender is locked or there is none, and then *)
(* no universe is marked; a sync address goes with the sync mode.          *)
LockInv ==
    /\ source_locked => locked_cid \in Sources
    /\ ~source_locked => locked_cid = NoSource /\ sweep = EmptySweep
    /\ ~sync_mode => sync_address = 0

ReceiverInv ==
    ReceiverTypeOK /\ LockInv /\ FrameIsOneSweep /\ BitmapMatchesBuffer

-----------------------------------------------------------------------------
Buffers == [{0, 1} -> FramesOfPixels]

(* What a handler may be given.                                            *)
SenderOK(packet) == packet.source \in Sources /\ packet.priority \in Priorities

PacketOK(packet) ==
    /\ SenderOK(packet)
    /\ packet.sync \in SyncAddresses
    /\ packet.universe \in Universes

-----------------------------------------------------------------------------
(* The buffers.                                                            *)

LEMMA StartSweepType ==
    ASSUME NEW buffers \in Buffers
    PROVE  StartSweep(buffers) \in Buffers
<1>1. \A p \in Pixels : Aged(p) \in Pixels
  BY DEF Aged, Pixels
<1>2. \A b \in {0, 1}, u \in Universes : Aged(buffers[b][u]) \in Pixels
  BY <1>1 DEF Buffers, FramesOfPixels
<1> QED
  BY <1>2 DEF StartSweep, Buffers, FramesOfPixels

LEMMA ClearAllType ==
    ASSUME NEW buffers \in Buffers, write_bank \in {0, 1}
    PROVE  /\ ClearAll(buffers) \in Buffers
           /\ ClearAll(buffers)[write_bank] = BlackFrame
BY DEF ClearAll, Buffers, BlackFrame, FramesOfPixels, Pixels

LEMMA WriteUniverseType ==
    ASSUME NEW buffers \in Buffers, write_bank \in {0, 1},
           NEW universe \in Universes, NEW pixels \in Pixels
    PROVE  /\ WriteUniverse(buffers, universe, pixels) \in Buffers
           /\ \A u \in Universes :
                 WriteUniverse(buffers, universe, pixels)[write_bank][u] =
                    IF u = universe THEN pixels ELSE buffers[write_bank][u]
BY DEF WriteUniverse, Buffers, FramesOfPixels

(* What a commit does to the bank and to what the PL holds.                *)
LEMMA CommitMove ==
    ASSUME NEW buffers \in Buffers, ReceiverTypeOK, NEW r \in CommitResults,
           Commit(buffers, r)
    PROVE  /\ write_bank' \in {0, 1}
           /\ r # 0 => write_bank' = write_bank
           /\ taken' = taken \/ taken' = buffers[write_bank]
           /\ taken' \in FramesOfPixels
BY DEF Commit, CommitResults, ReceiverTypeOK, PipelineTypeOK, Buffers

-----------------------------------------------------------------------------
(* The two ways to commit.                                                 *)

(* A sweep that is complete and matches the buffer is committed.           *)
LEMMA CommitCurrentStep ==
    ASSUME ReceiverTypeOK, FrameIsOneSweep,
           NEW buffers \in Buffers,
           NEW assembled \in [received : SUBSET Universes, pending : BOOLEAN],
           NEW displayed \in Times, NEW time \in Times,
           NEW s \in Sources, NEW a \in SyncAddresses,
           \A u \in Universes :
              buffers[write_bank][u] = [source |-> s, sync |-> a, fresh |-> TRUE],
           CommitCurrent(buffers, assembled, displayed, time)
    PROVE  /\ PipelineTypeOK' /\ last_display_ms' \in Times
           /\ FrameIsOneSweep'
           /\ \/ sweep' = EmptySweep
              \/ /\ sweep' = assembled
                 /\ write_bank' = write_bank
                 /\ frame_words' = buffers
<1>1. PICK r \in CommitResults :
        /\ Commit(buffers, r)
        /\ RecordDisplay(r, displayed, time)
        /\ IF r >= 0
           THEN sweep' = EmptySweep /\ frame_words' = StartSweep(buffers)
           ELSE sweep' = assembled /\ frame_words' = buffers
  BY DEF CommitCurrent
<1>2. /\ write_bank' \in {0, 1}
      /\ r # 0 => write_bank' = write_bank
      /\ taken' = taken \/ taken' = buffers[write_bank]
      /\ taken' \in FramesOfPixels
  BY <1>1, CommitMove
<1>3. frame_words' \in Buffers
  BY <1>1, StartSweepType
<1>4. FrameIsOneSweep'
  <2>1. CASE taken' = taken
    BY <2>1 DEF FrameIsOneSweep
  <2>2. CASE taken' = buffers[write_bank]
    BY <2>2 DEF FrameIsOneSweep
  <2> QED
    BY <1>2, <2>1, <2>2
<1>5. \/ sweep' = EmptySweep
      \/ /\ sweep' = assembled
         /\ write_bank' = write_bank
         /\ frame_words' = buffers
  BY <1>1, <1>2 DEF CommitResults
<1> QED
  BY <1>1, <1>2, <1>3, <1>4, <1>5 DEF PipelineTypeOK, Buffers, RecordDisplay

LEMMA CommitBlackStep ==
    ASSUME ReceiverTypeOK, FrameIsOneSweep,
           NEW displayed \in Times, NEW time \in Times,
           CommitBlack(displayed, time)
    PROVE  ReceiverInv'
<1> USE DEF ReceiverTypeOK, PipelineTypeOK
<1>1. PICK r \in CommitResults :
        Commit(ClearAll(frame_words), r) /\ RecordDisplay(r, displayed, time)
  BY DEF CommitBlack
<1>2. /\ ClearAll(frame_words) \in Buffers
      /\ ClearAll(frame_words)[write_bank] = BlackFrame
  BY ClearAllType DEF Buffers
<1>3. /\ write_bank' \in {0, 1}
      /\ taken' = taken \/ taken' = BlackFrame
      /\ taken' \in FramesOfPixels
  BY <1>1, <1>2, CommitMove
<1>4. frame_words' \in Buffers
  BY <1>2, StartSweepType DEF CommitBlack
<1>5. FrameIsOneSweep'
  BY <1>3 DEF FrameIsOneSweep
<1>6. sweep' = EmptySweep /\ ReleaseLock
  BY DEF CommitBlack
<1>7. BitmapMatchesBuffer' /\ LockInv'
  BY <1>6 DEF BitmapMatchesBuffer, LockInv, EmptySweep, ReleaseLock
<1>8. ReceiverTypeOK'
  BY <1>1, <1>3, <1>4, <1>6, ReceiverAssumption, PipelineAssumption
     DEF Buffers, RecordDisplay, EmptySweep, ReleaseLock
<1> QED
  BY <1>5, <1>7, <1>8 DEF ReceiverInv

-----------------------------------------------------------------------------
(* The sweep and the buffers a packet finds.                               *)

LEMMA BeforeType ==
    ASSUME ReceiverTypeOK, NEW restart \in BOOLEAN
    PROVE  /\ SweepBefore(restart) \in [received : SUBSET Universes, pending : BOOLEAN]
           /\ BuffersBefore(restart) \in Buffers
BY StartSweepType
   DEF SweepBefore, BuffersBefore, EmptySweep, ReceiverTypeOK, PipelineTypeOK, Buffers

LEMMA DisplayTimeType ==
    ASSUME ReceiverTypeOK, NEW packet, NEW time \in Times
    PROVE  DisplayTime(packet, time) \in Times
BY DEF DisplayTime, ReceiverTypeOK

-----------------------------------------------------------------------------
(* The handlers.                                                           *)

LEMMA TerminatedStep ==
    ASSUME ReceiverInv, NEW packet, NEW time \in Times, HandleTerminated(packet, time)
    PROVE  ReceiverInv'
BY CommitBlackStep, DisplayTimeType DEF ReceiverInv, HandleTerminated

LEMMA WrongSlotsStep ==
    ASSUME ReceiverInv, NEW packet, SenderOK(packet), NEW time \in Times,
           HandleWrongSlots(packet, time)
    PROVE  ReceiverInv'
<1> DEFINE restart == Preempts(packet)
<1> USE DEF ReceiverInv
<1>1. restart \in BOOLEAN
  BY DEF Preempts
<1>2. ReceiverTypeOK'
  BY <1>1, BeforeType, DisplayTimeType
     DEF HandleWrongSlots, ReceiverTypeOK, PipelineTypeOK, LockSource, SenderOK,
         syncVars, Buffers
<1>3. FrameIsOneSweep'
  BY DEF HandleWrongSlots, FrameIsOneSweep
<1>4. LockInv'
  BY DEF HandleWrongSlots, LockInv, LockSource, syncVars, SenderOK
<1>5. BitmapMatchesBuffer'
  <2>1. CASE restart
    BY <2>1 DEF HandleWrongSlots, SweepBefore, EmptySweep, BitmapMatchesBuffer
  <2>2. CASE ~restart /\ source_locked
    <3>1. UNCHANGED <<source_locked, locked_cid, syncVars, sweep, frame_words, write_bank>>
      BY <2>2, ReceiverInv
         DEF HandleWrongSlots, SweepBefore, BuffersBefore, LockSource, Preempts,
             ReceiverTypeOK
    <3> QED
      BY <3>1 DEF BitmapMatchesBuffer, syncVars
  <2>3. CASE ~source_locked
    BY <2>3 DEF HandleWrongSlots, SweepBefore, EmptySweep, BitmapMatchesBuffer, LockInv
  <2> QED
    BY <2>1, <2>2, <2>3
<1> QED
  BY <1>2, <1>3, <1>4, <1>5

(* What a universe finds: nothing, or universes of its sender and address. *)
LEMMA BeforeMatches ==
    ASSUME ReceiverInv, NEW packet, NEW u \in SweepBefore(Restarts(packet)).received
    PROVE  BuffersBefore(Restarts(packet))[write_bank][u] =
              [source |-> packet.source, sync |-> packet.sync, fresh |-> TRUE]
<1> USE DEF ReceiverInv
<1>1. ~Restarts(packet) /\ u \in sweep.received
  BY DEF SweepBefore, EmptySweep
<1>2. source_locked
  BY <1>1 DEF LockInv, EmptySweep
<1>3. packet.source = locked_cid /\ packet.sync = sync_address
  BY <1>1, <1>2 DEF Restarts, Preempts, SyncChanges, LockInv
<1> QED
  BY <1>1, <1>3 DEF BuffersBefore, BitmapMatchesBuffer

LEMMA UniverseStep ==
    ASSUME ReceiverInv, NEW packet, PacketOK(packet), NEW time \in Times,
           HandleUniverse(packet, time)
    PROVE  ReceiverInv'
<1> DEFINE before    == SweepBefore(Restarts(packet))
           pixels    == [source |-> packet.source, sync |-> packet.sync, fresh |-> TRUE]
           buffers   == WriteUniverse(BuffersBefore(Restarts(packet)),
                                      packet.universe, pixels)
           universes == before.received \cup {packet.universe}
           complete  == universes = Universes
           assembled == [received |-> universes,
                         pending  |-> before.pending \/ (complete /\ packet.sync # 0)]
<1> USE DEF ReceiverInv
<1>1. /\ before \in [received : SUBSET Universes, pending : BOOLEAN]
      /\ BuffersBefore(Restarts(packet)) \in Buffers
  <2>1. Restarts(packet) \in BOOLEAN
    BY DEF Restarts
  <2> QED
    BY <2>1, BeforeType
<1>2. /\ packet.source \in Sources /\ packet.priority \in Priorities
      /\ packet.sync \in SyncAddresses /\ packet.universe \in Universes
  BY DEF PacketOK, SenderOK
<1>3. pixels \in Pixels /\ write_bank \in {0, 1}
  BY <1>2 DEF Pixels, ReceiverTypeOK, PipelineTypeOK
<1>4. /\ buffers \in Buffers
      /\ \A u \in Universes :
            buffers[write_bank][u] =
               IF u = packet.universe THEN pixels
               ELSE BuffersBefore(Restarts(packet))[write_bank][u]
  <2> HIDE DEF pixels
  <2> QED
    BY <1>1, <1>2, <1>3, WriteUniverseType
<1>5. \A u \in universes : buffers[write_bank][u] = pixels
  BY <1>1, <1>2, <1>4, BeforeMatches
<1>6. assembled \in [received : SUBSET Universes, pending : BOOLEAN]
  BY <1>1, <1>2
<1>7. before.pending => source_locked /\ sync_mode /\ before.received = Universes
                        /\ packet.sync = sync_address /\ packet.sync # 0
  BY DEF SweepBefore, EmptySweep, BitmapMatchesBuffer, Restarts, Preempts, SyncChanges
<1>8. /\ LockSource(packet)
      /\ sync_mode' = (packet.sync # 0) /\ sync_address' = packet.sync
  BY DEF HandleUniverse
<1>9. DisplayTime(packet, time) \in Times
  BY DisplayTimeType
<1>10. /\ PipelineTypeOK' /\ last_display_ms' \in Times
       /\ FrameIsOneSweep'
       /\ \/ sweep' = EmptySweep
          \/ sweep' = assembled /\ write_bank' = write_bank /\ frame_words' = buffers
  <2>1. CASE complete /\ packet.sync = 0
    <3>1. CommitCurrent(buffers, assembled, DisplayTime(packet, time), time)
      BY <2>1 DEF HandleUniverse
    <3> HIDE DEF before, buffers, assembled
    <3> QED
      BY <1>2, <1>4, <1>5, <1>6, <1>9, <2>1, <3>1, CommitCurrentStep
  <2>2. CASE ~(complete /\ packet.sync = 0)
    <3>1. /\ last_display_ms' = DisplayTime(packet, time)
          /\ sweep' = assembled /\ frame_words' = buffers
          /\ UNCHANGED <<write_bank, taken>>
      BY <2>2 DEF HandleUniverse
    <3> HIDE DEF before, buffers, assembled
    <3> QED
      BY <1>3, <1>4, <1>9, <3>1
         DEF ReceiverTypeOK, PipelineTypeOK, Buffers, FrameIsOneSweep
  <2> QED
    BY <2>1, <2>2
<1>11. ReceiverTypeOK'
  <2>1. sweep' \in [received : SUBSET Universes, pending : BOOLEAN]
    <3>1. EmptySweep \in [received : SUBSET Universes, pending : BOOLEAN]
      BY DEF EmptySweep
    <3> HIDE DEF assembled, buffers
    <3> QED
      BY <1>6, <1>10, <3>1
  <2>2. sync_mode' \in BOOLEAN /\ sync_address' \in SyncAddresses
    BY <1>2, <1>8
  <2> QED
    BY <1>2, <1>8, <1>10, <2>1, <2>2 DEF ReceiverTypeOK, LockSource
<1>12. LockInv'
  BY <1>2, <1>8 DEF LockInv, LockSource
<1>13. BitmapMatchesBuffer'
  <2>1. CASE sweep' = EmptySweep
    BY <2>1 DEF BitmapMatchesBuffer, EmptySweep
  <2>2. CASE sweep' = assembled /\ write_bank' = write_bank /\ frame_words' = buffers
    <3>1. \A u \in sweep'.received : frame_words'[write_bank'][u] = pixels
      BY <1>5, <2>2
    <3>2. sweep'.pending => packet.sync # 0 /\ sweep'.received = Universes
      BY <1>1, <1>2, <1>7, <2>2
    <3> QED
      BY <1>8, <3>1, <3>2 DEF BitmapMatchesBuffer, LockSource
  <2> QED
    BY <1>10, <2>1, <2>2
<1> QED
  BY <1>10, <1>11, <1>12, <1>13

LEMMA SyncStep ==
    ASSUME ReceiverInv, NEW packet, NEW time \in Times, HandleSync(packet, time)
    PROVE  ReceiverInv'
<1> USE DEF ReceiverInv
<1>1. /\ source_locked /\ sync_mode /\ sweep.pending
      /\ CommitCurrent(frame_words, sweep, last_display_ms, time)
      /\ UNCHANGED <<lockVars, syncVars>>
  BY DEF HandleSync, Releases
<1>2. /\ locked_cid \in Sources /\ sync_address \in SyncAddresses
      /\ frame_words \in Buffers
      /\ sweep \in [received : SUBSET Universes, pending : BOOLEAN]
      /\ last_display_ms \in Times
  BY <1>1 DEF LockInv, ReceiverTypeOK, PipelineTypeOK, Buffers
<1>3. \A u \in Universes :
         frame_words[write_bank][u] =
            [source |-> locked_cid, sync |-> sync_address, fresh |-> TRUE]
  BY <1>1 DEF BitmapMatchesBuffer
<1>4. /\ PipelineTypeOK' /\ last_display_ms' \in Times
      /\ FrameIsOneSweep'
      /\ \/ sweep' = EmptySweep
         \/ UNCHANGED <<sweep, write_bank, frame_words>>
  BY <1>1, <1>2, <1>3, CommitCurrentStep
<1>5. UNCHANGED <<source_locked, locked_cid, active_priority, sync_mode, sync_address>>
  BY <1>1 DEF lockVars, syncVars
<1>6. ReceiverTypeOK'
  <2>1. EmptySweep \in [received : SUBSET Universes, pending : BOOLEAN]
    BY DEF EmptySweep
  <2>2. sweep' \in [received : SUBSET Universes, pending : BOOLEAN]
    BY <1>2, <1>4, <2>1
  <2> QED
    BY <1>1, <1>2, <1>4, <1>5, <2>2 DEF ReceiverTypeOK
<1>7. LockInv'
  BY <1>1, <1>5 DEF LockInv
<1>8. BitmapMatchesBuffer'
  <2>1. CASE sweep' = EmptySweep
    BY <2>1 DEF BitmapMatchesBuffer, EmptySweep
  <2>2. CASE UNCHANGED <<sweep, write_bank, frame_words>>
    BY <1>5, <2>2 DEF BitmapMatchesBuffer
  <2> QED
    BY <1>4, <2>1, <2>2
<1> QED
  BY <1>4, <1>6, <1>7, <1>8

LEMMA ReceiverInvKept == ReceiverInv /\ UNCHANGED receiverVars => ReceiverInv'
<1> SUFFICES ASSUME ReceiverInv, UNCHANGED receiverVars PROVE ReceiverInv'
  OBVIOUS
<1>1. UNCHANGED <<source_locked, locked_cid, active_priority, sync_mode, sync_address,
                  sweep, last_display_ms, frame_words, write_bank, taken>>
  BY DEF receiverVars, lockVars, syncVars, pipelineVars
<1>2. ReceiverTypeOK' /\ LockInv'
  BY <1>1 DEF ReceiverInv, ReceiverTypeOK, PipelineTypeOK, LockInv
<1>3. FrameIsOneSweep' /\ BitmapMatchesBuffer'
  BY <1>1 DEF ReceiverInv, FrameIsOneSweep, BitmapMatchesBuffer
<1> QED
  BY <1>2, <1>3 DEF ReceiverInv

LEMMA PollStep ==
    ASSUME ReceiverInv, NEW time \in Times, ReceiverPoll(time)
    PROVE  ReceiverInv'
<1>1. CASE TimedOut(time)
  BY <1>1, CommitBlackStep DEF ReceiverPoll, ReceiverInv, ReceiverTypeOK
<1>2. CASE ~TimedOut(time)
  BY <1>2, ReceiverInvKept DEF ReceiverPoll
<1> QED
  BY <1>1, <1>2

LEMMA ReceiverInitInv == ReceiverInit => ReceiverInv
<1> SUFFICES ASSUME ReceiverInit PROVE ReceiverInv
  OBVIOUS
<1>1. PipelineTypeOK
  BY DEF ReceiverInit, PipelineInit, PipelineTypeOK, FramesOfPixels, BlackFrame, Pixels
<1>2. 0 \in SyncAddresses /\ 0 \in Times
  BY ReceiverAssumption, PipelineAssumption DEF Times
<1>3. ReceiverTypeOK
  BY <1>1, <1>2 DEF ReceiverInit, ReceiverTypeOK, EmptySweep
<1>4. LockInv /\ BitmapMatchesBuffer
  BY DEF ReceiverInit, LockInv, BitmapMatchesBuffer, EmptySweep
<1>5. FrameIsOneSweep
  BY DEF ReceiverInit, PipelineInit, FrameIsOneSweep
<1> QED
  BY <1>3, <1>4, <1>5 DEF ReceiverInv
=============================================================================

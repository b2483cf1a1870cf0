------------------------- MODULE EthernetPollProofs --------------------------
(***************************************************************************)
(* That the blackout is on time, whatever the age of the packets in the    *)
(* ring and wherever the 32-bit time wraps, and that a sender goes with a  *)
(* black frame or a failed one.                                            *)
(***************************************************************************)
EXTENDS EthernetPoll, E131ReceiverProofs

(* The inductive invariant.  The time of the last display is never later   *)
(* than what it stands for, and a poll that returns without a blackout     *)
(* found it younger than the timeout.  Without a sender the lamps are dark,  *)
(* or the commit that should have darkened them failed.                    *)
SinceDisplay == Elapsed(poll_now_ms, last_display_ms)

PollInv ==
    /\ TypeOK
    /\ ReceiverInv
    /\ SincePoll <= MaxPollTime
    /\ source_locked => idle <= SinceDisplay + SincePoll
    /\ pc = "main" /\ source_locked => SinceDisplay < BlackoutTimeout
    /\ ~source_locked => taken = BlackFrame \/ black_failed

-----------------------------------------------------------------------------
(* Time modulo TimeSpace.                                                  *)

LEMMA ElapsedValue ==
    ASSUME NEW a \in Times, NEW b \in Times
    PROVE  /\ Elapsed(a, b) \in Times
           /\ Elapsed(a, b) = IF a >= b THEN a - b ELSE a - b + TimeSpace
BY ReceiverAssumption DEF Elapsed, Times

LEMMA NextMillisecond ==
    ASSUME NEW a \in Times
    PROVE  /\ (a + 1) % TimeSpace \in Times
           /\ (a + 1) % TimeSpace = IF a + 1 = TimeSpace THEN 0 ELSE a + 1
BY ReceiverAssumption DEF Times

(* A millisecond makes an interval longer by one, until it wraps.          *)
LEMMA ElapsedTick ==
    ASSUME NEW a \in Times, NEW b \in Times, Elapsed(a, b) < TimeSpace - 1
    PROVE  Elapsed((a + 1) % TimeSpace, b) = Elapsed(a, b) + 1
<1> DEFINE next == (a + 1) % TimeSpace
<1>1. next \in Times /\ next = IF a + 1 = TimeSpace THEN 0 ELSE a + 1
  BY NextMillisecond
<1>2. Elapsed(a, b) = IF a >= b THEN a - b ELSE a - b + TimeSpace
  BY ElapsedValue
<1>3. Elapsed(next, b) = IF next >= b THEN next - b ELSE next - b + TimeSpace
  <2> HIDE DEF next
  <2> QED
    BY <1>1, ElapsedValue
<1> QED
  <2> HIDE DEF next
  <2>1. Elapsed(next, b) = Elapsed(a, b) + 1
    BY <1>1, <1>2, <1>3, ReceiverAssumption DEF Times
  <2> QED
    BY <2>1 DEF next

(* Two intervals that follow each other add up, until they wrap.           *)
LEMMA ElapsedSum ==
    ASSUME NEW a \in Times, NEW b \in Times, NEW c \in Times,
           Elapsed(a, b) + Elapsed(b, c) < TimeSpace
    PROVE  Elapsed(a, c) = Elapsed(a, b) + Elapsed(b, c)
<1>1. /\ Elapsed(a, b) = IF a >= b THEN a - b ELSE a - b + TimeSpace
      /\ Elapsed(b, c) = IF b >= c THEN b - c ELSE b - c + TimeSpace
      /\ Elapsed(a, c) = IF a >= c THEN a - c ELSE a - c + TimeSpace
  BY ElapsedValue
<1> QED
  BY <1>1, ReceiverAssumption DEF Times

-----------------------------------------------------------------------------
(* What a handler does to the lock and to the time of the last display.    *)
(* A sender that stays locked without a frame taken keeps the time.        *)
DisplayKept ==
    source_locked' =>
        \/ locked_cid' # locked_cid
        \/ write_bank' # write_bank
        \/ source_locked /\ last_display_ms' = last_display_ms

LEMMA CommitCurrentDisplay ==
    ASSUME ReceiverTypeOK, NEW buffers, NEW assembled, NEW displayed, NEW time,
           CommitCurrent(buffers, assembled, displayed, time)
    PROVE  write_bank' # write_bank \/ last_display_ms' = displayed
BY DEF CommitCurrent, Commit, RecordDisplay, ReceiverTypeOK, PipelineTypeOK

(* A packet the receiver accepts changes the sender or keeps the time.     *)
LEMMA AcceptedDisplay ==
    ASSUME LockInv, NEW packet, packet.source \in Sources, NEW time,
           locked_cid' = packet.source
    PROVE  \/ locked_cid' # locked_cid
           \/ source_locked /\ DisplayTime(packet, time) = last_display_ms
BY ReceiverAssumption DEF LockInv, DisplayTime

LEMMA HandlerDisplay ==
    ASSUME ReceiverTypeOK, LockInv, NEW payload \in Payloads, NEW time,
           HandlePacket(payload, time)
    PROVE  DisplayKept
<1> DEFINE packet == payload.packet
<1> USE DEF DisplayKept
<1>1. CASE HandleUniverse(packet, time) /\ packet.source \in Sources
  <2>1. locked_cid' = packet.source
    BY <1>1 DEF HandleUniverse, LockSource
  <2>2. write_bank' # write_bank \/ last_display_ms' = DisplayTime(packet, time)
    BY <1>1, CommitCurrentDisplay DEF HandleUniverse
  <2> HIDE DEF packet
  <2> QED
    BY <1>1, <2>1, <2>2, AcceptedDisplay
<1>2. CASE HandleTerminated(packet, time)
  BY <1>2 DEF HandleTerminated, CommitBlack, ReleaseLock
<1>3. CASE HandleWrongSlots(packet, time) /\ packet.source \in Sources
  <2>1. locked_cid' = packet.source /\ last_display_ms' = DisplayTime(packet, time)
    BY <1>3 DEF HandleWrongSlots, LockSource
  <2> HIDE DEF packet
  <2> QED
    BY <1>3, <2>1, AcceptedDisplay
<1>4. CASE HandleSync(packet, time)
  BY <1>4, CommitCurrentDisplay DEF HandleSync, Releases
<1>5. CASE UNCHANGED receiverVars
  BY <1>5 DEF receiverVars, lockVars
<1>6. payload.kind \in {"universe", "wrong_slots"} => packet.source \in Sources
  BY DEF Payloads, DataPackets, Senders
<1> QED
  BY <1>1, <1>2, <1>3, <1>4, <1>5, <1>6 DEF HandlePacket

LEMMA HandlerStep ==
    ASSUME ReceiverInv, NEW payload \in Payloads, NEW time \in Times,
           HandlePacket(payload, time)
    PROVE  ReceiverInv'
<1> DEFINE packet == payload.packet
<1>1. CASE payload.kind = "universe" /\ HandleUniverse(packet, time)
  <2>1. PacketOK(packet)
    BY <1>1 DEF Payloads, DataPackets, Senders, PacketOK, SenderOK
  <2> QED
    BY <1>1, <2>1, UniverseStep
<1>2. CASE HandleTerminated(packet, time)
  BY <1>2, TerminatedStep
<1>3. CASE payload.kind = "wrong_slots" /\ HandleWrongSlots(packet, time)
  <2>1. SenderOK(packet)
    BY <1>3 DEF Payloads, Senders, SenderOK
  <2> QED
    BY <1>3, <2>1, WrongSlotsStep
<1>4. CASE HandleSync(packet, time)
  BY <1>4, SyncStep
<1>5. CASE UNCHANGED receiverVars
  BY <1>5, ReceiverInvKept
<1> QED
  BY <1>1, <1>2, <1>3, <1>4, <1>5 DEF HandlePacket

-----------------------------------------------------------------------------
(* The ring and the rounds.                                                *)

LoopTypeOK ==
    /\ Ring!TypeOK
    /\ pc \in {"main", "input", "drain"}
    /\ round \in 0 .. InputRounds - 1
    /\ round_drained \in 0 .. DrainPerRound
    /\ input_packets \in BOOLEAN
    /\ poll_now_ms \in Times
    /\ clock_ms \in Times
    /\ idle \in 0 .. IdleBound
    /\ black_failed \in BOOLEAN

LEMMA RingStep ==
    ASSUME Ring!TypeOK, NEW packet \in RingPackets,
           Ring!Put(packet) \/ Ring!Take \/ UNCHANGED queue
    PROVE  Ring!TypeOK'
<1> USE PollAssumption DEF Ring!TypeOK
<1>1. CASE Ring!Put(packet)
  BY <1>1 DEF Ring!Put, Ring!Full
<1>2. CASE Ring!Take
  BY <1>2 DEF Ring!Take
<1>3. CASE UNCHANGED queue
  BY <1>3
<1> QED
  BY <1>1, <1>2, <1>3

LEMMA LoopTypeStep ==
    ASSUME LoopTypeOK, [Next]_vars
    PROVE  LoopTypeOK'
<1> USE PollAssumption, ReceiverAssumption DEF LoopTypeOK
<1>1. 0 \in Times /\ IdleBound \in Nat
  BY DEF IdleBound, Times
<1>2. black_failed' \in BOOLEAN
  BY DEF Next, vars, historyVars, Tick, PollStart, ReceiveUdp, InputEnd,
         DrainPacket, NextRound, PollEnd, RecordHistory
<1>3. CASE Tick
  BY <1>1, <1>3, <1>2, NextMillisecond DEF Tick, roundVars, Ring!TypeOK
<1>4. CASE PollStart
  <2>1. input_packets' \in BOOLEAN /\ round' = 0 /\ round_drained' = 0
    BY <1>4 DEF PollStart, FirstRound
  <2> QED
    BY <1>4, <1>2, <2>1 DEF PollStart, historyVars, Ring!TypeOK
<1>5. ASSUME NEW payload \in Payloads, ReceiveUdp(payload) PROVE LoopTypeOK'
  <2> DEFINE packet == [payload |-> payload, received_ms |-> poll_now_ms]
  <2>1. packet \in RingPackets
    BY DEF RingPackets
  <2>2. Ring!Put(packet) \/ UNCHANGED queue
    BY <1>5 DEF ReceiveUdp
  <2>3. Ring!TypeOK'
    <3> HIDE DEF packet
    <3> QED
      BY <2>1, <2>2, RingStep
  <2> QED
    BY <1>5, <1>2, <2>3 DEF ReceiveUdp, historyVars
<1>6. CASE InputEnd
  BY <1>6, <1>2 DEF InputEnd, roundVars, historyVars, Ring!TypeOK
<1>7. CASE DrainPacket
  <2>1. Head(queue) \in RingPackets /\ Ring!Take
    BY <1>7 DEF DrainPacket, Ring!TypeOK, Ring!Take
  <2>2. Ring!TypeOK'
    BY <2>1, RingStep
  <2>3. idle' \in 0 .. IdleBound
    BY <1>1, <1>7 DEF DrainPacket, RecordHistory
  <2> QED
    BY <1>7, <1>2, <2>2, <2>3 DEF DrainPacket
<1>8. CASE NextRound
  <2>1. input_packets' \in BOOLEAN
    BY <1>8 DEF NextRound
  <2>2. round' \in 0 .. InputRounds - 1
    BY <1>8 DEF NextRound, LastRound
  <2> QED
    BY <1>8, <1>2, <2>1, <2>2 DEF NextRound, historyVars, Ring!TypeOK
<1>9. CASE PollEnd
  <2>1. idle' \in 0 .. IdleBound
    BY <1>1, <1>9 DEF PollEnd, RecordHistory
  <2> QED
    <3>1. input_packets' \in BOOLEAN /\ round' = 0 /\ round_drained' = 0
      BY <1>9 DEF PollEnd, FirstRound
    <3> QED
      BY <1>9, <1>2, <2>1, <3>1 DEF PollEnd, Ring!TypeOK
<1>10. CASE UNCHANGED vars
  BY <1>10, <1>2 DEF vars, roundVars, historyVars, Ring!TypeOK
<1> QED
  BY <1>3, <1>4, <1>5, <1>6, <1>7, <1>8, <1>9, <1>10 DEF Next

(* The receiver sees the packets of the ring, and the poll.                *)
LEMMA PollReceiverStep ==
    ASSUME LoopTypeOK, ReceiverInv, [Next]_vars
    PROVE  ReceiverInv'
<1>1. CASE UNCHANGED receiverVars
  BY <1>1, ReceiverInvKept
<1>2. CASE DrainPacket
  <2>1. Head(queue) \in RingPackets
    BY <1>2 DEF DrainPacket, Ring!Take, LoopTypeOK, Ring!TypeOK
  <2>2. Head(queue).payload \in Payloads /\ Head(queue).received_ms \in Times
    BY <2>1 DEF RingPackets
  <2> QED
    BY <1>2, <2>2, HandlerStep DEF DrainPacket
<1>3. CASE PollEnd
  BY <1>3, PollStep DEF PollEnd, LoopTypeOK
<1> QED
  BY <1>1, <1>2, <1>3
     DEF Next, Tick, PollStart, ReceiveUdp, InputEnd, NextRound, vars

-----------------------------------------------------------------------------
(* The time since the last display.                                        *)

DisplayInv ==
    /\ SincePoll <= MaxPollTime
    /\ source_locked => idle <= SinceDisplay + SincePoll
    /\ pc = "main" /\ source_locked => SinceDisplay < BlackoutTimeout

LEMMA DisplayStep ==
    ASSUME LoopTypeOK, ReceiverInv, DisplayInv, [Next]_vars
    PROVE  DisplayInv'
<1> USE PollAssumption, ReceiverAssumption
<1>1. /\ clock_ms \in Times /\ poll_now_ms \in Times /\ last_display_ms \in Times
      /\ idle \in Nat /\ IdleBound \in Nat /\ idle <= IdleBound
  BY DEF LoopTypeOK, ReceiverInv, ReceiverTypeOK, IdleBound
<1>2. SincePoll \in Times /\ SinceDisplay \in Times
  BY <1>1, ElapsedValue DEF SincePoll, SinceDisplay
<1>3. CASE Tick
  <2>1. SincePoll' = SincePoll + 1
    <3>1. SincePoll < TimeSpace - 1
      BY <1>2, <1>3 DEF Tick, Times
    <3>2. Elapsed((clock_ms + 1) % TimeSpace, poll_now_ms) = SincePoll + 1
      BY <1>1, <3>1, ElapsedTick DEF SincePoll
    <3> QED
      BY <1>3, <3>2 DEF Tick, SincePoll
  <2>2. /\ UNCHANGED <<source_locked, last_display_ms, poll_now_ms, pc>>
        /\ SincePoll < MaxPollTime /\ idle' <= idle + 1
    BY <1>1, <1>3 DEF Tick, receiverVars, lockVars
  <2>3. SinceDisplay' = SinceDisplay
    BY <2>2 DEF SinceDisplay
  <2>4. idle' \in Nat
    BY <1>1, <1>3 DEF Tick
  <2> QED
    BY <1>1, <1>2, <2>1, <2>2, <2>3, <2>4 DEF DisplayInv, Times
<1>4. CASE PollStart
  <2>1. /\ pc = "main" /\ pc' = "input" /\ poll_now_ms' = clock_ms
        /\ UNCHANGED <<source_locked, last_display_ms, clock_ms, idle>>
    BY <1>4 DEF PollStart, receiverVars, lockVars, historyVars
  <2>2. SincePoll' = 0
    BY <1>1, <2>1, ElapsedValue DEF SincePoll, Times
  <2>3. ASSUME source_locked PROVE SinceDisplay' = SinceDisplay + SincePoll
    <3>1. SincePoll + SinceDisplay < TimeSpace
      BY <1>2, <2>1, <2>3 DEF DisplayInv, Times
    <3> QED
      BY <1>1, <1>2, <2>1, <3>1, ElapsedSum DEF SincePoll, SinceDisplay, Times
  <2> QED
    BY <1>1, <1>2, <2>1, <2>2, <2>3 DEF DisplayInv, Times
<1>5. CASE UNCHANGED <<source_locked, last_display_ms, poll_now_ms, clock_ms, idle>> /\ pc' # "main"
  BY <1>5 DEF DisplayInv, SincePoll, SinceDisplay
<1>6. CASE DrainPacket
  <2>1. Head(queue).payload \in Payloads
    <3>1. Head(queue) \in RingPackets
      BY <1>6 DEF DrainPacket, Ring!Take, LoopTypeOK, Ring!TypeOK
    <3> QED
      BY <3>1 DEF RingPackets
  <2>2. DisplayKept
    BY <1>6, <2>1, HandlerDisplay DEF DrainPacket, ReceiverInv
  <2>3. /\ UNCHANGED <<poll_now_ms, clock_ms, pc>> /\ pc' # "main"
        /\ RecordHistory(Terminates(Head(queue).payload))
    BY <1>6 DEF DrainPacket
  <2>4. SincePoll' = SincePoll
    BY <2>3 DEF SincePoll
  <2>5. ASSUME source_locked' PROVE idle' <= SinceDisplay' + SincePoll'
    <3>1. SinceDisplay' \in Times
      <4>1. ReceiverInv'
        BY PollReceiverStep
      <4> QED
        BY <1>1, <2>3, <4>1, ElapsedValue DEF SinceDisplay, ReceiverInv, ReceiverTypeOK
    <3>2. CASE locked_cid' # locked_cid \/ write_bank' # write_bank
      <4>1. idle' = 0
        BY <2>3, <3>2 DEF RecordHistory
      <4>2. SincePoll' \in Nat /\ SinceDisplay' \in Nat
        BY <1>2, <2>4, <3>1 DEF Times
      <4>3. \A m, n \in Nat : 0 <= m + n
        OBVIOUS
      <4> QED
        BY <4>1, <4>2, <4>3
    <3>3. CASE /\ locked_cid' = locked_cid /\ write_bank' = write_bank
               /\ source_locked /\ last_display_ms' = last_display_ms
      BY <2>3, <2>4, <3>3 DEF RecordHistory, SinceDisplay, DisplayInv
    <3> QED
      BY <2>2, <2>5, <3>2, <3>3 DEF DisplayKept
  <2> QED
    BY <2>3, <2>4, <2>5 DEF DisplayInv
<1>7. CASE PollEnd
  <2>1. /\ ReceiverPoll(poll_now_ms) /\ RecordHistory(TimedOut(poll_now_ms))
        /\ UNCHANGED <<poll_now_ms, clock_ms>>
    BY <1>7 DEF PollEnd
  <2>2. SincePoll' = SincePoll
    BY <2>1 DEF SincePoll
  <2>3. CASE TimedOut(poll_now_ms)
    <3>1. ~source_locked'
      BY <2>1, <2>3 DEF ReceiverPoll, CommitBlack, ReleaseLock
    <3> QED
      BY <2>2, <3>1 DEF DisplayInv
  <2>4. CASE ~TimedOut(poll_now_ms)
    <3>1. UNCHANGED <<source_locked, locked_cid, write_bank, last_display_ms>>
      BY <2>1, <2>4 DEF ReceiverPoll, receiverVars, lockVars, pipelineVars
    <3>2. UNCHANGED idle /\ SinceDisplay' = SinceDisplay
      BY <2>1, <3>1 DEF RecordHistory, SinceDisplay
    <3>3. source_locked => SinceDisplay < BlackoutTimeout
      BY <1>2, <2>4 DEF TimedOut, SinceDisplay, Times
    <3> QED
      BY <2>2, <3>1, <3>2, <3>3 DEF DisplayInv
  <2> QED
    BY <2>3, <2>4
<1>8. CASE UNCHANGED vars
  BY <1>8 DEF vars, receiverVars, lockVars, historyVars, DisplayInv, SincePoll, SinceDisplay
<1>9. (\E payload \in Payloads : ReceiveUdp(payload)) \/ InputEnd \/ NextRound
         => UNCHANGED <<source_locked, last_display_ms, poll_now_ms, clock_ms, idle>>
            /\ pc' # "main"
  BY DEF ReceiveUdp, InputEnd, NextRound, receiverVars, lockVars, historyVars
<1> QED
  BY <1>3, <1>4, <1>5, <1>6, <1>7, <1>8, <1>9 DEF Next

-----------------------------------------------------------------------------
(* The release of a sender.                                                *)

ReleaseInv == ~source_locked => taken = BlackFrame \/ black_failed

(* A black commit that swapped the buffers showed a black frame.           *)
LEMMA BlackCommit ==
    ASSUME PipelineTypeOK, NEW displayed, NEW time, CommitBlack(displayed, time)
    PROVE  write_bank' = write_bank \/ taken' = BlackFrame
<1>1. PICK commitResult \in CommitResults :
         Commit(ClearAll(frame_words), commitResult)
  BY DEF CommitBlack
<1>2. ClearAll(frame_words)[write_bank] = BlackFrame
  BY DEF ClearAll, PipelineTypeOK
<1> QED
  BY <1>1, <1>2 DEF Commit, CommitResults

(* A sender goes with a black commit only.                                 *)
LEMMA HandlerRelease ==
    ASSUME NEW payload \in Payloads, NEW time, HandlePacket(payload, time),
           ~source_locked'
    PROVE  \/ /\ Terminates(payload)
              /\ \E displayed : CommitBlack(displayed, time)
           \/ UNCHANGED receiverVars
<1> DEFINE packet == payload.packet
<1>1. CASE payload.kind = "universe" /\ HandleUniverse(packet, time)
  BY <1>1 DEF HandleUniverse, LockSource
<1>2. CASE /\ payload.kind = "terminated" /\ Accepts(packet)
           /\ HandleTerminated(packet, time)
  BY <1>2 DEF HandleTerminated, Terminates
<1>3. CASE payload.kind = "wrong_slots" /\ HandleWrongSlots(packet, time)
  BY <1>3 DEF HandleWrongSlots, LockSource
<1>4. CASE Releases(packet) /\ HandleSync(packet, time)
  BY <1>4 DEF HandleSync, Releases, lockVars
<1>5. CASE UNCHANGED receiverVars
  BY <1>5
<1> QED
  BY <1>1, <1>2, <1>3, <1>4, <1>5 DEF HandlePacket

LEMMA ReleaseStep ==
    ASSUME LoopTypeOK, ReceiverInv, ReleaseInv, [Next]_vars
    PROVE  ReleaseInv'
<1> SUFFICES ASSUME ~source_locked' PROVE taken' = BlackFrame \/ black_failed'
  BY DEF ReleaseInv
<1>1. PipelineTypeOK
  BY DEF ReceiverInv, ReceiverTypeOK
<1>2. CASE UNCHANGED <<source_locked, taken, black_failed>>
  BY <1>2 DEF ReleaseInv, BlackFrame
<1>3. ASSUME NEW blackout \in BOOLEAN, NEW displayed, NEW time, blackout,
             CommitBlack(displayed, time), RecordHistory(blackout)
      PROVE  taken' = BlackFrame \/ black_failed'
  BY <1>1, <1>3, BlackCommit DEF RecordHistory
<1>4. ASSUME NEW blackout, UNCHANGED receiverVars, RecordHistory(blackout)
      PROVE  taken' = BlackFrame \/ black_failed'
  BY <1>4 DEF RecordHistory, ReleaseInv, BlackFrame, receiverVars, lockVars,
              pipelineVars
<1>5. CASE DrainPacket
  <2> DEFINE payload == Head(queue).payload
  <2>1. payload \in Payloads
    <3>1. Head(queue) \in RingPackets
      BY <1>5 DEF DrainPacket, Ring!Take, LoopTypeOK, Ring!TypeOK
    <3> QED
      BY <3>1 DEF RingPackets
  <2>2. /\ HandlePacket(payload, Head(queue).received_ms)
        /\ RecordHistory(Terminates(payload))
    BY <1>5 DEF DrainPacket
  <2> HIDE DEF payload
  <2>3. Terminates(payload) \in BOOLEAN
    BY DEF Terminates
  <2> QED
    BY <1>3, <1>4, <2>1, <2>2, <2>3, HandlerRelease
<1>6. CASE PollEnd
  <2>1. ReceiverPoll(poll_now_ms) /\ RecordHistory(TimedOut(poll_now_ms))
    BY <1>6 DEF PollEnd
  <2>2. TimedOut(poll_now_ms) \in BOOLEAN
    BY DEF TimedOut
  <2> QED
    BY <1>3, <1>4, <2>1, <2>2 DEF ReceiverPoll
<1>7. Tick \/ PollStart \/ (\E payload \in Payloads : ReceiveUdp(payload))
         \/ InputEnd \/ NextRound \/ UNCHANGED vars
      => UNCHANGED <<source_locked, taken, black_failed>>
  BY DEF Tick, PollStart, ReceiveUdp, InputEnd, NextRound, vars, historyVars,
         receiverVars, lockVars, pipelineVars
<1> QED
  BY <1>2, <1>5, <1>6, <1>7 DEF Next

-----------------------------------------------------------------------------
(* The specification.                                                      *)

LEMMA PollInvParts ==
    PollInv <=> LoopTypeOK /\ ReceiverInv /\ DisplayInv /\ ReleaseInv
BY DEF PollInv, TypeOK, LoopTypeOK, ReceiverInv, DisplayInv, ReleaseInv

LEMMA PollInit == Init => PollInv
<1> SUFFICES ASSUME Init PROVE PollInv
  OBVIOUS
<1> USE PollAssumption, ReceiverAssumption
<1>1. ReceiverInv
  BY ReceiverInitInv DEF Init
<1>2. LoopTypeOK
  <2>1. Ring!TypeOK
    BY DEF Init, Ring!Init, Ring!TypeOK
  <2>2. input_packets \in BOOLEAN /\ black_failed \in BOOLEAN
    BY DEF Init
  <2> QED
    BY <2>1, <2>2 DEF Init, LoopTypeOK, IdleBound, Times
<1>3. ~source_locked /\ SincePoll = 0
  BY ElapsedValue DEF Init, ReceiverInit, SincePoll, Times
<1> QED
  <2>1. ReleaseInv
    BY DEF Init, ReceiverInit, PipelineInit, ReleaseInv
  <2> QED
    BY <1>1, <1>2, <1>3, <2>1, PollInvParts DEF DisplayInv

LEMMA PollInvStep == PollInv /\ [Next]_vars => PollInv'
<1> SUFFICES ASSUME LoopTypeOK, ReceiverInv, DisplayInv, ReleaseInv,
                    [Next]_vars
             PROVE  (LoopTypeOK /\ ReceiverInv /\ DisplayInv /\ ReleaseInv)'
  BY PollInvParts, PTL
<1> QED
  BY LoopTypeStep, PollReceiverStep, DisplayStep, ReleaseStep

LEMMA PollCorrect == Spec => []PollInv
BY PollInit, PollInvStep, PTL DEF Spec

(***************************************************************************)
(* The ring, the rounds and the receiver stay in their ranges.             *)
(***************************************************************************)
THEOREM PollTypeCorrect == Spec => []TypeOK
<1>1. PollInv => TypeOK
  BY DEF PollInv
<1> QED
  BY <1>1, PollCorrect, PTL

(***************************************************************************)
(* When a poll is over, a locked sender was locked, or had a frame taken   *)
(* by the PL, less than the timeout ago plus what the poll took; without a *)
(* sender the lamps are dark, or the black commit of its release failed.   *)
(* For any depth of the ring, any number of rounds, senders and commit     *)
(* results, and any timeout that is shorter than the 32-bit time by the    *)
(* longest poll (e131_receiver.c:157-173, 189-214, 382-396;                *)
(* ethernet_receiver.c:241, 274).                                          *)
(***************************************************************************)
THEOREM BlackoutIsOnTime == Spec => []BlackoutOnTime
<1>1. PollInv => BlackoutOnTime
  <2> SUFFICES ASSUME PollInv, pc = "main"
               PROVE  IF source_locked THEN idle < BlackoutTimeout + SincePoll
                                       ELSE taken = BlackFrame \/ black_failed
    BY DEF BlackoutOnTime
  <2>1. SincePoll \in Times /\ SinceDisplay \in Times
    BY ElapsedValue DEF SincePoll, SinceDisplay, PollInv, TypeOK, ReceiverTypeOK
  <2>2. idle \in Nat /\ BlackoutTimeout \in Nat
    BY ReceiverAssumption, PollAssumption DEF PollInv, TypeOK, IdleBound
  <2>3. CASE source_locked
    BY <2>1, <2>2, <2>3, ReceiverAssumption DEF PollInv, Times
  <2>4. CASE ~source_locked
    BY <2>4 DEF PollInv
  <2> QED
    BY <2>3, <2>4
<1> QED
  BY <1>1, PollCorrect, PTL

(***************************************************************************)
(* Also when packets wait in the ring between polls, every frame the PL    *)
(* took is black or one sweep (e131_receiver.c:131-155, 211-219).          *)
(***************************************************************************)
THEOREM PolledFramesAreSweeps == Spec => []FrameIsOneSweep
<1>1. PollInv => FrameIsOneSweep
  BY DEF PollInv, ReceiverInv
<1> QED
  BY <1>1, PollCorrect, PTL
=============================================================================

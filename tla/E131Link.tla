------------------------------ MODULE E131Link ------------------------------
(***************************************************************************)
(* The test sender, a network that loses packets, and the receiver of the  *)
(* firmware (ps/app/e131_receiver.c) with its parser and its sequence       *)
(* numbers: a step of the receiver is e131_receiver_handle_packet for the  *)
(* datagram delivered, on the path the parser and the checks choose.  The  *)
(* PL takes a frame or has no free bank; it has no other reason to refuse  *)
(* one (OnlyFullBanksFail).                                                *)
(*                                                                         *)
(* History: the pixels in the buffers and in what the PL took last, each   *)
(* the frame and the place the sender meant it for; what of the current    *)
(* frame has arrived; whether the sweeps of the two ends may be out of     *)
(* step.                                                                   *)
(***************************************************************************)
EXTENDS E131Receiver, E131Sender, E131Parser

CONSTANTS
    Source,       \* DEFAULT_CID
    Priority,     \* --priority
    CounterSpace  \* number of values of a statistics counter: 2^32

ASSUME LinkAssumption ==
    /\ SLOTS_PER_UNIVERSE = SlotsPerUniverse
    /\ SlotsPerUniverse % 3 = 0 \* 510: a universe holds whole pixels
    /\ Universes = 0 .. ExpectedUniverses - 1
    /\ SyncAddresses = {0, DefaultSyncAddress}
    /\ Source \in Sources
    /\ Priority \in Priorities
    /\ CounterSpace \in Nat \ {0}

VARIABLES
    now,                \* the time of the call
    last_sequence,      \* g_sequence_seen and g_last_sequence
    sequence_anomalies, \* g_status.sequence_anomalies
    contents,           \* history: the pixels in the two buffers
    shown,              \* history: the pixels in what the PL took last
    arrived,            \* history: the universes of `frame' handled so far
    damaged             \* history: the sweeps may be out of step

linkVars == <<now, last_sequence, sequence_anomalies, contents, shown, arrived,
              damaged>>
vars == <<receiverVars, senderVars, linkVars>>

NotSeen == -1
NoSequences == [u \in Universes |-> NotSeen]
Places == 0 .. PixelCount - 1
BlackPixel == <<0, 0>>
BlackImage == [p \in Places |-> BlackPixel]
ImageOf(f) == [p \in Places |-> <<f, p>>]
Images == [Places -> {BlackPixel} \cup ((1 .. MaxFrames) \X Nat)]

TypeOK ==
    /\ ReceiverTypeOK /\ SenderTypeOK
    /\ now \in Times
    /\ last_sequence \in [Universes -> {NotSeen} \cup 0 .. SequenceSpace - 1]
    /\ sequence_anomalies \in 0 .. CounterSpace - 1
    /\ contents \in [{0, 1} -> Images]
    /\ shown \in Images
    /\ arrived \subseteq Universes
    /\ damaged \in BOOLEAN
    /\ \A u \in Universes : last_sequence[u] # NotSeen <=> u \in sweep.received

Init ==
    /\ ReceiverInit /\ SenderInit
    /\ now = 0
    /\ last_sequence = NoSequences
    /\ sequence_anomalies = 0
    /\ contents = [b \in {0, 1} |-> BlackImage]
    /\ shown = BlackImage
    /\ arrived = {}
    /\ damaged = FALSE

-----------------------------------------------------------------------------
(***************************************************************************)
(* The sequence numbers.  clear_assembly forgets them with the sweep; a    *)
(* universe seen before in the sweep is expected with the next number.     *)
(***************************************************************************)
\* Mutated: a restart of the sweep does not.
SequencesKept(packet) == last_sequence

SequencesBefore(packet) ==
    IF Restarts(packet) THEN NoSequences ELSE last_sequence

Anomalous(packet) ==
    LET seen == SequencesBefore(packet)[packet.universe]
    IN  seen # NotSeen /\ packet.sequence # (seen + 1) % SequenceSpace

\* Mutated: a commit does not forget the numbers.
RecordSequenceKept(packet) ==
    /\ sequence_anomalies' =
           IF Anomalous(packet) THEN (sequence_anomalies + 1) % CounterSpace
           ELSE sequence_anomalies
    /\ last_sequence' =
           [SequencesBefore(packet) EXCEPT ![packet.universe] = packet.sequence]

RecordSequence(packet) ==
    /\ sequence_anomalies' =
           IF Anomalous(packet) THEN (sequence_anomalies + 1) % CounterSpace
           ELSE sequence_anomalies
    /\ last_sequence' =
           IF sweep' = EmptySweep THEN NoSequences
           ELSE [SequencesBefore(packet) EXCEPT ![packet.universe] = packet.sequence]

\* The buffers were swapped: the PL took the frame.
Took == write_bank' # write_bank

RecordShown == shown' = IF Took THEN contents'[write_bank] ELSE shown

\* In step again: nothing under way, nothing half assembled.
InStep == AtBoundary' /\ network' = <<>> /\ sweep' = EmptySweep

RecordDamage(now_damaged) ==
    damaged' = ((damaged \/ now_damaged) /\ ~InStep)

\* No fault in the PL: a black frame it took was committed.
NoFault == taken' # taken => Took

-----------------------------------------------------------------------------
(***************************************************************************)
(* e131_receiver_handle_packet.                                            *)
(***************************************************************************)
DataIn(packet) ==
    [source |-> Source, priority |-> Priority, sync |-> packet.sync_address,
     universe |-> packet.universe - FirstUniverse, sequence |-> packet.sequence]

SyncIn(packet) == [source |-> Source, sync |-> packet.sync_address]

\* DAWN_E131_ACCEPT_PREVIEW is 0.
IsPreview(packet) == "preview" \in packet.options

IsTerminated(packet) == "stream_terminated" \in packet.options

\* frame_pipeline_write_linear_rgb, pixel by pixel.
Written(image, packet) ==
    [p \in Places |->
        IF p \in WrittenPixels(packet)
        THEN packet.rgb_slots[3 * (p - FirstLinearPixel(packet)) + 1]
        ELSE image[p]]

\* The packet is of the frame begun last, in the place the sender meant.
ArrivesInPlace(packet) ==
    /\ packet.frame = frame
    /\ Head(packet.rgb_slots) = <<frame, FirstLinearPixel(packet)>>

ReceiveUniverse(packet) ==
    LET data == DataIn(packet)
    IN  /\ IsData(packet) /\ ~IsPreview(packet) /\ ~IsTerminated(packet)
        /\ RightSlots(packet)
        /\ HandleUniverse(data, now)
        /\ sweep'.received = Universes => data.sync # 0
        /\ RecordSequence(data)
        /\ contents' = [contents EXCEPT ![write_bank] = Written(@, packet)]
        /\ arrived' = IF ArrivesInPlace(packet)
                      THEN arrived \cup {data.universe} ELSE arrived

ReceiveWrongSlots(packet) ==
    /\ IsData(packet) /\ ~IsPreview(packet) /\ ~IsTerminated(packet)
    /\ ~RightSlots(packet)
    /\ HandleWrongSlots(DataIn(packet), now)
    /\ UNCHANGED <<last_sequence, sequence_anomalies, contents, arrived>>

ReceiveTerminated(packet) ==
    /\ IsData(packet) /\ ~IsPreview(packet) /\ IsTerminated(packet)
    /\ HandleTerminated(DataIn(packet), now)
    /\ NoFault
    /\ last_sequence' = NoSequences
    /\ contents' = [contents EXCEPT ![write_bank] = BlackImage]
    /\ arrived' = {}
    /\ UNCHANGED sequence_anomalies

ReceiveSync(packet) ==
    /\ ~IsData(packet) /\ IsSync(packet)
    /\ HandleSync(SyncIn(packet), now)
    /\ sweep' = EmptySweep
    /\ last_sequence' = NoSequences
    /\ UNCHANGED <<contents, arrived, sequence_anomalies>>

\* Counted at most: a preview, no packet, or a sync packet nothing waits for.
ReceiveIgnored(packet) ==
    /\ \/ IsData(packet) /\ IsPreview(packet)
       \/ ~IsData(packet) /\ ~IsSync(packet)
       \/ ~IsData(packet) /\ IsSync(packet) /\ ~Releases(SyncIn(packet))
    /\ UNCHANGED <<receiverVars, last_sequence, contents, arrived, sequence_anomalies>>

Receive ==
    \E packet \in ToSet(network) :
        /\ Deliver(packet)
        /\ \/ ReceiveUniverse(packet) \/ ReceiveWrongSlots(packet)
           \/ ReceiveTerminated(packet) \/ ReceiveSync(packet)
           \/ ReceiveIgnored(packet)
        /\ RecordShown
        /\ UNCHANGED now
        /\ RecordDamage(FALSE)

\* e131_receiver_poll, when it blacks out, between two sweeps or within one.
Blackout ==
    /\ TimedOut(now)
    /\ ReceiverPoll(now)
    /\ NoFault
    /\ last_sequence' = NoSequences
    /\ contents' = [contents EXCEPT ![write_bank] = BlackImage]
    /\ RecordShown
    /\ arrived' = {}
    /\ UNCHANGED <<senderVars, sequence_anomalies, now>>
    /\ RecordDamage(TRUE)

\* A poll comes around before the clock has.
Tick ==
    /\ ~TimedOut(now)
    /\ now' = (now + 1) % TimeSpace
    /\ UNCHANGED <<receiverVars, senderVars, last_sequence, sequence_anomalies,
                   contents, shown, arrived, damaged>>

\* The sender stops within a sweep, sends sweeps that wait for the sync packets
\* of somebody else, or other universes than the strands need.
Interrupted == Running /\ ~Running' /\ ~AtBoundary
Unreleased == options'.sync_address # 0 /\ ~options'.send_sync
Mismatched ==
    /\ Running'
    /\ \/ options'.total_pixels # PixelCount
       \/ options'.first_universe # FirstUniverse

SenderStep ==
    /\ Send
    /\ arrived' = IF frame' # frame THEN {} ELSE arrived
    /\ UNCHANGED <<receiverVars, now, last_sequence, sequence_anomalies,
                   contents, shown>>
    /\ RecordDamage(Interrupted \/ Unreleased \/ Mismatched)

Loss ==
    /\ LosePacket
    /\ UNCHANGED <<receiverVars, now, last_sequence, sequence_anomalies,
                   contents, shown, arrived>>
    /\ RecordDamage(TRUE)

Next ==
    \/ SenderStep \/ Loss \/ Receive \/ Blackout \/ Tick

Spec == Init /\ [][Next]_vars

-----------------------------------------------------------------------------
(***************************************************************************)
(* Whatever a packet claims that parses, the receiver reads within the     *)
(* datagram and writes within the frame; a sender with more pixels or      *)
(* another first universe included (e131_parser.c:98-134).                 *)
(***************************************************************************)
ParsedPixelsInFrame ==
    \A packet \in ToSet(network) : IsData(packet) => InBounds(packet)

(***************************************************************************)
(* Whatever the PL takes is black or one frame of the sender with every    *)
(* pixel in its place, unless since the two ends were last in step a       *)
(* packet was lost, the sender was interrupted within a sweep, left out    *)
(* its sync packets or had other universes than the strands, or a          *)
(* blackout fell within a sweep: dropped frames, a change of the sync      *)
(* mode, previews, a terminated stream, a restart between two sweeps and   *)
(* a blackout between them tear nothing, and the last puts the ends in     *)
(* step again (e131_receiver.c:131-173, 310-331).                          *)
(***************************************************************************)
UndamagedFramesAreWhole ==
    [][Took => \/ damaged
               \/ shown' = BlackImage
               \/ \E f \in 1 .. MaxFrames : shown' = ImageOf(f)]_vars

(***************************************************************************)
(* With sync packets losses do not last: when every universe of a frame    *)
(* has arrived in its place and its sync packet arrives, the receiver      *)
(* commits, and what the PL takes is that frame alone, whatever was lost   *)
(* before, a sync packet included (e131_receiver.c:226-239, 373).          *)
(***************************************************************************)
SyncedFrameIsShown ==
    [][Receive /\ ~IsData(Head(network)) /\ IsSync(Head(network))
       /\ Head(network).frame = frame /\ arrived = Universes
         => /\ sweep # EmptySweep /\ sweep' = EmptySweep
            /\ Took => shown' = ImageOf(frame)]_vars

(***************************************************************************)
(* A sequence anomaly is counted only after one of the same mishaps, never *)
(* while sender and receiver are in step: the sender numbers the           *)
(* packets of all universes with one counter, the receiver expects         *)
(* consecutive numbers within each universe, and only because a commit     *)
(* forgets the numbers do the two agree (e131_send.py:163,                 *)
(* e131_receiver.c:345).                                                   *)
(***************************************************************************)
AnomalyMeansDamage ==
    [][sequence_anomalies' # sequence_anomalies => damaged]_vars

=============================================================================

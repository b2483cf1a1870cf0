----------------------------- MODULE E131Sender -----------------------------
(***************************************************************************)
(* The test sender (ps/tools/e131_send.py) and the network behind it.  It  *)
(* sends the universes of a frame in ascending order, then, if told to, a  *)
(* sync packet; one sequence counter runs through the packets of all       *)
(* universes.  It can be interrupted between any two packets and started   *)
(* again with other options.  The network loses packets and keeps the      *)
(* order of those it delivers.                                             *)
(*                                                                         *)
(* Frames are numbered over all runs; a pixel is the frame it belongs to   *)
(* and its place in it.  Packets are records of what is on the wire.  The  *)
(* number of universes is the derived one (--universe-count 0).            *)
(***************************************************************************)
EXTENDS Integers, Sequences, SequencesExt, FiniteSetsExt

CONSTANTS
    SLOTS_PER_UNIVERSE,
    DefaultSyncAddress, \* DEFAULT_SYNC_ADDRESS
    CommandLines,       \* the command lines in use
    SequenceSpace,      \* number of values of a sequence number: 256
    MaxFrames,          \* bound on the frames begun
    MaxInFlight         \* bound on the packets in the network

ASSUME SenderAssumption ==
    /\ SLOTS_PER_UNIVERSE \in Nat \ {0}
    /\ DefaultSyncAddress \in Nat \ {0}
    /\ CommandLines \subseteq
          [sync_address : {0, DefaultSyncAddress}, send_sync : BOOLEAN,
           first_universe : Nat, total_pixels : Nat \ {0},
           data_options : SUBSET {"preview", "stream_terminated"}]
    /\ SequenceSpace \in Nat \ {0}
    /\ MaxFrames \in Nat
    /\ MaxInFlight \in Nat \ {0}

VARIABLES
    options,   \* the command line of the run, Stopped between runs
    frame,     \* the frame begun last
    offset,    \* the universe to send next, universe_count when all are sent
    sequence,  \* sequence
    network    \* the packets on their way

senderVars == <<options, frame, offset, sequence, network>>

Stopped ==
    [sync_address |-> 0, send_sync |-> FALSE, first_universe |-> 0,
     total_pixels |-> 0, data_options |-> {}]

Running == options # Stopped

\* --send-sync without --sync-address takes the default address.
Options ==
    {[line EXCEPT !.sync_address = IF line.send_sync THEN DefaultSyncAddress ELSE @] :
        line \in CommandLines}

total_slots == 3 * options.total_pixels

universe_count == (total_slots + SLOTS_PER_UNIVERSE - 1) \div SLOTS_PER_UNIVERSE

SlotCount(first) == Min({SLOTS_PER_UNIVERSE, total_slots - first})

\* build_slots: three slots a pixel, from the pixel of the first slot on.
SlotsOf(f, first) ==
    [s \in 1 .. SlotCount(first) |-> <<f, (first \div 3) + ((s - 1) \div 3)>>]

\* build_packet, for universe u of frame f.
DataOf(f, u) ==
    LET slots == SlotsOf(f, u * SLOTS_PER_UNIVERSE)
    IN  [length |-> 126 + Len(slots), acn_id |-> TRUE, root_vector |-> 4,
         frame_vector |-> 2, sync_address |-> options.sync_address,
         sequence |-> sequence, options |-> options.data_options,
         universe |-> options.first_universe + u, dmp_vector |-> 2,
         dmp_address |-> [type |-> 161, first |-> 0, increment |-> 1],
         prop_count |-> Len(slots) + 1, start_code |-> 0, rgb_slots |-> slots,
         frame |-> f]

\* Mutated: the address of the command line, without its default.
SyncOfNone(f) ==
    [length |-> 49, acn_id |-> TRUE, root_vector |-> 8, frame_vector |-> 1,
     sync_address |-> 0, frame |-> f]

\* build_sync_packet; `frame' is a history field in both kinds of packet.
SyncOf(f) ==
    [length |-> 49, acn_id |-> TRUE, root_vector |-> 8, frame_vector |-> 1,
     sync_address |-> options.sync_address, frame |-> f]

SenderTypeOK ==
    /\ options \in Options \cup {Stopped}
    /\ frame \in 0 .. MaxFrames
    /\ offset \in 0 .. universe_count + 1
    /\ sequence \in 0 .. SequenceSpace - 1
    /\ Len(network) <= MaxInFlight

SenderInit ==
    /\ options = Stopped
    /\ frame = 0 /\ offset = 0 /\ sequence = 0
    /\ network = <<>>

-----------------------------------------------------------------------------
StartSender ==
    /\ ~Running
    /\ frame < MaxFrames
    /\ options' \in Options
    /\ frame' = frame + 1
    /\ offset' = 0 /\ sequence' = 0
    /\ UNCHANGED network

Transmit(packet) ==
    /\ Running
    /\ Len(network) < MaxInFlight
    /\ network' = Append(network, packet)

NextSequence == (sequence + 1) % SequenceSpace

\* Mutated: the frame advances with every universe.
SendUniverseAdvancing ==
    /\ offset < universe_count
    /\ frame < MaxFrames
    /\ Transmit(DataOf(frame, offset))
    /\ offset' = offset + 1
    /\ frame' = frame + 1
    /\ sequence' = NextSequence
    /\ UNCHANGED options

SendUniverse ==
    /\ offset < universe_count
    /\ Transmit(DataOf(frame, offset))
    /\ offset' = offset + 1
    /\ sequence' = NextSequence
    /\ UNCHANGED <<options, frame>>

SendSync ==
    /\ offset = universe_count /\ options.send_sync
    /\ Transmit(SyncOf(frame))
    /\ offset' = offset + 1
    /\ UNCHANGED <<options, frame, sequence>>

\* Every packet of the frame is sent.
SweepSent ==
    offset = universe_count + (IF options.send_sync THEN 1 ELSE 0)

NextFrame ==
    /\ Running
    /\ SweepSent
    /\ frame < MaxFrames
    /\ frame' = frame + 1
    /\ offset' = 0
    /\ UNCHANGED <<options, sequence, network>>

\* After the last frame, at the deadline, or Ctrl+C in the middle of one.
StopSender ==
    /\ Running
    /\ options' = Stopped
    /\ offset' = 0 /\ sequence' = 0
    /\ UNCHANGED <<frame, network>>

\* Between two sweeps.
AtBoundary == ~Running \/ offset = 0 \/ SweepSent

Send ==
    \/ StartSender \/ SendUniverse \/ SendSync \/ NextFrame \/ StopSender

-----------------------------------------------------------------------------
LosePacket ==
    /\ \E i \in DOMAIN network : network' = RemoveAt(network, i)
    /\ UNCHANGED <<options, frame, offset, sequence>>

Deliver(packet) ==
    /\ network # <<>>
    /\ packet = Head(network)
    /\ network' = Tail(network)
    /\ UNCHANGED <<options, frame, offset, sequence>>

=============================================================================

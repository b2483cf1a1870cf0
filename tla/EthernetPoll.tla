---------------------------- MODULE EthernetPoll -----------------------------
(***************************************************************************)
(* The network poll of the main loop (ps/app/ethernet_receiver.c): rounds  *)
(* of input and draining, both bounded, between the packet ring and the    *)
(* E1.31 receiver, and then the receiver's own poll.  The ring is the      *)
(* queue that RxPacketRing implements.                                     *)
(*                                                                         *)
(* Everything here runs in one thread; what varies is how many packets     *)
(* xemacif_input delivers in a call, which the network decides, and how    *)
(* much time passes while packets are handled, which the PL decides.  A    *)
(* poll reads the time once, when it starts: every packet it receives is   *)
(* stamped with it, also those a later poll handles.                       *)
(***************************************************************************)
EXTENDS E131Receiver, Sequences

CONSTANTS
    RingDepth,     \* RX_PACKET_RING_DEPTH
    InputRounds,   \* RX_INPUT_ROUNDS_PER_POLL
    DrainPerRound, \* RX_DRAIN_PER_INPUT_ROUND
    MaxPollTime    \* bound: ms from the start of a poll to that of the next

ASSUME PollAssumption ==
    /\ RingDepth \in Nat \ {0}
    /\ InputRounds \in Nat \ {0}
    /\ DrainPerRound \in Nat \ {0}
    /\ MaxPollTime \in 0 .. TimeSpace - BlackoutTimeout

VARIABLES
    queue,         \* the packets in the ring
    pc,            \* "main", or which part of a round is running
    round,         \* the index of the round
    round_drained, \* packets drained in it
    input_packets, \* whether g_input_packets_this_call is above zero
    poll_now_ms,   \* g_poll_now_ms
    clock_ms,      \* what monotonic_ms returns
    idle,          \* history: ms since a sender was locked or the PL took a
                   \* frame, up to IdleBound
    black_failed   \* history: a black commit failed, and the PL took no frame
                   \* since

roundVars == <<round, round_drained, input_packets>>
historyVars == <<idle, black_failed>>
vars == <<receiverVars, queue, pc, roundVars, poll_now_ms, clock_ms, historyVars>>

(* What arrives: a packet of a kind the receiver tells apart.              *)
Payloads ==
    [kind : {"universe"}, packet : DataPackets]
      \cup [kind : {"terminated", "wrong_slots"}, packet : Senders]
      \cup [kind : {"sync"}, packet : SyncPackets]

RingPackets == [payload : Payloads, received_ms : Times]

Ring == INSTANCE PacketQueue WITH Packets <- RingPackets, Capacity <- RingDepth

IdleBound == BlackoutTimeout + 2 * MaxPollTime + 1

TypeOK ==
    /\ ReceiverTypeOK
    /\ Ring!TypeOK
    /\ pc \in {"main", "input", "drain"}
    /\ round \in 0 .. InputRounds - 1
    /\ round_drained \in 0 .. DrainPerRound
    /\ input_packets \in BOOLEAN
    /\ poll_now_ms \in Times
    /\ clock_ms \in Times
    /\ idle \in 0 .. IdleBound
    /\ black_failed \in BOOLEAN

FirstRound == round' = 0 /\ round_drained' = 0 /\ input_packets' = FALSE

Init ==
    /\ ReceiverInit
    /\ Ring!Init
    /\ pc = "main"
    /\ round = 0 /\ round_drained = 0 /\ input_packets = FALSE
    /\ poll_now_ms = 0 /\ clock_ms = 0
    /\ idle = 0 /\ black_failed = FALSE

-----------------------------------------------------------------------------
(* Time since the last poll started.                                       *)
SincePoll == Elapsed(clock_ms, poll_now_ms)

(* What the histories keep of a step: frame_pipeline_commit returned 0 when *)
(* the buffers were swapped, and `blackout` says that the frame was black. *)
RecordHistory(blackout) ==
    /\ idle' = IF write_bank' # write_bank \/ locked_cid' # locked_cid
               THEN 0 ELSE idle
    /\ black_failed' = (write_bank' = write_bank /\ (blackout \/ black_failed))

(* A millisecond passes, anywhere in the program.                          *)
Tick ==
    /\ SincePoll < MaxPollTime
    /\ clock_ms' = (clock_ms + 1) % TimeSpace
    /\ idle' = IF idle = IdleBound THEN idle ELSE idle + 1
    /\ UNCHANGED <<receiverVars, queue, pc, roundVars, poll_now_ms, black_failed>>

PollStart ==
    /\ pc = "main"
    /\ pc' = "input"
    /\ poll_now_ms' = clock_ms
    /\ FirstRound
    /\ UNCHANGED <<receiverVars, queue, clock_ms, historyVars>>

(* receive_udp, called by xemacif_input for each packet it finds.          *)
ReceiveUdp(payload) ==
    /\ pc = "input"
    /\ input_packets' = TRUE
    /\ \/ Ring!Put([payload |-> payload, received_ms |-> poll_now_ms])
       \/ Ring!Full /\ UNCHANGED queue
    /\ UNCHANGED <<receiverVars, pc, round, round_drained, poll_now_ms, clock_ms,
                   historyVars>>

(* xemacif_input returns.                                                  *)
InputEnd ==
    /\ pc = "input"
    /\ pc' = "drain"
    /\ UNCHANGED <<receiverVars, queue, roundVars, poll_now_ms, clock_ms,
                   historyVars>>

-----------------------------------------------------------------------------
(* e131_receiver_handle_packet.                                            *)
HandlePacket(payload, now) ==
    LET packet == payload.packet
    IN CASE payload.kind = "universe" /\ Accepts(packet) -> HandleUniverse(packet, now)
         [] payload.kind = "terminated" /\ Accepts(packet) -> HandleTerminated(packet, now)
         [] payload.kind = "wrong_slots" /\ Accepts(packet) -> HandleWrongSlots(packet, now)
         [] payload.kind = "sync" /\ Releases(packet) -> HandleSync(packet, now)
         [] OTHER -> UNCHANGED receiverVars

Terminates(payload) == payload.kind = "terminated" /\ Accepts(payload.packet)

DrainPacket ==
    /\ pc = "drain" /\ round_drained < DrainPerRound
    /\ Ring!Take
    /\ HandlePacket(Head(queue).payload, Head(queue).received_ms)
    /\ RecordHistory(Terminates(Head(queue).payload))
    /\ round_drained' = round_drained + 1
    /\ UNCHANGED <<pc, round, input_packets, poll_now_ms, clock_ms>>

RoundDrained == pc = "drain" /\ (round_drained = DrainPerRound \/ queue = <<>>)

(* Mutant: one round more than the budget allows.                          *)
LastRoundLate == round = InputRounds \/ (~input_packets /\ queue = <<>>)

LastRound == round + 1 = InputRounds \/ (~input_packets /\ queue = <<>>)

(* Mutant: a round that received packets does not count.                   *)
NextRoundUncounted ==
    /\ RoundDrained /\ ~LastRound
    /\ pc' = "input"
    /\ round' = IF input_packets THEN round ELSE round + 1
    /\ round_drained' = 0 /\ input_packets' = FALSE
    /\ UNCHANGED <<receiverVars, queue, poll_now_ms, clock_ms, historyVars>>

NextRound ==
    /\ RoundDrained /\ ~LastRound
    /\ pc' = "input"
    /\ round' = round + 1
    /\ round_drained' = 0 /\ input_packets' = FALSE
    /\ UNCHANGED <<receiverVars, queue, poll_now_ms, clock_ms, historyVars>>

(* The last round is followed by e131_receiver_poll.                       *)
PollEnd ==
    /\ RoundDrained /\ LastRound
    /\ pc' = "main"
    /\ FirstRound
    /\ ReceiverPoll(poll_now_ms)
    /\ RecordHistory(TimedOut(poll_now_ms))
    /\ UNCHANGED <<queue, poll_now_ms, clock_ms>>

Next ==
    \/ Tick
    \/ PollStart
    \/ \E payload \in Payloads : ReceiveUdp(payload)
    \/ InputEnd
    \/ DrainPacket
    \/ NextRound
    \/ PollEnd

Spec == Init /\ [][Next]_vars

(* The main loop runs, and xemacif_input returns.                          *)
FairSpec ==
    Spec /\ WF_vars(PollStart \/ InputEnd \/ DrainPacket \/ NextRound \/ PollEnd)

-----------------------------------------------------------------------------
(* The blackout is on time.  When a poll is over, a sender that is locked  *)
(* was locked, or had a frame taken by the PL, less than the timeout ago,  *)
(* plus what the poll itself took, however old the packets in the ring are *)
(* and wherever the 32-bit time wraps; and when no sender is locked any    *)
(* more the lamps are dark, unless the black commit that went with its     *)
(* release failed, after which nothing tries again.  A sender that takes   *)
(* over restarts the timer and leaves the lamps as they are, so the time   *)
(* is not counted from the last frame alone                                *)
(* (e131_receiver.c:157-173, 189-214, 382-396; ethernet_receiver.c:241,    *)
(* 274).                                                                   *)
BlackoutOnTime ==
    pc = "main" =>
        IF source_locked
        THEN idle < BlackoutTimeout + SincePoll
        ELSE taken = BlackFrame \/ black_failed

(* A poll returns, and with it the blackout timer runs, though packets     *)
(* arrive faster than they are drained (ethernet_receiver.c:242-266).      *)
PollReturns == pc # "main" ~> pc = "main"
=============================================================================

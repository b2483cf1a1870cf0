----------------------------- MODULE E131Parser -----------------------------
(***************************************************************************)
(* ps/app/e131_parser.c: which datagrams are data packets and which are    *)
(* sync packets, and the pixels a data packet is about.                    *)
(*                                                                         *)
(* A datagram is a record of the fields the parser reads, and its length;  *)
(* which check failed only names the error, so a parse is a predicate.     *)
(* The length comes first: a field beyond it is not there to be read.      *)
(***************************************************************************)
EXTENDS Integers

CONSTANTS
    SlotsPerUniverse, \* DAWN_SLOTS_PER_UNIVERSE
    FirstUniverse,    \* g_app_config.first_universe
    PixelCount        \* frame_pipeline_active_pixel_count()

ASSUME ParserAssumption ==
    /\ SlotsPerUniverse \in Nat \ {0}
    /\ FirstUniverse \in Nat
    /\ PixelCount \in Nat

MinDataBytes == 126
MinSyncBytes == 49
RootVectorData == 4
RootVectorExtended == 8
FrameVectorData == 2
FrameVectorSync == 1
DmpVectorData == 2
DmpAddress == [type |-> 161, first |-> 0, increment |-> 1]

HasAcnId(packet, minLength) == packet.length >= minLength /\ packet.acn_id

FirstSlot(packet) == (packet.universe - FirstUniverse) * SlotsPerUniverse

RgbSlotCount(packet) == packet.prop_count - 1

\* e131_parse_data_packet returns E131_PARSE_OK.
IsData(packet) ==
    /\ HasAcnId(packet, MinDataBytes)
    /\ packet.root_vector = RootVectorData
    /\ packet.frame_vector = FrameVectorData
    /\ packet.dmp_vector = DmpVectorData
    /\ packet.dmp_address = DmpAddress
    /\ packet.prop_count \in 1 .. SlotsPerUniverse + 1
    /\ MinDataBytes + packet.prop_count - 1 <= packet.length
    /\ packet.start_code = 0
    /\ packet.universe >= FirstUniverse
    /\ FirstSlot(packet) < 3 * PixelCount
    /\ RgbSlotCount(packet) % 3 = 0

\* e131_parse_sync_packet returns E131_PARSE_OK.
IsSync(packet) ==
    /\ HasAcnId(packet, MinSyncBytes)
    /\ packet.root_vector = RootVectorExtended
    /\ packet.frame_vector = FrameVectorSync

FirstLinearPixel(packet) == FirstSlot(packet) \div 3

\* Mutated: the pixels are not cut off at the end of the frame.
RgbPixelCountUncut(packet) == RgbSlotCount(packet) \div 3

RgbPixelCount(packet) ==
    LET count == RgbSlotCount(packet) \div 3
    IN  IF FirstLinearPixel(packet) + count > PixelCount
        THEN PixelCount - FirstLinearPixel(packet)
        ELSE count

\* The pixels frame_pipeline_write_linear_rgb writes for it.
WrittenPixels(packet) ==
    FirstLinearPixel(packet) .. FirstLinearPixel(packet) + RgbPixelCount(packet) - 1

\* What the caller may read of the datagram and write of the frame.
InBounds(packet) ==
    /\ RgbPixelCount(packet) >= 0
    /\ MinDataBytes + 3 * RgbPixelCount(packet) <= packet.length
    /\ FirstLinearPixel(packet) >= 0
    /\ FirstLinearPixel(packet) + RgbPixelCount(packet) <= PixelCount

-----------------------------------------------------------------------------
(***************************************************************************)
(* What ps/app/e131_receiver.c expects: as many universes as the frame     *)
(* needs, each of them full except the last.                               *)
(***************************************************************************)
ExpectedUniverses == (3 * PixelCount + SlotsPerUniverse - 1) \div SlotsPerUniverse

ExpectedSlots(offset) ==
    LET remaining == 3 * PixelCount - offset * SlotsPerUniverse
    IN  IF remaining > SlotsPerUniverse THEN SlotsPerUniverse ELSE remaining

RightSlots(packet) ==
    LET offset == packet.universe - FirstUniverse
    IN  offset < ExpectedUniverses /\ RgbSlotCount(packet) = ExpectedSlots(offset)

=============================================================================

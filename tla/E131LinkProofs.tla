--------------------------- MODULE E131LinkProofs ---------------------------
(***************************************************************************)
(* The parser, for every datagram and every configuration; then the link   *)
(* between sender and receiver, for every size of the frame, every number  *)
(* of packets under way and every command line.                            *)
(***************************************************************************)
EXTENDS E131Link, E131ReceiverProofs, SequenceTheorems

(***************************************************************************)
(* The inductive invariant.  What is on the wire: the slots of a data      *)
(* packet are pixels of one frame, one after the other.                    *)
(***************************************************************************)
CarriesData(packet) == packet.root_vector = RootVectorData

DataOnWire ==
    [length : Nat, acn_id : {TRUE}, root_vector : {RootVectorData},
     frame_vector : {FrameVectorData}, sync_address : SyncAddresses,
     sequence : 0 .. SequenceSpace - 1,
     options : SUBSET {"preview", "stream_terminated"}, universe : Nat,
     dmp_vector : {DmpVectorData}, dmp_address : {DmpAddress}, prop_count : Nat,
     start_code : {0}, rgb_slots : Seq((1 .. MaxFrames) \X Nat),
     frame : 1 .. MaxFrames]

SyncOnWire ==
    [length : {MinSyncBytes}, acn_id : {TRUE}, root_vector : {RootVectorExtended},
     frame_vector : {FrameVectorSync}, sync_address : SyncAddresses \ {0},
     frame : 1 .. MaxFrames]

\* The place its first slot was meant for.
FirstPlace(packet) == packet.rgb_slots[1][2]

WellFormed(packet) ==
    /\ packet.rgb_slots # <<>>
    /\ packet.prop_count = Len(packet.rgb_slots) + 1
    /\ packet.length = MinDataBytes + Len(packet.rgb_slots)
    /\ \A s \in 1 .. Len(packet.rgb_slots) :
          packet.rgb_slots[s] = <<packet.frame, FirstPlace(packet) + ((s - 1) \div 3)>>

Packets == {packet \in DataOnWire : WellFormed(packet)} \cup SyncOnWire

WireInv == network \in Seq(Packets)

(***************************************************************************)
(* The order on the wire: frames one after the other, the packets of one   *)
(* from one run, its sync packet last.                                     *)
(***************************************************************************)
\* 0 for a packet of a sender with the first universe 0, and so on.
Base(packet) == packet.universe * SlotsPerUniverse - 3 * FirstPlace(packet)

Kin(first, second) ==
    /\ CarriesData(first)
    /\ first.sync_address = second.sync_address
    /\ CarriesData(second) => Base(first) = Base(second)

OfThisRun(packet) ==
    /\ packet.sync_address = options.sync_address
    /\ IF CarriesData(packet)
       THEN Base(packet) = options.first_universe * SlotsPerUniverse
       ELSE offset = universe_count + 1

SenderInv ==
    /\ Running => frame >= 1
    /\ offset <= universe_count + (IF options.send_sync THEN 1 ELSE 0)

OrderInv ==
    /\ \A i \in 1 .. Len(network) :
          /\ network[i].frame <= frame
          /\ Running /\ network[i].frame = frame => OfThisRun(network[i])
    /\ \A i, j \in 1 .. Len(network) : i < j =>
          /\ network[i].frame <= network[j].frame
          /\ network[i].frame = network[j].frame => Kin(network[i], network[j])

AssemblyInv ==
    /\ source_locked => locked_cid = Source
    /\ sync_mode = (sync_address # 0)
    /\ sweep.received = Universes => sweep.pending

\* The first k universes of the buffer hold frame f.
Holds(f, k) ==
    \A p \in Places : (3 * p) \div SlotsPerUniverse < k =>
        contents[write_bank][p] = <<f, p>>

(***************************************************************************)
(* The stream: the packets under way, then the one the sender is about to  *)
(* send if it is within a sweep.  While nothing is damaged each follows    *)
(* from the one before, and the receiver waits for the first.              *)
(***************************************************************************)
Rest == [root_vector |-> 0]

Upcoming ==
    IF AtBoundary THEN Rest
    ELSE IF offset < universe_count THEN DataOf(frame, offset) ELSE SyncOf(frame)

Stream == Append(network, Upcoming)

\* Its place in the sweep; the sync packet comes after the universes.
Rank(packet) ==
    IF CarriesData(packet) THEN packet.universe - FirstUniverse ELSE ExpectedUniverses

Starts(packet) == packet = Rest \/ (CarriesData(packet) /\ Rank(packet) = 0)

Ends(packet) ==
    ~CarriesData(packet)
    \/ (Rank(packet) + 1 = ExpectedUniverses /\ packet.sync_address = 0)

Silent(packet) ==
    CarriesData(packet) /\ (IsPreview(packet) \/ IsTerminated(packet))

Follows(first, second) ==
    IF Ends(first)
    THEN Starts(second)
    ELSE /\ second # Rest
         /\ second.frame = first.frame
         /\ second.sync_address = first.sync_address
         /\ Rank(second) = Rank(first) + 1
         /\ CarriesData(second) <=> Rank(second) < ExpectedUniverses
         /\ CarriesData(second) => second.options = first.options

Fits(packet) ==
    CarriesData(packet) =>
        /\ IsData(packet) /\ RightSlots(packet)
        /\ FirstPlace(packet) = FirstLinearPixel(packet)

Awaited(packet) ==
    \/ /\ sweep = EmptySweep
       /\ Starts(packet) \/ Silent(packet) \/ ~CarriesData(packet)
    \/ /\ ~Starts(packet) /\ ~Silent(packet)
       /\ sweep.received = 0 .. Rank(packet) - 1
       /\ source_locked /\ sync_address = packet.sync_address
       /\ Holds(packet.frame, Rank(packet))

StreamInv ==
    ~damaged =>
        /\ Awaited(Head(Stream))
        /\ \A i \in 1 .. Len(network) :
              Fits(network[i]) /\ Follows(Stream[i], Stream[i + 1])

(***************************************************************************)
(* What arrived of the frame begun last is in the buffer until its sync    *)
(* packet comes.                                                           *)
(***************************************************************************)
SyncToCome ==
    \/ Running /\ offset <= universe_count
    \/ \E i \in 1 .. Len(network) : ~CarriesData(network[i])

ArrivedInv ==
    arrived # {} =>
        /\ \A i \in 1 .. Len(network) :
              /\ network[i].frame = frame
              /\ network[i].sync_address = sync_address
              /\ CarriesData(network[i]) =>
                    Base(network[i]) = FirstUniverse * SlotsPerUniverse
        /\ Running => /\ options.sync_address = sync_address
                      /\ options.first_universe = FirstUniverse
        /\ SyncToCome /\ sync_address # 0 =>
              /\ arrived \subseteq sweep.received
              /\ \A p \in Places : (3 * p) \div SlotsPerUniverse \in arrived =>
                    contents[write_bank][p] = <<frame, p>>

LinkInv ==
    /\ TypeOK /\ ReceiverInv /\ WireInv /\ SenderInv /\ OrderInv
    /\ AssemblyInv /\ StreamInv /\ ArrivedInv

-----------------------------------------------------------------------------
\* The fields of a datagram the arithmetic is about; the others may be anything.
Numbered(packet) ==
    /\ packet.length \in Nat
    /\ packet.prop_count \in Nat
    /\ packet.universe \in Nat

(***************************************************************************)
(* The first slot of a packet that parses is in the frame.                 *)
(***************************************************************************)
LEMMA FirstSlotInFrame ==
    ASSUME NEW packet, Numbered(packet), IsData(packet)
    PROVE  FirstSlot(packet) \in Nat /\ FirstSlot(packet) < 3 * PixelCount
<1>1. packet.universe - FirstUniverse \in Nat
  BY ParserAssumption DEF Numbered, IsData
<1>2. \A a, b \in Nat : a * b \in Nat
  OBVIOUS
<1>3. FirstSlot(packet) \in Nat
  BY <1>1, <1>2, ParserAssumption DEF FirstSlot
<1> QED
  BY <1>3 DEF IsData

(***************************************************************************)
(* Whatever a datagram claims, if it parses, the slots the caller reads    *)
(* are in the datagram and the pixels it writes are in the frame: a        *)
(* number of properties larger than the datagram, a universe beyond the    *)
(* strands and a universe longer than what is left of them change nothing  *)
(* about it (e131_parser.c:98-134).                                        *)
(***************************************************************************)
THEOREM ParsedIsInBounds ==
    ASSUME NEW packet, Numbered(packet), IsData(packet)
    PROVE  InBounds(packet)
<1> DEFINE first == FirstLinearPixel(packet)
           count == RgbSlotCount(packet) \div 3
<1>1. first \in Nat /\ first < PixelCount
  BY FirstSlotInFrame, ParserAssumption DEF FirstLinearPixel
<1>2. count \in Nat /\ 3 * count <= RgbSlotCount(packet)
  BY ParserAssumption DEF RgbSlotCount, Numbered, IsData
<1>3. MinDataBytes + RgbSlotCount(packet) <= packet.length
  BY DEF RgbSlotCount, Numbered, IsData, MinDataBytes
<1>4. RgbSlotCount(packet) \in Nat
  BY ParserAssumption DEF RgbSlotCount, Numbered, IsData
<1>5. /\ RgbPixelCount(packet) \in Nat
      /\ RgbPixelCount(packet) <= count
      /\ first + RgbPixelCount(packet) <= PixelCount
  BY <1>1, <1>2, ParserAssumption DEF RgbPixelCount
<1>6. MinDataBytes + 3 * RgbPixelCount(packet) <= packet.length
  BY <1>2, <1>3, <1>4, <1>5 DEF MinDataBytes, Numbered
<1> QED
  BY <1>1, <1>5, <1>6 DEF InBounds

(***************************************************************************)
(* A packet with the number of slots the receiver expects is never cut     *)
(* off: all its pixels are written, so that a marked universe is a written *)
(* one (e131_receiver.c:325, 355).                                         *)
(***************************************************************************)
THEOREM RightSlotsAreUncut ==
    ASSUME NEW packet, Numbered(packet), IsData(packet), RightSlots(packet)
    PROVE  3 * RgbPixelCount(packet) = RgbSlotCount(packet)
<1> DEFINE slots == RgbSlotCount(packet)
<1>1. slots \in Nat /\ slots % 3 = 0
  BY ParserAssumption DEF RgbSlotCount, Numbered, IsData
<1>2. 3 * (slots \div 3) = slots
  BY <1>1
<1>3. FirstSlot(packet) \in Nat /\ FirstSlot(packet) < 3 * PixelCount
  BY FirstSlotInFrame
<1>4. slots <= 3 * PixelCount - FirstSlot(packet)
  BY <1>3, ParserAssumption DEF RightSlots, ExpectedSlots, FirstSlot
<1>5. FirstLinearPixel(packet) \in Nat /\ slots \div 3 \in Nat
  BY <1>1, <1>3 DEF FirstLinearPixel
<1>6. FirstLinearPixel(packet) + (slots \div 3) <= PixelCount
  BY <1>1, <1>3, <1>4, ParserAssumption DEF FirstLinearPixel
<1>7. RgbPixelCount(packet) = slots \div 3
  BY <1>5, <1>6, ParserAssumption DEF RgbPixelCount
<1> QED
  BY <1>2, <1>7

-----------------------------------------------------------------------------
(***************************************************************************)
(* Division of natural numbers.                                            *)
(***************************************************************************)
LEMMA Division ==
    ASSUME NEW n \in Nat, NEW d \in Nat \ {0}
    PROVE  /\ n \div d \in Nat
           /\ (n \div d) * d <= n
           /\ n < (n \div d) * d + d
OBVIOUS

LEMMA MultipleOfThree ==
    ASSUME NEW a \in Nat, NEW b \in Nat, b % 3 = 0
    PROVE  (a * b) % 3 = 0
<1>1. PICK c \in Nat : b = 3 * c
  <2>1. b = 3 * (b \div 3) /\ b \div 3 \in Nat
    OBVIOUS
  <2> QED
    BY <2>1
<1>2. a * b = 3 * (a * c)
  BY <1>1
<1>3. a * c \in Nat
  BY <1>1
<1>4. \A n \in Nat : (3 * n) % 3 = 0
  OBVIOUS
<1> QED
  BY <1>2, <1>3, <1>4

(***************************************************************************)
(* The universe a slot of the frame is in is one the receiver waits for.   *)
(***************************************************************************)
LEMMA UniverseOfPixel ==
    ASSUME NEW pixel \in 0 .. PixelCount - 1
    PROVE  (3 * pixel) \div SlotsPerUniverse \in 0 .. ExpectedUniverses - 1
<1> DEFINE place == (3 * pixel) \div SlotsPerUniverse
           rounded == 3 * PixelCount + SlotsPerUniverse - 1
<1>1. PixelCount \in Nat /\ SlotsPerUniverse \in Nat \ {0} /\ rounded \in Nat
  BY ParserAssumption
<1>2. place \in Nat /\ place * SlotsPerUniverse <= 3 * pixel
  BY <1>1, Division
<1>3. /\ ExpectedUniverses \in Nat
      /\ rounded < ExpectedUniverses * SlotsPerUniverse + SlotsPerUniverse
  BY <1>1, Division DEF ExpectedUniverses
<1>4. place * SlotsPerUniverse < ExpectedUniverses * SlotsPerUniverse
  <2>1. place * SlotsPerUniverse \in Nat /\ ExpectedUniverses * SlotsPerUniverse \in Nat
    BY <1>1, <1>2, <1>3
  <2> QED
    BY <1>1, <1>2, <1>3, <2>1
<1>5. \A a, b, d \in Nat : a * d < b * d => a < b
  OBVIOUS
<1> QED
  BY <1>1, <1>2, <1>3, <1>4, <1>5

(***************************************************************************)
(* Of a universe with the expected slots every pixel is written.           *)
(***************************************************************************)
LEMMA UniverseIsWritten ==
    ASSUME NEW pixel \in 0 .. PixelCount - 1,
           NEW packet, Numbered(packet), IsData(packet), RightSlots(packet),
           packet.universe = FirstUniverse + ((3 * pixel) \div SlotsPerUniverse)
    PROVE  pixel \in WrittenPixels(packet)
<1> DEFINE place == (3 * pixel) \div SlotsPerUniverse
           first == FirstSlot(packet)
           slots == RgbSlotCount(packet)
<1>1. PixelCount \in Nat /\ SlotsPerUniverse \in Nat \ {0} /\ FirstUniverse \in Nat
  BY ParserAssumption
<1>2. /\ place \in Nat
      /\ place * SlotsPerUniverse <= 3 * pixel
      /\ 3 * pixel < place * SlotsPerUniverse + SlotsPerUniverse
  BY <1>1, Division
<1>3. packet.universe - FirstUniverse = place
  BY <1>1, <1>2
<1>4. first = place * SlotsPerUniverse
  BY <1>3 DEF FirstSlot
<1>5. first \in Nat
  BY FirstSlotInFrame
<1>6. slots \in Nat /\ slots % 3 = 0
  BY <1>1 DEF RgbSlotCount, Numbered, IsData
<1>7. slots = IF 3 * PixelCount - first > SlotsPerUniverse
              THEN SlotsPerUniverse ELSE 3 * PixelCount - first
  BY <1>3, <1>4 DEF RightSlots, ExpectedSlots
<1>8. first % 3 = 0 /\ 3 * pixel < first + slots
  <2>1. CASE 3 * PixelCount - first > SlotsPerUniverse
    BY <1>1, <1>2, <1>4, <1>6, <1>7, <2>1, MultipleOfThree
  <2>2. CASE 3 * PixelCount - first <= SlotsPerUniverse
    BY <1>1, <1>5, <1>6, <1>7, <2>2
  <2> QED
    BY <1>1, <1>5, <2>1, <2>2
<1>9. FirstLinearPixel(packet) \in Nat /\ 3 * FirstLinearPixel(packet) = first
  BY <1>5, <1>8 DEF FirstLinearPixel
<1>10. RgbPixelCount(packet) \in Int /\ 3 * RgbPixelCount(packet) = slots
  <2>1. RgbPixelCount(packet) \in Int
    BY <1>1, <1>6, <1>9 DEF RgbPixelCount
  <2> QED
    BY <2>1, RightSlotsAreUncut
<1>11. 3 * FirstLinearPixel(packet) <= 3 * pixel
  BY <1>2, <1>4, <1>9
<1>12. pixel < FirstLinearPixel(packet) + RgbPixelCount(packet)
  <2>1. 3 * pixel < 3 * FirstLinearPixel(packet) + 3 * RgbPixelCount(packet)
    BY <1>8, <1>9, <1>10
  <2> QED
    BY <1>1, <1>9, <1>10, <2>1
<1>13. FirstLinearPixel(packet) <= pixel
  BY <1>1, <1>9, <1>11
<1> QED
  BY <1>1, <1>9, <1>10, <1>12, <1>13 DEF WrittenPixels

(***************************************************************************)
(* A full bitmap means a full frame: when the receiver has marked every    *)
(* universe it waits for, each by a packet that parsed with the expected   *)
(* slots, every pixel of the frame has been written, for any number of     *)
(* pixels and slots per universe (e131_receiver.c:28-44, 354-361,          *)
(* e131_parser.c:130-134).                                                 *)
(***************************************************************************)
THEOREM FullBitmapIsFullFrame ==
    ASSUME NEW packets,
           \A place \in 0 .. ExpectedUniverses - 1 :
              /\ Numbered(packets[place])
              /\ IsData(packets[place])
              /\ RightSlots(packets[place])
              /\ packets[place].universe = FirstUniverse + place,
           NEW pixel \in 0 .. PixelCount - 1
    PROVE  \E place \in 0 .. ExpectedUniverses - 1 :
              pixel \in WrittenPixels(packets[place])
<1> DEFINE place == (3 * pixel) \div SlotsPerUniverse
<1>1. place \in 0 .. ExpectedUniverses - 1
  BY UniverseOfPixel
<1>2. pixel \in WrittenPixels(packets[place])
  BY <1>1, UniverseIsWritten
<1> QED
  BY <1>1, <1>2

-----------------------------------------------------------------------------
(***************************************************************************)
(* The packets on the wire.                                                *)
(***************************************************************************)
LEMMA Constants ==
    /\ SlotsPerUniverse \in Nat \ {0} /\ SLOTS_PER_UNIVERSE = SlotsPerUniverse
    /\ FirstUniverse \in Nat /\ PixelCount \in Nat \ {0}
    /\ ExpectedUniverses \in Nat \ {0} /\ Universes = 0 .. ExpectedUniverses - 1
    /\ MaxFrames \in Nat /\ MaxInFlight \in Nat \ {0}
    /\ SequenceSpace \in Nat \ {0} /\ CounterSpace \in Nat \ {0}
    /\ DefaultSyncAddress \in Nat \ {0} /\ SyncAddresses = {0, DefaultSyncAddress}
<1>1. /\ SlotsPerUniverse \in Nat \ {0} /\ SLOTS_PER_UNIVERSE = SlotsPerUniverse
      /\ FirstUniverse \in Nat /\ PixelCount \in Nat
      /\ Universes = 0 .. ExpectedUniverses - 1
      /\ MaxFrames \in Nat /\ MaxInFlight \in Nat \ {0}
      /\ SequenceSpace \in Nat \ {0} /\ CounterSpace \in Nat \ {0}
      /\ DefaultSyncAddress \in Nat \ {0} /\ SyncAddresses = {0, DefaultSyncAddress}
  BY ParserAssumption, LinkAssumption, SenderAssumption
<1>2. ExpectedUniverses \in Nat
  <2>1. 3 * PixelCount + SlotsPerUniverse - 1 \in Nat
    BY <1>1
  <2> QED
    BY <1>1, <2>1, Division DEF ExpectedUniverses
<1>3. ExpectedUniverses # 0
  BY <1>1, <1>2, PipelineAssumption
<1>4. PixelCount # 0
  <2> SUFFICES ASSUME PixelCount = 0 PROVE FALSE
    OBVIOUS
  <2>1. ExpectedUniverses = (SlotsPerUniverse - 1) \div SlotsPerUniverse
    BY <1>1 DEF ExpectedUniverses
  <2>2. /\ ExpectedUniverses * SlotsPerUniverse <= SlotsPerUniverse - 1
        /\ SlotsPerUniverse - 1 \in Nat
    BY <1>1, <2>1, Division
  <2>3. \A a, b \in Nat : a # 0 => a * b >= b
    OBVIOUS
  <2>4. ExpectedUniverses * SlotsPerUniverse >= SlotsPerUniverse
    BY <1>1, <1>2, <1>3, <2>3
  <2>5. ExpectedUniverses * SlotsPerUniverse \in Nat
    BY <1>1, <1>2
  <2> QED
    BY <1>1, <2>2, <2>4, <2>5
<1> QED
  BY <1>1, <1>2, <1>3, <1>4

(***************************************************************************)
(* A universe holds whole pixels.                                          *)
(***************************************************************************)
LEMMA WholePixels ==
    ASSUME NEW k \in Nat
    PROVE  /\ k * SlotsPerUniverse \in Nat
           /\ (k * SlotsPerUniverse) \div 3 \in Nat
           /\ 3 * ((k * SlotsPerUniverse) \div 3) = k * SlotsPerUniverse
<1>1. k * SlotsPerUniverse \in Nat /\ (k * SlotsPerUniverse) % 3 = 0
  <2>1. SlotsPerUniverse \in Nat /\ SlotsPerUniverse % 3 = 0
    BY Constants, LinkAssumption
  <2>2. (k * SlotsPerUniverse) % 3 = 0
    BY <2>1, MultipleOfThree
  <2>3. \A a, b \in Nat : a * b \in Nat
    OBVIOUS
  <2> QED
    BY <2>1, <2>2, <2>3
<1> DEFINE slots == k * SlotsPerUniverse
<1>2. \A n \in Nat : n % 3 = 0 => n \div 3 \in Nat /\ 3 * (n \div 3) = n
  OBVIOUS
<1> QED
  BY <1>1, <1>2

LEMMA PacketKinds ==
    ASSUME NEW packet \in Packets
    PROVE  /\ packet.frame \in 1 .. MaxFrames
           /\ packet.sync_address \in SyncAddresses
           /\ packet # Rest
           /\ CarriesData(packet) =>
                 /\ packet \in DataOnWire /\ WellFormed(packet) /\ Numbered(packet)
           /\ ~CarriesData(packet) => packet \in SyncOnWire
           /\ IsData(packet) => CarriesData(packet)
           /\ IsSync(packet) <=> ~CarriesData(packet)
<1>1. CASE packet \in DataOnWire /\ WellFormed(packet)
  <2>1. /\ packet.frame \in 1 .. MaxFrames /\ packet.sync_address \in SyncAddresses
        /\ packet.length \in Nat /\ packet.prop_count \in Nat /\ packet.universe \in Nat
        /\ packet.root_vector = 4
    BY <1>1 DEF DataOnWire, RootVectorData
  <2>2. packet # Rest
    BY <2>1 DEF Rest
  <2>3. CarriesData(packet) /\ ~IsSync(packet)
    BY <2>1 DEF CarriesData, IsSync, RootVectorData, RootVectorExtended
  <2> QED
    BY <1>1, <2>1, <2>2, <2>3 DEF Numbered
<1>2. CASE packet \in SyncOnWire
  <2>1. /\ packet.frame \in 1 .. MaxFrames /\ packet.sync_address \in SyncAddresses
        /\ packet.root_vector = 8 /\ packet.frame_vector = 1
        /\ packet.length = 49 /\ packet.acn_id
    BY <1>2 DEF SyncOnWire, RootVectorExtended, FrameVectorSync, MinSyncBytes
  <2>2. packet # Rest
    BY <2>1 DEF Rest
  <2>3. ~CarriesData(packet) /\ ~IsData(packet)
    BY <2>1 DEF CarriesData, IsData, RootVectorData
  <2>4. IsSync(packet)
    BY <2>1 DEF IsSync, HasAcnId, RootVectorExtended, FrameVectorSync, MinSyncBytes
  <2> QED
    BY <1>2, <2>1, <2>2, <2>3, <2>4
<1> QED
  BY <1>1, <1>2 DEF Packets

-----------------------------------------------------------------------------
(***************************************************************************)
(* What the sender puts on the wire.                                       *)
(***************************************************************************)
LEMMA OptionsType ==
    ASSUME NEW line \in Options
    PROVE  /\ line.sync_address \in SyncAddresses
           /\ line.send_sync \in BOOLEAN
           /\ line.send_sync => line.sync_address # 0
           /\ line.first_universe \in Nat
           /\ line.total_pixels \in Nat \ {0}
           /\ line.data_options \in SUBSET {"preview", "stream_terminated"}
           /\ line # Stopped
<1>1. PICK given \in CommandLines :
        line = [given EXCEPT !.sync_address =
                  IF given.send_sync THEN DefaultSyncAddress ELSE @]
  BY DEF Options
<1>2. given \in [sync_address : {0, DefaultSyncAddress}, send_sync : BOOLEAN,
                 first_universe : Nat, total_pixels : Nat \ {0},
                 data_options : SUBSET {"preview", "stream_terminated"}]
  BY SenderAssumption
<1>3. line.total_pixels \in Nat \ {0}
  BY <1>1, <1>2
<1>4. line # Stopped
  BY <1>3 DEF Stopped
<1> QED
  BY <1>1, <1>2, <1>3, <1>4, Constants

LEMMA OptionsOfRun ==
    ASSUME SenderTypeOK
    PROVE  /\ options.sync_address \in SyncAddresses
           /\ options.send_sync \in BOOLEAN
           /\ options.send_sync => options.sync_address # 0
           /\ options.first_universe \in Nat
           /\ options.total_pixels \in Nat
           /\ Running => options.total_pixels # 0
           /\ options.data_options \in SUBSET {"preview", "stream_terminated"}
<1>1. CASE Running
  BY <1>1, OptionsType DEF SenderTypeOK, Running
<1>2. CASE ~Running
  <2>1. /\ options.sync_address = 0 /\ options.send_sync = FALSE
        /\ options.first_universe = 0 /\ options.total_pixels = 0
        /\ options.data_options = {}
    BY <1>2 DEF Running, Stopped
  <2>2. 0 \in SyncAddresses
    BY Constants
  <2>3. options.send_sync \in BOOLEAN /\ ~options.send_sync
    BY <2>1
  <2>4. options.data_options \in SUBSET {"preview", "stream_terminated"}
    BY <2>1
  <2> QED
    BY <1>2, <2>1, <2>2, <2>3, <2>4
<1> QED
  BY <1>1, <1>2

LEMMA UniverseCount ==
    ASSUME SenderTypeOK
    PROVE  /\ universe_count \in Nat /\ total_slots \in Nat
           /\ Running => universe_count # 0
           /\ \A u \in Nat : u < universe_count => u * SlotsPerUniverse < total_slots
<1> DEFINE rounded == total_slots + SlotsPerUniverse - 1
<1>1. total_slots \in Nat /\ (Running => total_slots # 0)
  BY OptionsOfRun DEF total_slots
<1>2. SlotsPerUniverse \in Nat \ {0} /\ rounded \in Nat
  BY <1>1, Constants
<1>3. universe_count = rounded \div SlotsPerUniverse
  BY Constants DEF universe_count
<1>4. /\ universe_count \in Nat
      /\ universe_count * SlotsPerUniverse <= rounded
      /\ rounded < universe_count * SlotsPerUniverse + SlotsPerUniverse
  <2> HIDE DEF rounded
  <2> QED
    BY <1>2, <1>3, Division
<1>5. ASSUME Running PROVE universe_count # 0
  BY <1>1, <1>2, <1>4, <1>5
<1>6. ASSUME NEW u \in Nat, u < universe_count
      PROVE  u * SlotsPerUniverse < total_slots
  <2>1. \A a, b, d \in Nat : a < b => a * d + d <= b * d /\ a * d \in Nat /\ b * d \in Nat
    <3> SUFFICES ASSUME NEW a \in Nat, NEW b \in Nat, NEW d \in Nat, a < b
                 PROVE  a * d + d <= b * d /\ a * d \in Nat /\ b * d \in Nat
      OBVIOUS
    <3>1. PICK c \in Nat : b = a + 1 + c
      <4>1. b - a - 1 \in Nat /\ b = a + 1 + (b - a - 1)
        OBVIOUS
      <4> QED
        BY <4>1
    <3>2. b * d = a * d + d + c * d
      BY <3>1
    <3>3. c * d \in Nat /\ a * d \in Nat /\ b * d \in Nat
      OBVIOUS
    <3> QED
      BY <3>2, <3>3
  <2>2. /\ u * SlotsPerUniverse + SlotsPerUniverse <= universe_count * SlotsPerUniverse
        /\ u * SlotsPerUniverse \in Nat /\ universe_count * SlotsPerUniverse \in Nat
    BY <1>2, <1>4, <1>6, <2>1
  <2> QED
    BY <1>1, <1>2, <1>4, <2>2
<1> QED
  BY <1>1, <1>4, <1>5, <1>6

LEMMA SlotCountOf ==
    ASSUME SenderTypeOK, NEW u \in Nat, u < universe_count
    PROVE  /\ SlotCount(u * SlotsPerUniverse) \in Nat \ {0}
           /\ SlotCount(u * SlotsPerUniverse) =
                 IF total_slots - u * SlotsPerUniverse > SlotsPerUniverse
                 THEN SlotsPerUniverse ELSE total_slots - u * SlotsPerUniverse
<1> DEFINE first == u * SlotsPerUniverse
<1>1. first \in Nat /\ first < total_slots /\ total_slots \in Nat
  BY UniverseCount, WholePixels
<1>2. \A a, b \in Int : Min({a, b}) = IF b > a THEN a ELSE b
  <2> SUFFICES ASSUME NEW a \in Int, NEW b \in Int
               PROVE  Min({a, b}) = IF b > a THEN a ELSE b
    OBVIOUS
  <2> DEFINE least == IF b > a THEN a ELSE b
  <2>1. least \in {a, b} /\ \A y \in {a, b} : least =< y
    OBVIOUS
  <2>2. \A x \in {a, b} : (\A y \in {a, b} : x =< y) => x = least
    OBVIOUS
  <2> QED
    BY <2>1, <2>2 DEF Min
<1>3. SlotCount(first) = Min({SlotsPerUniverse, total_slots - first})
  BY Constants DEF SlotCount
<1> HIDE DEF first
<1>4. SlotCount(first) = IF total_slots - first > SlotsPerUniverse
                         THEN SlotsPerUniverse ELSE total_slots - first
  BY <1>1, <1>2, <1>3, Constants
<1> QED
  BY <1>1, <1>4, Constants DEF first

LEMMA DataIsPacket ==
    ASSUME SenderTypeOK, NEW f \in 1 .. MaxFrames, NEW u \in Nat, u < universe_count
    PROVE  /\ DataOf(f, u) \in Packets
           /\ CarriesData(DataOf(f, u))
           /\ Base(DataOf(f, u)) = options.first_universe * SlotsPerUniverse
           /\ Len(DataOf(f, u).rgb_slots) = SlotCount(u * SlotsPerUniverse)
           /\ FirstPlace(DataOf(f, u)) = (u * SlotsPerUniverse) \div 3
<1> DEFINE first == u * SlotsPerUniverse
           slots == SlotsOf(f, first)
           packet == DataOf(f, u)
<1>1. first \in Nat /\ first \div 3 \in Nat /\ 3 * (first \div 3) = first
  BY WholePixels
<1>2. SlotCount(first) \in Nat \ {0}
  BY SlotCountOf
<1>3. /\ slots \in Seq((1 .. MaxFrames) \X Nat)
      /\ Len(slots) = SlotCount(first)
      /\ \A s \in 1 .. SlotCount(first) :
            slots[s] = <<f, (first \div 3) + ((s - 1) \div 3)>>
  <2> HIDE DEF first
  <2>1. \A s \in 1 .. SlotCount(first) :
          (first \div 3) + ((s - 1) \div 3) \in Nat
    BY <1>1, <1>2
  <2>2. /\ slots \in [1 .. SlotCount(first) -> (1 .. MaxFrames) \X Nat]
        /\ \A s \in 1 .. SlotCount(first) :
              slots[s] = <<f, (first \div 3) + ((s - 1) \div 3)>>
    BY <2>1 DEF SlotsOf
  <2> HIDE DEF slots
  <2>3. slots \in Seq((1 .. MaxFrames) \X Nat)
    BY <1>2, <2>2, SeqDef
  <2>4. Len(slots) = SlotCount(first)
    BY <1>2, <2>2, <2>3
  <2> QED
    BY <2>2, <2>3, <2>4
<1>4. slots[1] = <<f, first \div 3>> /\ slots # <<>>
  <2>1. 1 \in 1 .. SlotCount(first) /\ (1 - 1) \div 3 = 0
    BY <1>2
  <2>2. slots[1] = <<f, (first \div 3) + ((1 - 1) \div 3)>>
    BY <1>3, <2>1
  <2>3. slots # <<>>
    BY <1>2, <1>3
  <2> QED
    BY <1>1, <2>1, <2>2, <2>3
<1>5. packet =
        [length |-> 126 + Len(slots), acn_id |-> TRUE, root_vector |-> 4,
         frame_vector |-> 2, sync_address |-> options.sync_address,
         sequence |-> sequence, options |-> options.data_options,
         universe |-> options.first_universe + u, dmp_vector |-> 2,
         dmp_address |-> [type |-> 161, first |-> 0, increment |-> 1],
         prop_count |-> Len(slots) + 1, start_code |-> 0, rgb_slots |-> slots,
         frame |-> f]
  BY Constants DEF DataOf
<1>6. options.first_universe + u \in Nat /\ sequence \in 0 .. SequenceSpace - 1
  BY OptionsOfRun DEF SenderTypeOK
<1>7. /\ packet.rgb_slots = slots /\ packet.frame = f
      /\ packet.prop_count = Len(slots) + 1 /\ packet.length = 126 + Len(slots)
      /\ packet.universe = options.first_universe + u /\ packet.root_vector = 4
  BY <1>5
<1>8. packet \in DataOnWire
  <2>1. 126 + Len(slots) \in Nat /\ Len(slots) + 1 \in Nat
    BY <1>2, <1>3
  <2>2. [type |-> 161, first |-> 0, increment |-> 1] \in {DmpAddress}
    BY DEF DmpAddress
  <2>3. /\ options.sync_address \in SyncAddresses
        /\ options.data_options \in SUBSET {"preview", "stream_terminated"}
    BY OptionsOfRun
  <2>4. 4 \in {RootVectorData} /\ 2 \in {FrameVectorData} /\ 2 \in {DmpVectorData}
    BY DEF RootVectorData, FrameVectorData, DmpVectorData
  <2> HIDE DEF slots, packet
  <2> QED
    BY <1>3, <1>5, <1>6, <2>1, <2>2, <2>3, <2>4 DEF DataOnWire
<1>9. FirstPlace(packet) = first \div 3
  BY <1>4, <1>7 DEF FirstPlace
<1>10. WellFormed(packet)
  <2>1. Len(slots) \in Nat
    BY <1>2, <1>3
  <2> HIDE DEF slots, packet, first
  <2> QED
    BY <1>3, <1>4, <1>7, <1>9, <2>1 DEF WellFormed, MinDataBytes
<1>11. Base(packet) = options.first_universe * SlotsPerUniverse
  <2>1. \A a, b, d \in Nat : (a + b) * d = a * d + b * d /\ a * d \in Nat
    OBVIOUS
  <2>2. packet.universe * SlotsPerUniverse
          = options.first_universe * SlotsPerUniverse + first
    BY <1>7, <2>1, OptionsOfRun, Constants
  <2>3. options.first_universe * SlotsPerUniverse \in Nat
    BY <2>1, OptionsOfRun, Constants
  <2> HIDE DEF packet, first
  <2> QED
    BY <1>1, <1>9, <2>2, <2>3 DEF Base
<1>12. CarriesData(packet)
  BY <1>7 DEF CarriesData, RootVectorData
<1> QED
  BY <1>3, <1>7, <1>8, <1>9, <1>10, <1>11, <1>12 DEF Packets

LEMMA SyncIsPacket ==
    ASSUME SenderTypeOK, options.send_sync, NEW f \in 1 .. MaxFrames
    PROVE  SyncOf(f) \in Packets /\ ~CarriesData(SyncOf(f))
<1>1. options.sync_address \in SyncAddresses \ {0}
  BY OptionsOfRun
<1>2. SyncOf(f) \in SyncOnWire
  BY <1>1 DEF SyncOf, SyncOnWire, MinSyncBytes, RootVectorExtended, FrameVectorSync
<1>3. SyncOf(f).root_vector = 8
  BY DEF SyncOf
<1> QED
  BY <1>2, <1>3 DEF Packets, CarriesData, RootVectorData

-----------------------------------------------------------------------------
(***************************************************************************)
(* What can happen to the network: a packet more at its end, or some       *)
(* packets less and the others in their order.                             *)
(***************************************************************************)
Thinned ==
    /\ network' \in Seq(Packets) /\ Len(network') <= Len(network)
    /\ \A i \in 1 .. Len(network') :
          \E k \in 1 .. Len(network) : network'[i] = network[k]
    /\ \A i, j \in 1 .. Len(network') : i < j =>
          \E k, l \in 1 .. Len(network) :
              k < l /\ network'[i] = network[k] /\ network'[j] = network[l]

LEMMA RemoveAtProperties ==
    ASSUME NEW S, NEW s \in Seq(S), NEW i \in 1 .. Len(s)
    PROVE  /\ RemoveAt(s, i) \in Seq(S)
           /\ Len(RemoveAt(s, i)) = Len(s) - 1
           /\ \A j \in 1 .. Len(s) - 1 :
                 RemoveAt(s, i)[j] = IF j < i THEN s[j] ELSE s[j + 1]
<1> DEFINE before == SubSeq(s, 1, i - 1)
           after  == SubSeq(s, i + 1, Len(s))
<1>1. Len(s) \in Nat /\ \A j \in 1 .. Len(s) : s[j] \in S
  BY ElementOfSeq, LenProperties
<1>2. /\ before \in Seq(S) /\ Len(before) = i - 1
      /\ \A j \in 1 .. i - 1 : before[j] = s[j]
  <2>1. /\ SubSeq(s, 1, i - 1) \in Seq(S)
        /\ Len(SubSeq(s, 1, i - 1)) = IF 1 <= i - 1 THEN (i - 1) - 1 + 1 ELSE 0
        /\ \A j \in 1 .. (i - 1) - 1 + 1 : SubSeq(s, 1, i - 1)[j] = s[1 + j - 1]
    <3>1. 1 \in Int /\ i - 1 \in Int /\ \A j \in 1 .. i - 1 : s[j] \in S
      BY <1>1
    <3> QED
      BY <3>1, SubSeqProperties
  <2>2. \A j \in 1 .. i - 1 : 1 + j - 1 = j
    BY <1>1
  <2> QED
    BY <1>1, <2>1, <2>2
<1>3. /\ after \in Seq(S) /\ Len(after) = Len(s) - i
      /\ \A j \in 1 .. Len(s) - i : after[j] = s[i + j]
  <2>1. /\ SubSeq(s, i + 1, Len(s)) \in Seq(S)
        /\ Len(SubSeq(s, i + 1, Len(s))) =
              IF i + 1 <= Len(s) THEN Len(s) - (i + 1) + 1 ELSE 0
        /\ \A j \in 1 .. Len(s) - (i + 1) + 1 :
              SubSeq(s, i + 1, Len(s))[j] = s[(i + 1) + j - 1]
    <3>1. i + 1 \in Int /\ Len(s) \in Int /\ \A j \in i + 1 .. Len(s) : s[j] \in S
      BY <1>1
    <3> QED
      BY <3>1, SubSeqProperties
  <2>2. \A j \in 1 .. Len(s) - i : (i + 1) + j - 1 = i + j
    BY <1>1
  <2> QED
    BY <1>1, <2>1, <2>2
<1> DEFINE joined == before \o after
<1> HIDE DEF before, after
<1>4. /\ joined \in Seq(S)
      /\ Len(joined) = Len(before) + Len(after)
      /\ \A j \in 1 .. Len(before) + Len(after) : joined[j] =
            IF j <= Len(before) THEN before[j] ELSE after[j - Len(before)]
  BY <1>2, <1>3, ConcatProperties
<1>5. RemoveAt(s, i) = joined
  BY DEF RemoveAt, before, after
<1> HIDE DEF joined
<1>6. Len(joined) = Len(s) - 1
  BY <1>1, <1>2, <1>3, <1>4
<1>7. ASSUME NEW j \in 1 .. Len(s) - 1
      PROVE  joined[j] = IF j < i THEN s[j] ELSE s[j + 1]
  <2>1. CASE j < i
    <3>1. /\ j \in 1 .. i - 1 /\ j \in 1 .. Len(before) + Len(after)
          /\ j <= Len(before)
      BY <1>1, <1>2, <1>3, <2>1
    <3>2. joined[j] = before[j]
      BY <1>4, <3>1, Zenon
    <3>3. before[j] = s[j]
      BY <1>2, <3>1, Zenon
    <3> QED
      BY <2>1, <3>2, <3>3
  <2>2. CASE ~(j < i)
    <3>1. /\ j - Len(before) \in 1 .. Len(s) - i
          /\ j \in 1 .. Len(before) + Len(after) /\ ~(j <= Len(before))
      BY <1>1, <1>2, <1>3, <2>2
    <3>2. i + (j - Len(before)) = j + 1
      BY <1>1, <1>2
    <3>3. joined[j] = after[j - Len(before)]
      BY <1>4, <3>1, Zenon
    <3>4. after[j - Len(before)] = s[i + (j - Len(before))]
      BY <1>3, <3>1, Zenon
    <3> QED
      BY <2>2, <3>2, <3>3, <3>4, Zenon
  <2> QED
    BY <2>1, <2>2
<1>8. \A j \in 1 .. Len(s) - 1 : joined[j] = IF j < i THEN s[j] ELSE s[j + 1]
  BY <1>7
<1> QED
  BY <1>4, <1>5, <1>6, <1>8

LEMMA LossThins == WireInv /\ LosePacket => Thinned
<1> SUFFICES ASSUME WireInv, LosePacket PROVE Thinned
  OBVIOUS
<1>1. network \in Seq(Packets) /\ Len(network) \in Nat
  BY LenProperties DEF WireInv
<1>2. PICK i \in 1 .. Len(network) : network' = RemoveAt(network, i)
  BY <1>1, LenProperties DEF LosePacket
<1>3. /\ network' \in Seq(Packets) /\ Len(network') = Len(network) - 1
      /\ \A j \in 1 .. Len(network) - 1 :
            network'[j] = IF j < i THEN network[j] ELSE network[j + 1]
  BY <1>1, <1>2, RemoveAtProperties
<1> DEFINE place(j) == IF j < i THEN j ELSE j + 1
<1>4. \A j \in 1 .. Len(network') :
        place(j) \in 1 .. Len(network) /\ network'[j] = network[place(j)]
  BY <1>1, <1>3
<1>5. \A j, k \in 1 .. Len(network') : j < k => place(j) < place(k)
  BY <1>1, <1>3
<1> HIDE DEF place
<1>6. Len(network') <= Len(network)
  BY <1>1, <1>3
<1>7. \A j \in 1 .. Len(network') :
        \E k \in 1 .. Len(network) : network'[j] = network[k]
  BY <1>4
<1>8. ASSUME NEW j \in 1 .. Len(network'), NEW k \in 1 .. Len(network'), j < k
      PROVE  \E l, m \in 1 .. Len(network) :
                l < m /\ network'[j] = network[l] /\ network'[k] = network[m]
  <2>1. place(j) \in 1 .. Len(network) /\ place(k) \in 1 .. Len(network)
    BY <1>4
  <2>2. place(j) < place(k)
    BY <1>5, <1>8
  <2> QED
    BY <1>4, <2>1, <2>2, Zenon
<1> QED
  BY <1>3, <1>6, <1>7, <1>8 DEF Thinned

LEMMA DeliveryThins ==
    ASSUME WireInv, NEW packet, Deliver(packet)
    PROVE  /\ packet \in Packets /\ packet = network[1] /\ network # <<>>
           /\ 1 \in 1 .. Len(network)
           /\ Len(network') = Len(network) - 1
           /\ \A i \in 1 .. Len(network') : network'[i] = network[i + 1]
           /\ Thinned
<1>1. /\ network \in Seq(Packets) /\ Len(network) \in Nat
      /\ packet = Head(network) /\ network' = Tail(network) /\ network # <<>>
  BY LenProperties DEF WireInv, Deliver
<1>2. /\ packet \in Packets /\ network' \in Seq(Packets)
      /\ Len(network') = Len(network) - 1
      /\ \A i \in 1 .. Len(network') : network'[i] = network[i + 1]
  BY <1>1, HeadTailProperties
<1>3. packet = network[1] /\ Len(network) # 0
  BY <1>1, EmptySeq
<1>4. \A i \in 1 .. Len(network') : i + 1 \in 1 .. Len(network)
  BY <1>1, <1>2
<1>5. \A i, j \in 1 .. Len(network') : i < j => i + 1 < j + 1
  BY <1>1, <1>2
<1>6. Thinned
  BY <1>1, <1>2, <1>4, <1>5 DEF Thinned
<1> QED
  BY <1>1, <1>2, <1>3, <1>6

LEMMA TransmitAppends ==
    ASSUME WireInv, NEW packet \in Packets, Transmit(packet)
    PROVE  /\ network' \in Seq(Packets)
           /\ Len(network') = Len(network) + 1 /\ Len(network) \in Nat
           /\ \A i \in 1 .. Len(network) : network'[i] = network[i]
           /\ network'[Len(network) + 1] = packet
<1>1. network \in Seq(Packets) /\ Len(network) \in Nat
  BY LenProperties DEF WireInv
<1>2. network' = Append(network, packet)
  BY DEF Transmit
<1> QED
  BY <1>1, <1>2, AppendProperties

-----------------------------------------------------------------------------
(***************************************************************************)
(* The sender keeps its types, and the packets on the wire their form.     *)
(***************************************************************************)
LEMMA SendStep ==
    ASSUME SenderTypeOK, SenderInv, WireInv, Send
    PROVE  SenderTypeOK' /\ SenderInv' /\ WireInv'
<1>1. /\ options \in Options \cup {Stopped} /\ frame \in 0 .. MaxFrames
      /\ offset \in 0 .. universe_count + 1 /\ sequence \in 0 .. SequenceSpace - 1
      /\ network \in Seq(Packets) /\ Len(network) \in Nat /\ Len(network) <= MaxInFlight
  BY LenProperties DEF SenderTypeOK, WireInv
<1>2. universe_count \in Nat /\ MaxFrames \in Nat /\ SequenceSpace \in Nat \ {0}
      /\ MaxInFlight \in Nat
  BY UniverseCount, Constants
<1>3. \A line \in Options \cup {Stopped} :
        (3 * line.total_pixels + SLOTS_PER_UNIVERSE - 1) \div SLOTS_PER_UNIVERSE \in Nat
  <2> TAKE line \in Options \cup {Stopped}
  <2>1. line.total_pixels \in Nat
    BY OptionsType DEF Stopped
  <2>2. 3 * line.total_pixels + SLOTS_PER_UNIVERSE - 1 \in Nat
    BY <2>1, Constants
  <2> DEFINE rounded == 3 * line.total_pixels + SLOTS_PER_UNIVERSE - 1
  <2> HIDE DEF rounded
  <2>3. rounded \in Nat => rounded \div SLOTS_PER_UNIVERSE \in Nat
    BY Constants, Division
  <2> QED
    BY <2>2, <2>3 DEF rounded
<1>4. Running => frame \in 1 .. MaxFrames
  BY <1>1, <1>2 DEF SenderInv
<1>5. CASE StartSender
  <2>1. /\ options' \in Options /\ frame' = frame + 1 /\ frame < MaxFrames
        /\ offset' = 0 /\ sequence' = 0 /\ UNCHANGED network
    BY <1>5 DEF StartSender
  <2>2. PICK count \in Nat : universe_count' = count
    BY <1>3, <2>1 DEF universe_count, total_slots
  <2>3. SenderTypeOK'
    BY <1>1, <1>2, <2>1, <2>2 DEF SenderTypeOK
  <2>4. SenderInv'
    BY <1>1, <2>1, <2>2 DEF SenderInv
  <2> QED
    BY <2>1, <2>3, <2>4 DEF WireInv
<1>6. CASE SendUniverse
  <2>1. /\ offset < universe_count /\ Transmit(DataOf(frame, offset))
        /\ offset' = offset + 1 /\ sequence' = (sequence + 1) % SequenceSpace
        /\ UNCHANGED <<options, frame>>
    BY <1>6 DEF SendUniverse, NextSequence
  <2>2. /\ network' \in Seq(Packets) /\ Len(network') = Len(network) + 1
        /\ Len(network) < MaxInFlight
    <3>1. Running /\ Len(network) < MaxInFlight
      BY <2>1 DEF Transmit
    <3>2. DataOf(frame, offset) \in Packets
      BY <1>1, <1>2, <1>4, <2>1, <3>1, DataIsPacket
    <3> QED
      BY <2>1, <3>1, <3>2, TransmitAppends
  <2>3. universe_count' = universe_count
    BY <2>1 DEF universe_count, total_slots
  <2>4. SenderTypeOK'
    BY <1>1, <1>2, <2>1, <2>2, <2>3 DEF SenderTypeOK
  <2>5. SenderInv'
    BY <1>1, <1>2, <2>1, <2>3 DEF SenderInv, Running
  <2> QED
    BY <2>2, <2>4, <2>5 DEF WireInv
<1>7. CASE SendSync
  <2>1. /\ offset = universe_count /\ options.send_sync /\ Transmit(SyncOf(frame))
        /\ offset' = offset + 1 /\ UNCHANGED <<options, frame, sequence>>
    BY <1>7 DEF SendSync
  <2>2. /\ network' \in Seq(Packets) /\ Len(network') = Len(network) + 1
        /\ Len(network) < MaxInFlight
    <3>1. Running /\ Len(network) < MaxInFlight
      BY <2>1 DEF Transmit
    <3>2. SyncOf(frame) \in Packets
      BY <1>4, <2>1, <3>1, SyncIsPacket
    <3> QED
      BY <2>1, <3>1, <3>2, TransmitAppends
  <2>3. universe_count' = universe_count
    BY <2>1 DEF universe_count, total_slots
  <2>4. SenderTypeOK'
    BY <1>1, <1>2, <2>1, <2>2, <2>3 DEF SenderTypeOK
  <2>5. SenderInv'
    BY <1>1, <1>2, <2>1, <2>3 DEF SenderInv, Running
  <2> QED
    BY <2>2, <2>4, <2>5 DEF WireInv
<1>8. CASE NextFrame
  <2>1. /\ frame < MaxFrames /\ frame' = frame + 1 /\ offset' = 0
        /\ options' = options /\ sequence' = sequence /\ network' = network
    BY <1>8 DEF NextFrame
  <2>2. universe_count' = universe_count
    BY <2>1 DEF universe_count, total_slots
  <2>3. SenderTypeOK'
    <3>1. options' \in Options \cup {Stopped}
      BY <1>1, <2>1
    <3>2. frame' \in 0 .. MaxFrames /\ sequence' \in 0 .. SequenceSpace - 1
      BY <1>1, <1>2, <2>1
    <3>3. offset' \in 0 .. universe_count' + 1
      BY <1>2, <2>1, <2>2
    <3>4. Len(network') <= MaxInFlight
      BY <1>1, <2>1
    <3> QED
      BY <3>1, <3>2, <3>3, <3>4 DEF SenderTypeOK
  <2>4. SenderInv'
    BY <1>1, <1>2, <2>1, <2>2 DEF SenderInv
  <2> QED
    BY <2>1, <2>3, <2>4 DEF WireInv
<1>9. CASE StopSender
  <2>1. /\ options' = Stopped /\ offset' = 0 /\ sequence' = 0
        /\ frame' = frame /\ network' = network
    BY <1>9 DEF StopSender
  <2>2. PICK count \in Nat : universe_count' = count
    BY <1>3, <2>1 DEF universe_count, total_slots
  <2>3. SenderTypeOK'
    <3>1. options' \in Options \cup {Stopped}
      BY <1>1, <2>1
    <3>2. frame' \in 0 .. MaxFrames /\ sequence' \in 0 .. SequenceSpace - 1
      BY <1>1, <1>2, <2>1
    <3>3. offset' \in 0 .. universe_count' + 1
      BY <1>2, <2>1, <2>2
    <3>4. Len(network') <= MaxInFlight
      BY <1>1, <2>1
    <3> QED
      BY <3>1, <3>2, <3>3, <3>4 DEF SenderTypeOK
  <2>4. SenderInv'
    BY <2>1, <2>2 DEF SenderInv, Running
  <2> QED
    BY <2>1, <2>3, <2>4 DEF WireInv
<1> QED
  BY <1>5, <1>6, <1>7, <1>8, <1>9 DEF Send

LEMMA ThinnedKept ==
    ASSUME SenderTypeOK, SenderInv, WireInv, Thinned,
           UNCHANGED <<options, frame, offset, sequence>>
    PROVE  SenderTypeOK' /\ SenderInv' /\ WireInv'
<1>1. Len(network') \in Nat /\ Len(network) \in Nat /\ Len(network') <= Len(network)
  BY LenProperties DEF Thinned, WireInv
<1>2. SenderTypeOK'
  BY <1>1, Constants DEF SenderTypeOK, universe_count, total_slots
<1>3. SenderInv'
  BY DEF SenderInv, Running, universe_count, total_slots
<1> QED
  BY <1>2, <1>3 DEF Thinned, WireInv

-----------------------------------------------------------------------------
(***************************************************************************)
(* What a universe does to the sweep: it is added, and the sweep goes to   *)
(* the PL when it is complete and waits for no sync packet.                *)
(***************************************************************************)
LEMMA UniverseEffect ==
    ASSUME NEW packet, NEW time, HandleUniverse(packet, time),
           sweep'.received = Universes => packet.sync # 0
    PROVE  LET before   == SweepBefore(Restarts(packet))
               received == before.received \cup {packet.universe}
           IN  /\ source_locked' /\ locked_cid' = packet.source
               /\ sync_mode' = (packet.sync # 0) /\ sync_address' = packet.sync
               /\ received = Universes /\ packet.sync = 0 => sweep' = EmptySweep
               /\ ~(received = Universes /\ packet.sync = 0) =>
                     /\ sweep' = [received |-> received,
                                  pending  |-> before.pending \/ received = Universes]
                     /\ write_bank' = write_bank
<1> DEFINE before   == SweepBefore(Restarts(packet))
           received == before.received \cup {packet.universe}
           complete == received = Universes
           pixels   == [source |-> packet.source, sync |-> packet.sync, fresh |-> TRUE]
           buffers  == WriteUniverse(BuffersBefore(Restarts(packet)),
                                     packet.universe, pixels)
           assembled == [received |-> received,
                         pending  |-> before.pending \/ (complete /\ packet.sync # 0)]
<1>1. /\ source_locked' /\ locked_cid' = packet.source
      /\ sync_mode' = (packet.sync # 0) /\ sync_address' = packet.sync
  BY DEF HandleUniverse, LockSource
<1>2. CASE complete /\ packet.sync = 0
  <2>1. CommitCurrent(buffers, assembled, DisplayTime(packet, time), time)
    BY <1>2 DEF HandleUniverse
  <2>2. sweep' = EmptySweep \/ sweep' = assembled
    <3> HIDE DEF buffers, assembled
    <3> QED
      BY <2>1 DEF CommitCurrent
  <2>3. sweep' = EmptySweep
    BY <1>2, <2>2
  <2> QED
    BY <1>1, <1>2, <2>3
<1>3. CASE ~(complete /\ packet.sync = 0)
  <2>1. sweep' = assembled /\ UNCHANGED <<write_bank, taken>>
    BY <1>3 DEF HandleUniverse
  <2>2. sweep' = [received |-> received, pending |-> before.pending \/ complete]
    <3>1. (before.pending \/ (complete /\ packet.sync # 0)) = (before.pending \/ complete)
      BY <1>3
    <3> QED
      BY <2>1, <3>1
  <2> QED
    BY <1>1, <1>3, <2>1, <2>2
<1> QED
  BY <1>2, <1>3

LEMMA DataInOK ==
    ASSUME NEW packet \in Packets, IsData(packet)
    PROVE  /\ SenderOK(DataIn(packet))
           /\ DataIn(packet).source = Source
           /\ DataIn(packet).sync = packet.sync_address
           /\ DataIn(packet).universe = packet.universe - FirstUniverse
           /\ DataIn(packet).sequence = packet.sequence
           /\ packet.sequence \in 0 .. SequenceSpace - 1
           /\ RightSlots(packet) =>
                 PacketOK(DataIn(packet)) /\ packet.universe - FirstUniverse \in Universes
<1>1. packet \in DataOnWire /\ packet.sync_address \in SyncAddresses
  BY PacketKinds
<1>2. packet.sequence \in 0 .. SequenceSpace - 1 /\ packet.universe \in Nat
  BY <1>1 DEF DataOnWire
<1>3. SenderOK(DataIn(packet))
  BY LinkAssumption DEF DataIn, SenderOK
<1>4. RightSlots(packet) => packet.universe - FirstUniverse \in Universes
  BY <1>2, Constants DEF RightSlots, IsData
<1> QED
  BY <1>1, <1>2, <1>3, <1>4 DEF DataIn, PacketOK

(***************************************************************************)
(* The pixels a packet writes are pixels it carries.                       *)
(***************************************************************************)
LEMMA WrittenSlots ==
    ASSUME NEW packet \in Packets, IsData(packet), NEW p \in WrittenPixels(packet)
    PROVE  /\ 3 * (p - FirstLinearPixel(packet)) + 1 \in 1 .. Len(packet.rgb_slots)
           /\ packet.rgb_slots[3 * (p - FirstLinearPixel(packet)) + 1] =
                 <<packet.frame, FirstPlace(packet) + (p - FirstLinearPixel(packet))>>
           /\ p - FirstLinearPixel(packet) \in Nat
<1>1. /\ packet \in DataOnWire /\ WellFormed(packet) /\ Numbered(packet)
  BY PacketKinds
<1>2. /\ packet.rgb_slots \in Seq((1 .. MaxFrames) \X Nat) /\ packet.prop_count \in Nat
      /\ Len(packet.rgb_slots) \in Nat
      /\ RgbSlotCount(packet) = Len(packet.rgb_slots)
  <2>1. packet.rgb_slots \in Seq((1 .. MaxFrames) \X Nat) /\ packet.prop_count \in Nat
    BY <1>1 DEF DataOnWire
  <2>2. Len(packet.rgb_slots) \in Nat
    BY <2>1, LenProperties
  <2> QED
    BY <1>1, <2>1, <2>2 DEF WellFormed, RgbSlotCount
<1>3. FirstLinearPixel(packet) \in Nat
  BY <1>1, FirstSlotInFrame DEF FirstLinearPixel
<1>4. RgbPixelCount(packet) \in Int /\ 3 * RgbPixelCount(packet) <= Len(packet.rgb_slots)
  <2> DEFINE slots == RgbSlotCount(packet)
             first == FirstLinearPixel(packet)
  <2>1. RgbPixelCount(packet) = IF first + (slots \div 3) > PixelCount
                                THEN PixelCount - first ELSE slots \div 3
    BY DEF RgbPixelCount
  <2>2. slots \in Nat /\ first \in Nat /\ PixelCount \in Nat
    BY <1>2, <1>3, Constants
  <2>3. \A n \in Nat : n \div 3 \in Nat /\ 3 * (n \div 3) <= n
    OBVIOUS
  <2> HIDE DEF slots, first
  <2>4. RgbPixelCount(packet) \in Int /\ 3 * RgbPixelCount(packet) <= slots
    BY <2>1, <2>2, <2>3
  <2> QED
    BY <1>2, <2>4 DEF slots
<1> DEFINE place == p - FirstLinearPixel(packet)
<1>5. place \in Nat /\ place < RgbPixelCount(packet)
  BY <1>3, <1>4 DEF WrittenPixels
<1> HIDE DEF place
<1>6. 3 * place + 1 \in 1 .. Len(packet.rgb_slots)
  BY <1>2, <1>4, <1>5
<1>7. ((3 * place + 1) - 1) \div 3 = place
  BY <1>5
<1>8. packet.rgb_slots[3 * place + 1] = <<packet.frame, FirstPlace(packet) + place>>
  BY <1>1, <1>6, <1>7 DEF WellFormed
<1> QED
  BY <1>5, <1>6, <1>8 DEF place

LEMMA WrittenType ==
    ASSUME NEW image \in Images, NEW packet \in Packets, IsData(packet)
    PROVE  Written(image, packet) \in Images
<1>1. ASSUME NEW p \in WrittenPixels(packet)
      PROVE  packet.rgb_slots[3 * (p - FirstLinearPixel(packet)) + 1]
                \in (1 .. MaxFrames) \X Nat
  <2>1. packet.rgb_slots \in Seq((1 .. MaxFrames) \X Nat)
    <3>1. packet \in DataOnWire
      BY PacketKinds
    <3> QED
      BY <3>1 DEF DataOnWire
  <2>2. 3 * (p - FirstLinearPixel(packet)) + 1 \in 1 .. Len(packet.rgb_slots)
    BY <1>1, WrittenSlots
  <2> QED
    BY <2>1, <2>2, ElementOfSeq
<1> QED
  BY <1>1 DEF Written, Images

-----------------------------------------------------------------------------
(***************************************************************************)
(* The part of the invariant that holds without regard to the order of the *)
(* packets: types, the receiver's own invariant, the form of what is on    *)
(* the wire, the sender's counters and the sweep.                          *)
(***************************************************************************)
GroundInv ==
    TypeOK /\ ReceiverInv /\ WireInv /\ SenderInv /\ AssemblyInv

HistoryTypeOK ==
    /\ now \in Times
    /\ last_sequence \in [Universes -> {NotSeen} \cup 0 .. SequenceSpace - 1]
    /\ sequence_anomalies \in 0 .. CounterSpace - 1
    /\ contents \in [{0, 1} -> Images]
    /\ shown \in Images
    /\ arrived \subseteq Universes
    /\ damaged \in BOOLEAN

SequencesInv ==
    \A u \in Universes : last_sequence[u] # NotSeen <=> u \in sweep.received

LEMMA GroundParts ==
    GroundInv <=> /\ ReceiverInv /\ SenderTypeOK /\ HistoryTypeOK /\ SequencesInv
                  /\ WireInv /\ SenderInv /\ AssemblyInv
BY DEF GroundInv, TypeOK, ReceiverInv, HistoryTypeOK, SequencesInv

LEMMA EmptySequences ==
    /\ NoSequences \in [Universes -> {NotSeen} \cup 0 .. SequenceSpace - 1]
    /\ \A u \in Universes : NoSequences[u] = NotSeen
    /\ EmptySweep.received = {} /\ EmptySweep.pending = FALSE
    /\ Universes # {}
BY PipelineAssumption DEF NoSequences, EmptySweep

LEMMA ForgottenSequences ==
    ASSUME sweep' = EmptySweep, last_sequence' = NoSequences
    PROVE  /\ last_sequence' \in [Universes -> {NotSeen} \cup 0 .. SequenceSpace - 1]
           /\ SequencesInv'
           /\ sweep'.received # Universes
BY EmptySequences DEF SequencesInv

LEMMA BlackImageType == BlackImage \in Images
BY DEF BlackImage, Images

(***************************************************************************)
(* What the PL took and whether the ends are in step, after any step that  *)
(* records them.                                                           *)
(***************************************************************************)
LEMMA RecordedType ==
    ASSUME ReceiverTypeOK, shown \in Images, contents' \in [{0, 1} -> Images],
           RecordShown, NEW now_damaged, RecordDamage(now_damaged)
    PROVE  shown' \in Images /\ damaged' \in BOOLEAN
<1>1. write_bank \in {0, 1}
  BY DEF ReceiverTypeOK, PipelineTypeOK
<1> QED
  BY <1>1 DEF RecordShown, RecordDamage

-----------------------------------------------------------------------------
(***************************************************************************)
(* The receiver's steps, one lemma for each path of the handler.           *)
(***************************************************************************)
LEMMA SequencesMatch ==
    ASSUME SequencesInv, NEW data, NEW u \in Universes
    PROVE  SequencesBefore(data)[u] # NotSeen
             <=> u \in SweepBefore(Restarts(data)).received
<1>1. CASE Restarts(data)
  BY <1>1, EmptySequences DEF SequencesBefore, SweepBefore
<1>2. CASE ~Restarts(data)
  BY <1>2 DEF SequencesBefore, SweepBefore, SequencesInv
<1> QED
  BY <1>1, <1>2

LEMMA ReceiveUniverseGround ==
    ASSUME GroundInv, NEW packet \in Packets, ReceiveUniverse(packet)
    PROVE  /\ ReceiverInv' /\ SequencesInv' /\ AssemblyInv'
           /\ last_sequence' \in [Universes -> {NotSeen} \cup 0 .. SequenceSpace - 1]
           /\ sequence_anomalies' \in 0 .. CounterSpace - 1
           /\ contents' \in [{0, 1} -> Images]
           /\ arrived' \subseteq Universes
<1> DEFINE data     == DataIn(packet)
           before   == SweepBefore(Restarts(data))
           received == before.received \cup {data.universe}
<1>1. /\ IsData(packet) /\ RightSlots(packet) /\ HandleUniverse(data, now)
      /\ sweep'.received = Universes => data.sync # 0
      /\ RecordSequence(data)
      /\ contents' = [contents EXCEPT ![write_bank] = Written(@, packet)]
      /\ arrived' = IF ArrivesInPlace(packet)
                    THEN arrived \cup {data.universe} ELSE arrived
  BY DEF ReceiveUniverse
<1>2. /\ PacketOK(data) /\ data.source = Source /\ data.universe \in Universes
      /\ data.sequence \in 0 .. SequenceSpace - 1
  BY <1>1, DataInOK
<1>3. /\ ReceiverInv /\ HistoryTypeOK /\ SequencesInv /\ AssemblyInv
      /\ now \in Times /\ write_bank \in {0, 1}
  BY GroundParts DEF HistoryTypeOK, ReceiverInv, ReceiverTypeOK, PipelineTypeOK
<1> HIDE DEF data
<1>4. ReceiverInv'
  BY <1>1, <1>2, <1>3, UniverseStep
<1>5. /\ source_locked' /\ locked_cid' = data.source
      /\ sync_mode' = (data.sync # 0) /\ sync_address' = data.sync
      /\ received = Universes /\ data.sync = 0 => sweep' = EmptySweep
      /\ ~(received = Universes /\ data.sync = 0) =>
            /\ sweep' = [received |-> received,
                         pending  |-> before.pending \/ received = Universes]
            /\ write_bank' = write_bank
  BY <1>1, UniverseEffect
<1>6. AssemblyInv'
  <2>1. CASE received = Universes /\ data.sync = 0
    BY <1>2, <1>5, <2>1, EmptySequences DEF AssemblyInv
  <2>2. CASE ~(received = Universes /\ data.sync = 0)
    <3>1. /\ sweep'.received = received
          /\ sweep'.pending = (before.pending \/ received = Universes)
      BY <1>5, <2>2
    <3>2. sweep'.received = Universes => sweep'.pending
      BY <3>1
    <3>3. sync_mode' = (sync_address' # 0)
      BY <1>5
    <3> QED
      BY <1>2, <1>5, <3>2, <3>3 DEF AssemblyInv
  <2> QED
    BY <2>1, <2>2
<1>7. SequencesBefore(data) \in [Universes -> {NotSeen} \cup 0 .. SequenceSpace - 1]
  BY <1>3, EmptySequences DEF SequencesBefore, HistoryTypeOK
<1>8. \A u \in Universes : SequencesBefore(data)[u] # NotSeen <=> u \in before.received
  BY <1>3, SequencesMatch
<1>9. /\ SequencesInv'
      /\ last_sequence' \in [Universes -> {NotSeen} \cup 0 .. SequenceSpace - 1]
  <2>1. CASE sweep' = EmptySweep
    BY <1>1, <2>1, ForgottenSequences DEF RecordSequence
  <2>2. CASE sweep' # EmptySweep
    <3>1. last_sequence' = [SequencesBefore(data) EXCEPT ![data.universe] = data.sequence]
      BY <1>1, <2>2 DEF RecordSequence
    <3>2. sweep'.received = received
      BY <1>5, <2>2
    <3>3. data.sequence # NotSeen
      BY <1>2, Constants DEF NotSeen
    <3>4. last_sequence' \in [Universes -> {NotSeen} \cup 0 .. SequenceSpace - 1]
      BY <1>2, <1>7, <3>1
    <3>5. ASSUME NEW u \in Universes
          PROVE  last_sequence'[u] # NotSeen <=> u \in sweep'.received
      BY <1>2, <1>7, <1>8, <3>1, <3>2, <3>3
    <3> QED
      BY <3>4, <3>5 DEF SequencesInv
  <2> QED
    BY <2>1, <2>2
<1>10. sequence_anomalies' \in 0 .. CounterSpace - 1
  BY <1>1, <1>3, Constants DEF RecordSequence, HistoryTypeOK
<1>11. contents' \in [{0, 1} -> Images]
  BY <1>1, <1>3, WrittenType DEF HistoryTypeOK
<1>12. arrived' \subseteq Universes
  BY <1>1, <1>2, <1>3 DEF HistoryTypeOK
<1> QED
  BY <1>4, <1>6, <1>9, <1>10, <1>11, <1>12

(***************************************************************************)
(* There is one sender, so that no packet takes over from another.         *)
(***************************************************************************)
LEMMA OneSource ==
    ASSUME AssemblyInv, NEW packet, packet.source = Source
    PROVE  ~Preempts(packet)
BY DEF AssemblyInv, Preempts

LEMMA ReceiveWrongSlotsGround ==
    ASSUME GroundInv, NEW packet \in Packets, ReceiveWrongSlots(packet)
    PROVE  /\ ReceiverInv' /\ AssemblyInv'
           /\ UNCHANGED <<sync_mode, sync_address, sweep, write_bank, last_sequence,
                          sequence_anomalies, contents, arrived>>
           /\ frame_words' = frame_words /\ taken' = taken
<1> DEFINE data == DataIn(packet)
<1>1. /\ IsData(packet) /\ HandleWrongSlots(data, now)
      /\ last_sequence' = last_sequence /\ sequence_anomalies' = sequence_anomalies
      /\ contents' = contents /\ arrived' = arrived
  BY DEF ReceiveWrongSlots
<1>2. SenderOK(data) /\ data.source = Source
  BY <1>1, DataInOK
<1>3. ReceiverInv /\ AssemblyInv /\ now \in Times
  BY GroundParts DEF HistoryTypeOK
<1> HIDE DEF data
<1>4. ReceiverInv'
  BY <1>1, <1>2, <1>3, WrongSlotsStep
<1>5. /\ source_locked' /\ locked_cid' = Source
      /\ sweep' = sweep /\ frame_words' = frame_words
      /\ sync_mode' = sync_mode /\ sync_address' = sync_address
      /\ write_bank' = write_bank /\ taken' = taken
  BY <1>1, <1>2, <1>3, OneSource
     DEF HandleWrongSlots, LockSource, SweepBefore, BuffersBefore, syncVars
<1>6. AssemblyInv'
  BY <1>3, <1>5 DEF AssemblyInv
<1> QED
  BY <1>1, <1>4, <1>5, <1>6

(***************************************************************************)
(* A sender released or a frame committed leaves an empty sweep.           *)
(***************************************************************************)
LEMMA ReleasedGround ==
    ASSUME GroundInv, NEW displayed \in Times, CommitBlack(displayed, now),
           last_sequence' = NoSequences,
           contents' = [contents EXCEPT ![write_bank] = BlackImage], arrived' = {},
           sequence_anomalies' = sequence_anomalies
    PROVE  /\ ReceiverInv' /\ SequencesInv' /\ AssemblyInv'
           /\ sweep' = EmptySweep
           /\ last_sequence' \in [Universes -> {NotSeen} \cup 0 .. SequenceSpace - 1]
           /\ sequence_anomalies' \in 0 .. CounterSpace - 1
           /\ contents' \in [{0, 1} -> Images]
           /\ arrived' \subseteq Universes
<1>1. ReceiverInv /\ HistoryTypeOK /\ now \in Times /\ write_bank \in {0, 1}
  BY GroundParts DEF HistoryTypeOK, ReceiverInv, ReceiverTypeOK, PipelineTypeOK
<1>2. ReceiverInv'
  BY <1>1, CommitBlackStep DEF ReceiverInv
<1>3. sweep' = EmptySweep /\ ~source_locked' /\ ~sync_mode' /\ sync_address' = 0
  BY DEF CommitBlack, ReleaseLock
<1>4. /\ last_sequence' \in [Universes -> {NotSeen} \cup 0 .. SequenceSpace - 1]
      /\ SequencesInv' /\ sweep'.received # Universes
  BY <1>3, ForgottenSequences
<1>5. AssemblyInv'
  <2>1. sync_mode' = (sync_address' # 0)
    <3>1. sync_mode' = FALSE
      BY DEF CommitBlack, ReleaseLock
    <3> QED
      BY <1>3, <3>1
  <2> QED
    BY <1>3, <1>4, <2>1 DEF AssemblyInv
<1>6. contents' \in [{0, 1} -> Images]
  BY <1>1, BlackImageType DEF HistoryTypeOK
<1> QED
  BY <1>1, <1>2, <1>3, <1>4, <1>5, <1>6 DEF HistoryTypeOK

LEMMA ReceiveSyncGround ==
    ASSUME GroundInv, NEW packet, ReceiveSync(packet)
    PROVE  /\ ReceiverInv' /\ SequencesInv' /\ AssemblyInv'
           /\ sweep' = EmptySweep
           /\ UNCHANGED <<sync_mode, sync_address, sequence_anomalies, contents, arrived>>
           /\ last_sequence' \in [Universes -> {NotSeen} \cup 0 .. SequenceSpace - 1]
<1>1. ReceiverInv /\ AssemblyInv /\ now \in Times
  BY GroundParts DEF HistoryTypeOK
<1>2. /\ HandleSync(SyncIn(packet), now) /\ sweep' = EmptySweep
      /\ last_sequence' = NoSequences
      /\ contents' = contents /\ arrived' = arrived
      /\ sequence_anomalies' = sequence_anomalies
  BY DEF ReceiveSync
<1>3. ReceiverInv'
  BY <1>1, <1>2, SyncStep
<1>4. /\ source_locked' = source_locked /\ locked_cid' = locked_cid
      /\ sync_mode' = sync_mode /\ sync_address' = sync_address
  BY <1>2 DEF HandleSync, lockVars, syncVars
<1>5. /\ last_sequence' \in [Universes -> {NotSeen} \cup 0 .. SequenceSpace - 1]
      /\ SequencesInv' /\ sweep'.received # Universes
  BY <1>2, ForgottenSequences
<1>6. AssemblyInv'
  BY <1>1, <1>4, <1>5 DEF AssemblyInv
<1> QED
  BY <1>2, <1>3, <1>4, <1>5, <1>6

LEMMA IdleGround ==
    ASSUME GroundInv,
           UNCHANGED <<receiverVars, last_sequence, contents, arrived, sequence_anomalies>>
    PROVE  /\ ReceiverInv' /\ SequencesInv' /\ AssemblyInv'
           /\ last_sequence' \in [Universes -> {NotSeen} \cup 0 .. SequenceSpace - 1]
           /\ sequence_anomalies' \in 0 .. CounterSpace - 1
           /\ contents' \in [{0, 1} -> Images]
           /\ arrived' \subseteq Universes
           /\ UNCHANGED <<source_locked, sync_mode, sync_address, sweep, write_bank>>
<1>1. /\ UNCHANGED receiverVars
      /\ last_sequence' = last_sequence /\ contents' = contents
      /\ arrived' = arrived /\ sequence_anomalies' = sequence_anomalies
  OBVIOUS
<1>2. /\ source_locked' = source_locked /\ locked_cid' = locked_cid
      /\ sync_mode' = sync_mode /\ sync_address' = sync_address
      /\ sweep' = sweep /\ write_bank' = write_bank
  BY <1>1 DEF receiverVars, lockVars, syncVars, pipelineVars
<1>3. ReceiverInv /\ HistoryTypeOK /\ SequencesInv /\ AssemblyInv
  BY GroundParts
<1>4. ReceiverInv'
  BY <1>1, <1>3, ReceiverInvKept
<1>5. SequencesInv' /\ AssemblyInv'
  BY <1>1, <1>2, <1>3 DEF SequencesInv, AssemblyInv
<1> QED
  BY <1>1, <1>2, <1>3, <1>4, <1>5 DEF HistoryTypeOK

LEMMA TerminatedReleases ==
    ASSUME GroundInv, NEW packet, ReceiveTerminated(packet)
    PROVE  \E displayed \in Times : CommitBlack(displayed, now)
<1>1. ReceiverTypeOK /\ now \in Times
  BY GroundParts DEF ReceiverInv, HistoryTypeOK
<1>2. CommitBlack(DisplayTime(DataIn(packet), now), now)
  BY DEF ReceiveTerminated, HandleTerminated
<1>3. DisplayTime(DataIn(packet), now) \in Times
  BY <1>1, DisplayTimeType
<1> QED
  BY <1>2, <1>3

LEMMA BlackoutReleases ==
    ASSUME GroundInv, Blackout
    PROVE  \E displayed \in Times : CommitBlack(displayed, now)
<1>1. last_display_ms \in Times
  BY GroundParts DEF ReceiverInv, ReceiverTypeOK
<1>2. CommitBlack(last_display_ms, now)
  BY DEF Blackout, ReceiverPoll
<1> QED
  BY <1>1, <1>2

LEMMA ReceiveGround ==
    ASSUME GroundInv, NEW packet \in Packets,
           \/ ReceiveUniverse(packet) \/ ReceiveWrongSlots(packet)
           \/ ReceiveTerminated(packet) \/ ReceiveSync(packet)
           \/ ReceiveIgnored(packet)
    PROVE  /\ ReceiverInv' /\ SequencesInv' /\ AssemblyInv'
           /\ last_sequence' \in [Universes -> {NotSeen} \cup 0 .. SequenceSpace - 1]
           /\ sequence_anomalies' \in 0 .. CounterSpace - 1
           /\ contents' \in [{0, 1} -> Images]
           /\ arrived' \subseteq Universes
<1>1. HistoryTypeOK /\ SequencesInv
  BY GroundParts
<1>2. CASE ReceiveUniverse(packet)
  BY <1>2, ReceiveUniverseGround
<1>3. CASE ReceiveWrongSlots(packet)
  <2>1. /\ ReceiverInv' /\ AssemblyInv' /\ sweep' = sweep
        /\ last_sequence' = last_sequence /\ contents' = contents
        /\ sequence_anomalies' = sequence_anomalies /\ arrived' = arrived
    BY <1>3, ReceiveWrongSlotsGround
  <2>2. SequencesInv'
    BY <1>1, <2>1 DEF SequencesInv
  <2> QED
    BY <1>1, <2>1, <2>2 DEF HistoryTypeOK
<1>4. CASE ReceiveTerminated(packet)
  <2>1. PICK displayed \in Times : CommitBlack(displayed, now)
    BY <1>4, TerminatedReleases
  <2>2. /\ last_sequence' = NoSequences /\ arrived' = {}
        /\ contents' = [contents EXCEPT ![write_bank] = BlackImage]
        /\ sequence_anomalies' = sequence_anomalies
    BY <1>4 DEF ReceiveTerminated
  <2> QED
    BY <2>1, <2>2, ReleasedGround
<1>5. CASE ReceiveSync(packet)
  <2>1. /\ contents' = contents /\ arrived' = arrived
        /\ sequence_anomalies' = sequence_anomalies
    BY <1>5 DEF ReceiveSync
  <2> QED
    BY <1>1, <1>5, <2>1, ReceiveSyncGround DEF HistoryTypeOK
<1>6. CASE ReceiveIgnored(packet)
  BY <1>6, IdleGround DEF ReceiveIgnored
<1> QED
  BY <1>2, <1>3, <1>4, <1>5, <1>6

LEMMA GroundInit == Init => GroundInv
<1> SUFFICES ASSUME Init PROVE GroundInv
  OBVIOUS
<1>1. ReceiverInv
  BY ReceiverInitInv DEF Init
<1>2. options = Stopped /\ frame = 0 /\ offset = 0 /\ sequence = 0 /\ network = <<>>
  BY DEF Init, SenderInit
<1>3. universe_count \in Nat
  <2>1. 3 * options.total_pixels + SLOTS_PER_UNIVERSE - 1 = SLOTS_PER_UNIVERSE - 1
    BY <1>2, Constants DEF Stopped
  <2>2. SLOTS_PER_UNIVERSE - 1 \in Nat /\ SLOTS_PER_UNIVERSE \in Nat \ {0}
    BY Constants
  <2>3. \A n \in Nat, d \in Nat \ {0} : n \div d \in Nat
    BY Division
  <2> QED
    BY <2>1, <2>2, <2>3 DEF universe_count, total_slots
<1>4. WireInv /\ Len(network) = 0
  BY <1>2, EmptySeq DEF WireInv
<1>5. SenderTypeOK
  BY <1>2, <1>3, <1>4, Constants DEF SenderTypeOK
<1>6. SenderInv
  BY <1>2, <1>3 DEF SenderInv, Running, Stopped
<1>7. /\ sweep = EmptySweep /\ last_sequence = NoSequences
      /\ ~source_locked /\ sync_mode = FALSE /\ sync_address = 0
  BY DEF Init, ReceiverInit
<1>8. SequencesInv /\ AssemblyInv
  BY <1>7, EmptySequences DEF SequencesInv, AssemblyInv
<1>9. HistoryTypeOK
  <2>1. /\ now = 0 /\ sequence_anomalies = 0 /\ shown = BlackImage
        /\ contents = [b \in {0, 1} |-> BlackImage]
        /\ arrived = {} /\ damaged = FALSE
    BY DEF Init
  <2>2. now \in Times /\ sequence_anomalies \in 0 .. CounterSpace - 1
    BY <2>1, ReceiverAssumption, Constants DEF Times
  <2>3. shown \in Images /\ contents \in [{0, 1} -> Images]
    BY <2>1, BlackImageType
  <2>4. damaged \in BOOLEAN
    BY <2>1
  <2> QED
    BY <1>7, <2>1, <2>2, <2>3, <2>4, EmptySequences DEF HistoryTypeOK
<1> QED
  BY <1>1, <1>4, <1>5, <1>6, <1>8, <1>9, GroundParts

LEMMA GroundStep == GroundInv /\ [Next]_vars => GroundInv'
<1> SUFFICES ASSUME GroundInv, [Next]_vars PROVE GroundInv'
  OBVIOUS
<1>1. /\ ReceiverInv /\ SenderTypeOK /\ HistoryTypeOK /\ SequencesInv
      /\ WireInv /\ SenderInv /\ AssemblyInv
  BY GroundParts
<1>2. /\ ReceiverTypeOK /\ now \in Times /\ shown \in Images /\ damaged \in BOOLEAN
      /\ TimeSpace \in Nat \ {0}
  BY <1>1, ReceiverAssumption DEF ReceiverInv, HistoryTypeOK
<1>3. GroundInv' <=> /\ ReceiverInv' /\ SenderTypeOK' /\ HistoryTypeOK' /\ SequencesInv'
                     /\ WireInv' /\ SenderInv' /\ AssemblyInv'
  BY DEF GroundInv, TypeOK, ReceiverInv, HistoryTypeOK, SequencesInv
<1>4. CASE SenderStep
  <2>1. /\ Send /\ RecordDamage(Interrupted \/ Unreleased \/ Mismatched)
        /\ UNCHANGED receiverVars /\ now' = now /\ last_sequence' = last_sequence
        /\ sequence_anomalies' = sequence_anomalies /\ contents' = contents
        /\ shown' = shown /\ arrived' = IF frame' # frame THEN {} ELSE arrived
    BY <1>4 DEF SenderStep
  <2>2. SenderTypeOK' /\ SenderInv' /\ WireInv'
    BY <1>1, <2>1, SendStep
  <2>3. ReceiverInv' /\ AssemblyInv' /\ SequencesInv'
    <3>1. ReceiverInv'
      BY <1>1, <2>1, ReceiverInvKept
    <3>2. /\ source_locked' = source_locked /\ locked_cid' = locked_cid
          /\ sync_mode' = sync_mode /\ sync_address' = sync_address /\ sweep' = sweep
      BY <2>1 DEF receiverVars, lockVars, syncVars
    <3> QED
      BY <1>1, <2>1, <3>1, <3>2 DEF SequencesInv, AssemblyInv
  <2>4. damaged' \in BOOLEAN
    BY <2>1 DEF RecordDamage
  <2>5. HistoryTypeOK'
    BY <1>1, <2>1, <2>4 DEF HistoryTypeOK
  <2> QED
    BY <1>3, <2>2, <2>3, <2>5
<1>5. CASE Loss
  <2>1. /\ LosePacket /\ RecordDamage(TRUE)
        /\ UNCHANGED <<receiverVars, last_sequence, contents, arrived,
                       sequence_anomalies>>
        /\ now' = now /\ shown' = shown
    BY <1>5 DEF Loss
  <2>2. Thinned /\ UNCHANGED <<options, frame, offset, sequence>>
    BY <1>1, <2>1, LossThins DEF LosePacket
  <2>3. SenderTypeOK' /\ SenderInv' /\ WireInv'
    BY <1>1, <2>2, ThinnedKept
  <2>4. damaged' \in BOOLEAN
    BY <2>1 DEF RecordDamage
  <2> QED
    BY <1>2, <1>3, <2>1, <2>3, <2>4, IdleGround DEF HistoryTypeOK
<1>6. CASE Receive
  <2>1. PICK packet \in ToSet(network) :
          /\ Deliver(packet)
          /\ \/ ReceiveUniverse(packet) \/ ReceiveWrongSlots(packet)
             \/ ReceiveTerminated(packet) \/ ReceiveSync(packet)
             \/ ReceiveIgnored(packet)
          /\ RecordShown /\ now' = now /\ RecordDamage(FALSE)
    BY <1>6 DEF Receive
  <2>2. Thinned /\ packet \in Packets /\ UNCHANGED <<options, frame, offset, sequence>>
    BY <1>1, <2>1, DeliveryThins DEF Deliver
  <2>3. SenderTypeOK' /\ SenderInv' /\ WireInv'
    BY <1>1, <2>2, ThinnedKept
  <2>4. /\ ReceiverInv' /\ SequencesInv' /\ AssemblyInv'
        /\ last_sequence' \in [Universes -> {NotSeen} \cup 0 .. SequenceSpace - 1]
        /\ sequence_anomalies' \in 0 .. CounterSpace - 1
        /\ contents' \in [{0, 1} -> Images]
        /\ arrived' \subseteq Universes
    BY <2>1, <2>2, ReceiveGround
  <2>5. shown' \in Images /\ damaged' \in BOOLEAN
    BY <1>2, <2>1, <2>4, RecordedType
  <2> QED
    BY <1>2, <1>3, <2>1, <2>3, <2>4, <2>5 DEF HistoryTypeOK
<1>7. CASE Blackout
  <2>1. /\ last_sequence' = NoSequences /\ arrived' = {}
        /\ contents' = [contents EXCEPT ![write_bank] = BlackImage]
        /\ RecordShown /\ RecordDamage(TRUE) /\ UNCHANGED senderVars
        /\ sequence_anomalies' = sequence_anomalies /\ now' = now
    BY <1>7 DEF Blackout
  <2>2. PICK displayed \in Times : CommitBlack(displayed, now)
    BY <1>7, BlackoutReleases
  <2>3. /\ ReceiverInv' /\ SequencesInv' /\ AssemblyInv'
        /\ last_sequence' \in [Universes -> {NotSeen} \cup 0 .. SequenceSpace - 1]
        /\ sequence_anomalies' \in 0 .. CounterSpace - 1
        /\ contents' \in [{0, 1} -> Images]
        /\ arrived' \subseteq Universes
    BY <2>1, <2>2, ReleasedGround
  <2>4. shown' \in Images /\ damaged' \in BOOLEAN
    BY <1>2, <2>1, <2>3, RecordedType
  <2>5. SenderTypeOK' /\ SenderInv' /\ WireInv'
    BY <1>1, <2>1
       DEF senderVars, SenderTypeOK, SenderInv, WireInv, Running, universe_count, total_slots
  <2> QED
    BY <1>2, <1>3, <2>1, <2>3, <2>4, <2>5 DEF HistoryTypeOK
<1>8. CASE Tick \/ UNCHANGED vars
  <2>1. /\ UNCHANGED <<receiverVars, last_sequence, contents, arrived, sequence_anomalies>>
        /\ UNCHANGED senderVars /\ shown' = shown /\ damaged' = damaged
        /\ now' = now \/ now' = (now + 1) % TimeSpace
    BY <1>8 DEF Tick, vars, linkVars
  <2>2. SenderTypeOK' /\ SenderInv' /\ WireInv'
    BY <1>1, <2>1
       DEF senderVars, SenderTypeOK, SenderInv, WireInv, Running, universe_count, total_slots
  <2>3. now' \in Times
    BY <1>2, <2>1 DEF Times
  <2> QED
    BY <1>2, <1>3, <2>1, <2>2, <2>3, IdleGround DEF HistoryTypeOK
<1> QED
  BY <1>4, <1>5, <1>6, <1>7, <1>8 DEF Next

LEMMA GroundCorrect == Spec => []GroundInv
BY GroundInit, GroundStep, PTL DEF Spec

(***************************************************************************)
(* Every variable of the link stays in its range, and a sequence number is *)
(* kept exactly for the universes of the sweep, through restarts, commits  *)
(* and blackouts.                                                          *)
(***************************************************************************)
THEOREM LinkTypeCorrect == Spec => []TypeOK
<1>1. GroundInv => TypeOK
  BY DEF GroundInv
<1> QED
  BY <1>1, GroundCorrect, PTL

(***************************************************************************)
(* Of whatever the sender puts on the wire, with any number of pixels and  *)
(* from any first universe, the receiver reads within the datagram and     *)
(* writes within the frame (e131_parser.c:98-134).                         *)
(***************************************************************************)
THEOREM ParsedPixelsAreInFrame == Spec => []ParsedPixelsInFrame
<1>1. GroundInv => ParsedPixelsInFrame
  <2> SUFFICES ASSUME GroundInv, NEW packet \in ToSet(network), IsData(packet)
               PROVE  InBounds(packet)
    BY DEF ParsedPixelsInFrame
  <2>1. network \in Seq(Packets)
    BY DEF GroundInv, WireInv
  <2>2. packet \in Packets
    BY <2>1, LenProperties, ElementOfSeq DEF ToSet
  <2>3. Numbered(packet)
    BY <2>2, PacketKinds
  <2> QED
    BY <2>3, ParsedIsInBounds
<1> QED
  BY <1>1, GroundCorrect, PTL

-----------------------------------------------------------------------------
(***************************************************************************)
(* The stream: the packets on the wire and the one to come.                *)
(***************************************************************************)
LEMMA AppendAny ==
    ASSUME NEW S, NEW s \in Seq(S), NEW e
    PROVE  /\ Len(s) \in Nat
           /\ \A i \in 1 .. Len(s) : Append(s, e)[i] = s[i]
           /\ Append(s, e)[Len(s) + 1] = e
           /\ Head(Append(s, e)) = Append(s, e)[1]
           /\ s = <<>> <=> Len(s) = 0
<1>1. s \in Seq(S \cup {e})
  BY SeqMonotonic
<1>2. /\ Append(s, e) \in Seq(S \cup {e})
      /\ Len(Append(s, e)) = Len(s) + 1
      /\ \A i \in 1 .. Len(s) : Append(s, e)[i] = s[i]
      /\ Append(s, e)[Len(s) + 1] = e
  BY <1>1, AppendProperties
<1>3. Len(s) \in Nat /\ (s = <<>> <=> Len(s) = 0)
  BY EmptySeq, LenProperties
<1>4. Head(Append(s, e)) = Append(s, e)[1]
  BY <1>2
<1> QED
  BY <1>2, <1>3, <1>4

LEMMA StreamParts ==
    ASSUME WireInv
    PROVE  StreamInv <=>
             (~damaged =>
                /\ Awaited(IF network = <<>> THEN Upcoming ELSE network[1])
                /\ \A i \in 1 .. Len(network) :
                      /\ Fits(network[i])
                      /\ Follows(network[i], IF i < Len(network) THEN network[i + 1]
                                             ELSE Upcoming))
<1>1. /\ Len(network) \in Nat
      /\ \A i \in 1 .. Len(network) : Stream[i] = network[i]
      /\ Stream[Len(network) + 1] = Upcoming
      /\ Head(Stream) = Stream[1]
      /\ network = <<>> <=> Len(network) = 0
  BY AppendAny DEF WireInv, Stream
<1>2. Head(Stream) = IF network = <<>> THEN Upcoming ELSE network[1]
  <2>1. CASE network = <<>>
    BY <1>1, <2>1
  <2>2. CASE network # <<>>
    <3>1. 1 \in 1 .. Len(network)
      BY <1>1, <2>2
    <3> QED
      BY <1>1, <2>2, <3>1
  <2> QED
    BY <2>1, <2>2
<1>3. ASSUME NEW i \in 1 .. Len(network)
      PROVE  /\ Stream[i] = network[i]
             /\ Stream[i + 1] = IF i < Len(network) THEN network[i + 1] ELSE Upcoming
  <2>1. CASE i < Len(network)
    <3>1. i + 1 \in 1 .. Len(network)
      BY <1>1, <2>1
    <3> QED
      BY <1>1, <2>1, <3>1
  <2>2. CASE ~(i < Len(network))
    <3>1. i + 1 = Len(network) + 1
      BY <1>1, <2>2
    <3> QED
      BY <1>1, <2>2, <3>1
  <2> QED
    BY <2>1, <2>2
<1> QED
  BY <1>2, <1>3, Zenon DEF StreamInv

LEMMA StreamPartsNext ==
    ASSUME WireInv',
           ~damaged' =>
             /\ Awaited(IF network = <<>> THEN Upcoming ELSE network[1])'
             /\ \A i \in 1 .. Len(network') :
                   /\ Fits(network'[i])
                   /\ Follows(network'[i], IF i < Len(network') THEN network'[i + 1]
                                           ELSE Upcoming')
    PROVE  StreamInv'
<1>1. /\ Len(network') \in Nat
      /\ \A i \in 1 .. Len(network') : Stream'[i] = network'[i]
      /\ Stream'[Len(network') + 1] = Upcoming'
      /\ Head(Stream') = Stream'[1]
      /\ network' = <<>> <=> Len(network') = 0
  BY AppendAny DEF WireInv, Stream
<1>2. Head(Stream)' = (IF network = <<>> THEN Upcoming ELSE network[1])'
  <2>1. CASE network' = <<>>
    BY <1>1, <2>1
  <2>2. CASE network' # <<>>
    <3>1. 1 \in 1 .. Len(network')
      BY <1>1, <2>2
    <3> QED
      BY <1>1, <2>2, <3>1
  <2> QED
    BY <2>1, <2>2
<1>3. ASSUME NEW i \in 1 .. Len(network')
      PROVE  /\ Stream'[i] = network'[i]
             /\ Stream'[i + 1] = IF i < Len(network') THEN network'[i + 1] ELSE Upcoming'
  <2>1. CASE i < Len(network')
    <3>1. i + 1 \in 1 .. Len(network')
      BY <1>1, <2>1
    <3> QED
      BY <1>1, <2>1, <3>1
  <2>2. CASE ~(i < Len(network'))
    <3>1. i + 1 = Len(network') + 1
      BY <1>1, <2>2
    <3> QED
      BY <1>1, <2>2, <3>1
  <2> QED
    BY <2>1, <2>2
<1> QED
  BY <1>2, <1>3, Zenon DEF StreamInv

(***************************************************************************)
(* A sender with the pixels and the first universe of the board sends as   *)
(* many universes as the receiver waits for, and each fits.                *)
(***************************************************************************)
Matched ==
    options.total_pixels = PixelCount /\ options.first_universe = FirstUniverse

LEMMA MatchedCount ==
    ASSUME Matched
    PROVE  total_slots = 3 * PixelCount /\ universe_count = ExpectedUniverses
BY Constants DEF Matched, total_slots, universe_count, ExpectedUniverses

LEMMA MatchedFits ==
    ASSUME SenderTypeOK, Matched, NEW f \in 1 .. MaxFrames,
           NEW u \in Nat, u < universe_count
    PROVE  /\ Fits(DataOf(f, u))
           /\ DataOf(f, u).universe - FirstUniverse = u
<1> DEFINE packet == DataOf(f, u)
           first  == u * SlotsPerUniverse
           slots  == SlotCount(first)
<1>1. /\ total_slots = 3 * PixelCount /\ universe_count = ExpectedUniverses
      /\ SlotsPerUniverse \in Nat \ {0} /\ PixelCount \in Nat /\ FirstUniverse \in Nat
      /\ SlotsPerUniverse % 3 = 0
  BY MatchedCount, Constants, LinkAssumption
<1>2. first \in Nat /\ first % 3 = 0 /\ first < 3 * PixelCount
  BY <1>1, UniverseCount, WholePixels, MultipleOfThree
<1>3. /\ slots \in Nat \ {0}
      /\ slots = IF 3 * PixelCount - first > SlotsPerUniverse
                 THEN SlotsPerUniverse ELSE 3 * PixelCount - first
  BY <1>1, SlotCountOf
<1>4. /\ packet \in Packets /\ CarriesData(packet)
      /\ Len(packet.rgb_slots) = slots /\ FirstPlace(packet) = first \div 3
  BY DataIsPacket
<1>5. packet \in DataOnWire /\ WellFormed(packet)
  BY <1>4, PacketKinds
<1>6. packet.universe = FirstUniverse + u
  BY DEF DataOf, Matched
<1>7. packet.universe - FirstUniverse = u
  BY <1>1, <1>6
<1>8. /\ packet.prop_count = slots + 1 /\ packet.length = 126 + slots
      /\ packet.acn_id = TRUE /\ packet.root_vector = RootVectorData
      /\ packet.frame_vector = FrameVectorData /\ packet.dmp_vector = DmpVectorData
      /\ packet.dmp_address = DmpAddress /\ packet.start_code = 0
  <2>1. packet.prop_count = slots + 1 /\ packet.length = 126 + slots
    BY <1>4, <1>5 DEF WellFormed, MinDataBytes
  <2>2. /\ packet.acn_id = TRUE /\ packet.root_vector = RootVectorData
        /\ packet.frame_vector = FrameVectorData /\ packet.dmp_vector = DmpVectorData
        /\ packet.dmp_address = DmpAddress /\ packet.start_code = 0
    BY <1>5 DEF DataOnWire
  <2> QED
    BY <2>1, <2>2
<1> HIDE DEF packet, slots
<1>9. FirstSlot(packet) = first /\ RgbSlotCount(packet) = slots
  BY <1>3, <1>7, <1>8 DEF FirstSlot, RgbSlotCount
<1>10. slots <= SlotsPerUniverse /\ slots % 3 = 0
  <2> HIDE DEF first
  <2>1. CASE 3 * PixelCount - first > SlotsPerUniverse
    BY <1>1, <1>3, <2>1
  <2>2. CASE ~(3 * PixelCount - first > SlotsPerUniverse)
    BY <1>1, <1>2, <1>3, <2>2
  <2> QED
    BY <2>1, <2>2
<1>11. IsData(packet)
  <2>1. packet.length >= MinDataBytes /\ MinDataBytes + packet.prop_count - 1 <= packet.length
    BY <1>3, <1>8 DEF MinDataBytes
  <2>2. packet.prop_count \in 1 .. SlotsPerUniverse + 1
    BY <1>1, <1>3, <1>8, <1>10
  <2>3. packet.universe >= FirstUniverse
    BY <1>1, <1>6
  <2>4. FirstSlot(packet) < 3 * PixelCount /\ RgbSlotCount(packet) % 3 = 0
    BY <1>2, <1>9, <1>10
  <2> QED
    BY <1>8, <2>1, <2>2, <2>3, <2>4 DEF IsData, HasAcnId
<1>12. RightSlots(packet)
  BY <1>1, <1>3, <1>7, <1>9 DEF RightSlots, ExpectedSlots
<1>13. FirstPlace(packet) = FirstLinearPixel(packet)
  BY <1>4, <1>9 DEF FirstLinearPixel
<1> QED
  BY <1>7, <1>11, <1>12, <1>13 DEF Fits, packet

(***************************************************************************)
(* The fields of what is to come.                                          *)
(***************************************************************************)
LEMMA DataFields ==
    ASSUME NEW f, NEW u
    PROVE  /\ DataOf(f, u).frame = f
           /\ DataOf(f, u).sync_address = options.sync_address
           /\ DataOf(f, u).universe = options.first_universe + u
           /\ DataOf(f, u).options = options.data_options
           /\ CarriesData(DataOf(f, u))
           /\ DataOf(f, u) # Rest
<1>1. DataOf(f, u).root_vector = 4
  BY DEF DataOf
<1>2. Rest.root_vector = 0
  BY DEF Rest
<1>3. DataOf(f, u) # Rest
  BY <1>1, <1>2
<1> QED
  BY <1>1, <1>3 DEF DataOf, CarriesData, RootVectorData

LEMMA DataFieldsNext ==
    ASSUME NEW f, NEW u
    PROVE  /\ DataOf(f, u)'.frame = f
           /\ DataOf(f, u)'.sync_address = options'.sync_address
           /\ DataOf(f, u)'.universe = options'.first_universe + u
           /\ DataOf(f, u)'.options = options'.data_options
           /\ CarriesData(DataOf(f, u)')
           /\ DataOf(f, u)' # Rest
<1>1. DataOf(f, u)'.root_vector = 4
  BY DEF DataOf
<1>2. Rest.root_vector = 0
  BY DEF Rest
<1>3. DataOf(f, u)' # Rest
  BY <1>1, <1>2
<1> QED
  BY <1>1, <1>3 DEF DataOf, CarriesData, RootVectorData

LEMMA SyncFields ==
    ASSUME NEW f
    PROVE  /\ SyncOf(f).frame = f
           /\ SyncOf(f).sync_address = options.sync_address
           /\ ~CarriesData(SyncOf(f))
           /\ SyncOf(f) # Rest
<1>1. SyncOf(f).root_vector = 8
  BY DEF SyncOf
<1>2. Rest.root_vector = 0
  BY DEF Rest
<1>3. SyncOf(f) # Rest
  BY <1>1, <1>2
<1> QED
  BY <1>1, <1>3 DEF SyncOf, CarriesData, RootVectorData

LEMMA RestKind ==
    /\ ~CarriesData(Rest) /\ Starts(Rest) /\ ~Silent(Rest)
<1>1. Rest.root_vector = 0
  BY DEF Rest
<1> QED
  BY <1>1 DEF CarriesData, Starts, Silent, RootVectorData

(***************************************************************************)
(* Between two sweeps nothing is to come; within one the next packet.      *)
(***************************************************************************)
LEMMA UpcomingKinds ==
    ASSUME SenderTypeOK, SenderInv, Running
    PROVE  /\ AtBoundary => Upcoming = Rest
           /\ offset < universe_count /\ offset # 0 =>
                 ~AtBoundary /\ Upcoming = DataOf(frame, offset)
           /\ offset = universe_count /\ options.send_sync =>
                 ~AtBoundary /\ Upcoming = SyncOf(frame)
           /\ ~AtBoundary => \/ offset < universe_count /\ offset # 0
                             \/ offset = universe_count /\ options.send_sync
<1>1. universe_count \in Nat /\ universe_count # 0 /\ offset \in Nat
      /\ options.send_sync \in BOOLEAN
  BY UniverseCount, OptionsOfRun DEF SenderTypeOK
<1>2. offset <= universe_count + (IF options.send_sync THEN 1 ELSE 0)
  BY DEF SenderInv
<1>3. AtBoundary <=>
        offset = 0 \/ offset = universe_count + (IF options.send_sync THEN 1 ELSE 0)
  BY DEF AtBoundary, SweepSent
<1>4. ~AtBoundary => \/ offset < universe_count /\ offset # 0
                     \/ offset = universe_count /\ options.send_sync
  BY <1>1, <1>2, <1>3
<1>5. /\ offset < universe_count /\ offset # 0 => ~AtBoundary
      /\ offset = universe_count /\ options.send_sync => ~AtBoundary
  BY <1>1, <1>3
<1> QED
  BY <1>1, <1>4, <1>5 DEF Upcoming

(***************************************************************************)
(* What the receiver awaits after a step.                                  *)
(***************************************************************************)
LEMMA AwaitsFirst ==
    ASSUME sweep' = EmptySweep,
           NEW packet, Starts(packet) \/ Silent(packet) \/ ~CarriesData(packet)
    PROVE  Awaited(packet)'
BY DEF Awaited

LEMMA AwaitsNext ==
    ASSUME NEW packet, ~Starts(packet), ~Silent(packet),
           sweep'.received = 0 .. Rank(packet) - 1,
           source_locked', sync_address' = packet.sync_address,
           \A p \in Places : (3 * p) \div SlotsPerUniverse < Rank(packet) =>
              contents'[write_bank'][p] = <<packet.frame, p>>
    PROVE  Awaited(packet)'
BY DEF Awaited, Holds

LEMMA AwaitedKept ==
    ASSUME UNCHANGED <<sweep, source_locked, sync_address, write_bank, contents>>,
           NEW packet, Awaited(packet)
    PROVE  Awaited(packet)'
<1>1. /\ sweep' = sweep /\ source_locked' = source_locked
      /\ sync_address' = sync_address /\ write_bank' = write_bank
      /\ contents' = contents
  OBVIOUS
<1>2. CASE /\ sweep = EmptySweep
           /\ Starts(packet) \/ Silent(packet) \/ ~CarriesData(packet)
  BY <1>1, <1>2, AwaitsFirst
<1>3. CASE /\ ~Starts(packet) /\ ~Silent(packet)
           /\ sweep.received = 0 .. Rank(packet) - 1
           /\ source_locked /\ sync_address = packet.sync_address
           /\ Holds(packet.frame, Rank(packet))
  <2>1. \A p \in Places : (3 * p) \div SlotsPerUniverse < Rank(packet) =>
           contents'[write_bank'][p] = <<packet.frame, p>>
    BY <1>1, <1>3 DEF Holds
  <2> QED
    BY <1>1, <1>3, <2>1, AwaitsNext
<1> QED
  BY <1>2, <1>3 DEF Awaited

(***************************************************************************)
(* Something that starts a sweep may take the place of nothing to come.    *)
(***************************************************************************)
LEMMA StartsForRest ==
    ASSUME NEW packet, Starts(packet)
    PROVE  /\ Awaited(Rest) => Awaited(packet)
           /\ \A other : Follows(other, Rest) => Follows(other, packet)
BY RestKind DEF Awaited, Follows

LEMMA InStepStream ==
    ASSUME WireInv', InStep
    PROVE  StreamInv'
<1>1. network' = <<>> /\ sweep' = EmptySweep /\ Upcoming' = Rest
  BY DEF InStep, Upcoming
<1>2. (IF network = <<>> THEN Upcoming ELSE network[1])' = Rest
  BY <1>1
<1>3. Awaited(Rest)'
  BY <1>1, AwaitsFirst, RestKind
<1>4. Len(network') = 0
  BY <1>1
<1>5. \A i \in 1 .. Len(network') :
         /\ Fits(network'[i])
         /\ Follows(network'[i], IF i < Len(network') THEN network'[i + 1]
                                 ELSE Upcoming')
  BY <1>4
<1>6. Awaited(IF network = <<>> THEN Upcoming ELSE network[1])'
  BY <1>2, <1>3
<1> QED
  BY <1>5, <1>6, StreamPartsNext

(***************************************************************************)
(* A step of the sender that puts nothing on the wire, between two sweeps. *)
(***************************************************************************)
LEMMA QuietStream ==
    ASSUME WireInv, WireInv', StreamInv, ~damaged' => ~damaged,
           network' = network, Upcoming' = Upcoming,
           UNCHANGED <<sweep, source_locked, sync_address, write_bank, contents>>
    PROVE  StreamInv'
<1> SUFFICES ASSUME ~damaged' PROVE StreamInv'
  BY DEF StreamInv
<1> PICK first : first = IF network = <<>> THEN Upcoming ELSE network[1]
  OBVIOUS
<1>1. /\ Awaited(first)
      /\ \A i \in 1 .. Len(network) :
            /\ Fits(network[i])
            /\ Follows(network[i], IF i < Len(network) THEN network[i + 1]
                                   ELSE Upcoming)
  BY StreamParts
<1>2. (IF network = <<>> THEN Upcoming ELSE network[1])' = first
  OBVIOUS
<1>3. Awaited(first)'
  BY <1>1, AwaitedKept
<1>4. Awaited(IF network = <<>> THEN Upcoming ELSE network[1])'
  BY <1>2, <1>3
<1>5. \A i \in 1 .. Len(network') :
         /\ Fits(network'[i])
         /\ Follows(network'[i], IF i < Len(network') THEN network'[i + 1]
                                 ELSE Upcoming')
  BY <1>1
<1> QED
  BY <1>4, <1>5, StreamPartsNext

(***************************************************************************)
(* The packet to come goes on the wire, or one that starts a sweep when    *)
(* nothing was to come.                                                    *)
(***************************************************************************)
LEMMA SentStream ==
    ASSUME WireInv, WireInv', StreamInv, ~damaged' => ~damaged,
           NEW packet \in Packets, network' = Append(network, packet),
           packet = Upcoming \/ (Upcoming = Rest /\ Starts(packet)),
           Fits(packet), Follows(packet, Upcoming'),
           UNCHANGED <<sweep, source_locked, sync_address, write_bank, contents>>
    PROVE  StreamInv'
<1> SUFFICES ASSUME ~damaged' PROVE StreamInv'
  BY DEF StreamInv
<1>1. /\ Awaited(IF network = <<>> THEN Upcoming ELSE network[1])
      /\ \A i \in 1 .. Len(network) :
            /\ Fits(network[i])
            /\ Follows(network[i], IF i < Len(network) THEN network[i + 1]
                                   ELSE Upcoming)
  BY StreamParts
<1>2. /\ Awaited(Upcoming) => Awaited(packet)
      /\ \A other : Follows(other, Upcoming) => Follows(other, packet)
  BY StartsForRest
<1>3. /\ Len(network) \in Nat /\ Len(network') = Len(network) + 1
      /\ \A i \in 1 .. Len(network) : network'[i] = network[i]
      /\ network'[Len(network) + 1] = packet
      /\ network = <<>> <=> Len(network) = 0
      /\ network' # <<>>
  <2>1. network \in Seq(Packets)
    BY DEF WireInv
  <2>2. Append(network, packet) \in Seq(Packets) /\ Len(Append(network, packet)) # 0
    BY <2>1, AppendProperties, LenProperties
  <2> QED
    BY <2>1, <2>2, AppendProperties, AppendAny, EmptySeq
<1>4. Awaited(network'[1])
  <2>1. CASE network = <<>>
    BY <1>1, <1>2, <1>3, <2>1
  <2>2. CASE network # <<>>
    <3>1. 1 \in 1 .. Len(network)
      BY <1>3, <2>2
    <3>2. network'[1] = network[1]
      BY <1>3, <3>1
    <3> QED
      BY <1>1, <2>2, <3>2
  <2> QED
    BY <2>1, <2>2
<1>5. ASSUME NEW i \in 1 .. Len(network')
      PROVE  /\ Fits(network'[i])
             /\ Follows(network'[i], IF i < Len(network') THEN network'[i + 1]
                                     ELSE Upcoming')
  <2>1. CASE i < Len(network)
    <3>1. i \in 1 .. Len(network) /\ i + 1 \in 1 .. Len(network) /\ i < Len(network')
      BY <1>3, <2>1
    <3>2. network'[i] = network[i] /\ network'[i + 1] = network[i + 1]
      BY <1>3, <3>1
    <3> QED
      BY <1>1, <2>1, <3>1, <3>2
  <2>2. CASE i = Len(network)
    <3>1. i \in 1 .. Len(network) /\ i < Len(network') /\ ~(i < Len(network))
      BY <1>3, <2>2
    <3>2. network'[i] = network[i] /\ network'[i + 1] = packet
      BY <1>3, <2>2, <3>1
    <3> QED
      BY <1>1, <1>2, <3>1, <3>2
  <2>3. CASE i = Len(network) + 1
    <3>1. ~(i < Len(network')) /\ network'[i] = packet
      BY <1>3, <2>3
    <3> QED
      BY <3>1
  <2> QED
    BY <1>3, <2>1, <2>2, <2>3
<1>6. Awaited(IF network = <<>> THEN Upcoming ELSE network[1])'
  <2> PICK first : first = network'[1]
    OBVIOUS
  <2>1. (IF network = <<>> THEN Upcoming ELSE network[1])' = first
    BY <1>3
  <2>2. Awaited(first)
    BY <1>4
  <2>3. Awaited(first)'
    BY <2>2, AwaitedKept
  <2> QED
    BY <2>1, <2>3
<1> QED
  BY <1>5, <1>6, StreamPartsNext

LEMMA SenderStream ==
    ASSUME GroundInv, StreamInv, SenderStep
    PROVE  StreamInv'
<1>1. /\ SenderTypeOK /\ SenderInv /\ WireInv
      /\ Send /\ RecordDamage(Interrupted \/ Unreleased \/ Mismatched)
  BY GroundParts DEF SenderStep
<1>2. WireInv'
  BY <1>1, SendStep
<1>3. UNCHANGED <<sweep, source_locked, sync_address, write_bank, contents>>
  BY DEF SenderStep, receiverVars, lockVars, syncVars, pipelineVars
<1> SUFFICES ASSUME ~damaged', ~InStep PROVE StreamInv'
  BY <1>2, InStepStream DEF StreamInv
<1>4. ~damaged /\ ~Interrupted /\ ~Unreleased /\ ~Mismatched
  BY <1>1 DEF RecordDamage
<1>5. CASE StartSender
  <2>1. AtBoundary /\ AtBoundary' /\ network' = network
    BY <1>5 DEF StartSender, AtBoundary
  <2>2. Upcoming' = Upcoming
    BY <2>1 DEF Upcoming
  <2> QED
    BY <1>1, <1>2, <1>3, <1>4, <2>1, <2>2, QuietStream
<1>6. CASE NextFrame
  <2>1. AtBoundary /\ AtBoundary' /\ network' = network
    BY <1>6 DEF NextFrame, AtBoundary
  <2>2. Upcoming' = Upcoming
    BY <2>1 DEF Upcoming
  <2> QED
    BY <1>1, <1>2, <1>3, <1>4, <2>1, <2>2, QuietStream
<1>7. CASE StopSender
  <2>1. Running /\ ~Running' /\ network' = network
    BY <1>7 DEF StopSender, Running
  <2>2. AtBoundary /\ AtBoundary'
    BY <1>4, <2>1 DEF Interrupted, AtBoundary
  <2>3. Upcoming' = Upcoming
    BY <2>2 DEF Upcoming
  <2> QED
    BY <1>1, <1>2, <1>3, <1>4, <2>1, <2>3, QuietStream
<1>8. ASSUME SendUniverse \/ SendSync
      PROVE  /\ Running /\ Running' /\ options' = options /\ frame' = frame
             /\ offset' = offset + 1 /\ Matched
             /\ options.sync_address # 0 <=> options.send_sync
             /\ frame \in 1 .. MaxFrames /\ offset \in Nat
             /\ universe_count \in Nat \ {0} /\ universe_count = ExpectedUniverses
             /\ universe_count' = universe_count
             /\ AtBoundary' <=> offset + 1 = universe_count + (IF options.send_sync
                                                              THEN 1 ELSE 0)
  <2>1. Running /\ options' = options /\ frame' = frame /\ offset' = offset + 1
    BY <1>8 DEF SendUniverse, SendSync, Transmit
  <2>2. Running'
    BY <2>1 DEF Running
  <2>3. Matched
    BY <1>4, <2>1, <2>2 DEF Mismatched, Matched
  <2>4. options.sync_address # 0 <=> options.send_sync
    BY <1>1, <1>4, <2>1, OptionsOfRun DEF Unreleased
  <2>5. frame \in 1 .. MaxFrames /\ offset \in Nat
    BY <1>1, <2>1, Constants, UniverseCount DEF SenderTypeOK, SenderInv
  <2>6. universe_count \in Nat \ {0} /\ universe_count = ExpectedUniverses
    BY <1>1, <2>1, <2>3, UniverseCount, MatchedCount
  <2>7. universe_count' = universe_count
    BY <2>1 DEF universe_count, total_slots
  <2>8. offset + 1 # 0
    BY <2>5
  <2>9. AtBoundary' <=> offset + 1 = universe_count + (IF options.send_sync THEN 1 ELSE 0)
    BY <2>1, <2>2, <2>7, <2>8 DEF AtBoundary, SweepSent
  <2> QED
    BY <2>1, <2>2, <2>3, <2>4, <2>5, <2>6, <2>7, <2>9
<1>9. CASE SendUniverse
  <2> DEFINE packet == DataOf(frame, offset)
  <2>1. offset < universe_count /\ network' = Append(network, packet)
    BY <1>9 DEF SendUniverse, Transmit
  <2>2. /\ packet \in Packets /\ Fits(packet)
        /\ packet.universe - FirstUniverse = offset
    BY <1>1, <1>8, <1>9, <2>1, DataIsPacket, MatchedFits
  <2>3. /\ packet.frame = frame /\ packet.sync_address = options.sync_address
        /\ packet.options = options.data_options /\ CarriesData(packet)
    BY DataFields
  <2> HIDE DEF packet
  <2>4. Rank(packet) = offset
    BY <2>2, <2>3 DEF Rank
  <2>5. packet = Upcoming \/ (Upcoming = Rest /\ Starts(packet))
    <3>1. CASE offset = 0
      <4>1. Upcoming = Rest
        BY <3>1 DEF Upcoming, AtBoundary
      <4> QED
        BY <2>3, <2>4, <3>1, <4>1 DEF Starts
    <3>2. CASE offset # 0
      BY <1>1, <1>8, <1>9, <2>1, <3>2, UpcomingKinds DEF packet
    <3> QED
      BY <3>1, <3>2
  <2>6. Follows(packet, Upcoming')
    <3>1. CASE offset + 1 = universe_count /\ options.sync_address = 0
      <4>1. Ends(packet)
        BY <1>8, <1>9, <2>3, <2>4, <3>1 DEF Ends
      <4>2. AtBoundary'
        BY <1>8, <1>9, <3>1
      <4>3. Upcoming' = Rest
        BY <4>2 DEF Upcoming
      <4> QED
        BY <4>1, <4>3, RestKind DEF Follows
    <3>2. CASE offset + 1 = universe_count /\ options.sync_address # 0
      <4>1. ~Ends(packet)
        BY <2>3, <3>2 DEF Ends
      <4>2. ~AtBoundary'
        BY <1>8, <1>9, <3>2
      <4>3. ~(offset' < universe_count')
        BY <1>8, <1>9, <3>2
      <4>4. Upcoming' = SyncOf(frame)
        BY <1>8, <1>9, <4>2, <4>3 DEF Upcoming, SyncOf
      <4>5. /\ SyncOf(frame).frame = frame
            /\ SyncOf(frame).sync_address = options.sync_address
            /\ ~CarriesData(SyncOf(frame)) /\ SyncOf(frame) # Rest
        BY SyncFields
      <4>6. Rank(SyncOf(frame)) = ExpectedUniverses
        BY <4>5 DEF Rank
      <4>7. offset + 1 = ExpectedUniverses /\ ExpectedUniverses \in Nat
        BY <1>8, <1>9, <3>2
      <4> QED
        BY <2>3, <2>4, <4>1, <4>4, <4>5, <4>6, <4>7 DEF Follows
    <3>3. CASE offset + 1 # universe_count
      <4>1. offset + 1 < universe_count
        BY <1>8, <1>9, <2>1, <3>3
      <4>2. ~Ends(packet)
        BY <1>8, <1>9, <2>3, <2>4, <3>3 DEF Ends
      <4>3. ~AtBoundary' /\ offset' < universe_count'
        BY <1>8, <1>9, <4>1
      <4> DEFINE next == DataOf(frame, offset)'
      <4>4. Upcoming' = next
        BY <4>3 DEF Upcoming
      <4>5. /\ next.frame = frame' /\ next.sync_address = options'.sync_address
            /\ next.universe = options'.first_universe + offset'
            /\ next.options = options'.data_options
            /\ CarriesData(next) /\ next # Rest
        <5>1. \A f, u :
                /\ DataOf(f, u)'.frame = f
                /\ DataOf(f, u)'.sync_address = options'.sync_address
                /\ DataOf(f, u)'.universe = options'.first_universe + u
                /\ DataOf(f, u)'.options = options'.data_options
                /\ CarriesData(DataOf(f, u)') /\ DataOf(f, u)' # Rest
          BY DataFieldsNext
        <5> QED
          BY <5>1
      <4> HIDE DEF next
      <4>6. Rank(next) = offset + 1
        BY <1>8, <1>9, <4>5, Constants DEF Rank, Matched
      <4>7. offset + 1 < ExpectedUniverses
        BY <1>8, <1>9, <4>1
      <4> QED
        BY <1>8, <1>9, <2>3, <2>4, <4>2, <4>4, <4>5, <4>6, <4>7 DEF Follows
    <3> QED
      BY <3>1, <3>2, <3>3
  <2> QED
    BY <1>1, <1>2, <1>3, <1>4, <2>1, <2>2, <2>5, <2>6, SentStream
<1>10. CASE SendSync
  <2> DEFINE packet == SyncOf(frame)
  <2>1. /\ offset = universe_count /\ options.send_sync
        /\ network' = Append(network, packet)
    BY <1>10 DEF SendSync, Transmit
  <2>2. packet \in Packets /\ ~CarriesData(packet)
    BY <1>1, <1>8, <1>10, <2>1, SyncIsPacket
  <2>3. packet = Upcoming
    BY <1>1, <1>8, <1>10, <2>1, UpcomingKinds
  <2> HIDE DEF packet
  <2>4. AtBoundary'
    BY <1>8, <1>10, <2>1
  <2>5. Upcoming' = Rest
    BY <2>4 DEF Upcoming
  <2>6. Fits(packet) /\ Follows(packet, Upcoming')
    BY <2>2, <2>5, RestKind DEF Fits, Follows, Ends
  <2> QED
    BY <1>1, <1>2, <1>3, <1>4, <2>1, <2>2, <2>3, <2>6, SentStream
<1> QED
  BY <1>1, <1>5, <1>6, <1>7, <1>9, <1>10 DEF Send

-----------------------------------------------------------------------------
(***************************************************************************)
(* A universe that arrives.  The pixels it writes are those of its frame,  *)
(* each in its place, if it was meant for the places it is written to.     *)
(***************************************************************************)
LEMMA InPlaceWritten ==
    ASSUME NEW packet \in Packets, IsData(packet), RightSlots(packet),
           FirstPlace(packet) = FirstLinearPixel(packet),
           NEW image, NEW p \in Places
    PROVE  /\ (3 * p) \div SlotsPerUniverse = packet.universe - FirstUniverse =>
                 Written(image, packet)[p] = <<packet.frame, p>>
           /\ \/ Written(image, packet)[p] = <<packet.frame, p>>
              \/ Written(image, packet)[p] = image[p]
<1>1. ASSUME p \in WrittenPixels(packet)
      PROVE  Written(image, packet)[p] = <<packet.frame, p>>
  <2>1. Written(image, packet)[p] =
          packet.rgb_slots[3 * (p - FirstLinearPixel(packet)) + 1]
    BY <1>1 DEF Written
  <2>2. packet.rgb_slots[3 * (p - FirstLinearPixel(packet)) + 1] =
          <<packet.frame, FirstPlace(packet) + (p - FirstLinearPixel(packet))>>
    BY <1>1, WrittenSlots
  <2>3. FirstPlace(packet) + (p - FirstLinearPixel(packet)) = p
    <3>1. FirstLinearPixel(packet) \in Nat
      BY FirstSlotInFrame, PacketKinds DEF FirstLinearPixel
    <3>2. p \in Int
      BY Constants DEF Places
    <3> QED
      BY <3>1, <3>2
  <2> QED
    BY <2>1, <2>2, <2>3
<1>2. ASSUME p \notin WrittenPixels(packet)
      PROVE  Written(image, packet)[p] = image[p]
  BY <1>2 DEF Written
<1>3. ASSUME (3 * p) \div SlotsPerUniverse = packet.universe - FirstUniverse
      PROVE  p \in WrittenPixels(packet)
  <2>1. Numbered(packet) /\ packet.universe \in Nat
    BY PacketKinds DEF Numbered
  <2>2. packet.universe = FirstUniverse + ((3 * p) \div SlotsPerUniverse)
    BY <1>3, <2>1, Constants
  <2> QED
    BY <2>1, <2>2, UniverseIsWritten DEF Places
<1> QED
  BY <1>1, <1>2, <1>3

(***************************************************************************)
(* The universe awaited extends what is assembled by itself.               *)
(***************************************************************************)
LEMMA AwaitedUniverse ==
    ASSUME GroundInv, NEW packet \in Packets, IsData(packet), RightSlots(packet),
           Fits(packet), Awaited(packet), ~Silent(packet)
    PROVE  LET before == SweepBefore(Restarts(DataIn(packet)))
           IN  /\ Rank(packet) \in Nat /\ Rank(packet) < ExpectedUniverses
               /\ DataIn(packet).universe = Rank(packet)
               /\ before.received = 0 .. Rank(packet) - 1
               /\ \A p \in Places :
                     (3 * p) \div SlotsPerUniverse < Rank(packet) + 1 =>
                        Written(contents[write_bank], packet)[p] = <<packet.frame, p>>
<1> DEFINE data   == DataIn(packet)
           before == SweepBefore(Restarts(data))
           rank   == Rank(packet)
<1>1. /\ AssemblyInv /\ CarriesData(packet)
      /\ FirstPlace(packet) = FirstLinearPixel(packet)
  BY PacketKinds DEF GroundInv, Fits
<1>2. /\ data.source = Source /\ data.sync = packet.sync_address
      /\ data.universe = rank /\ rank \in Nat /\ rank < ExpectedUniverses
      /\ rank = packet.universe - FirstUniverse
  <2>1. /\ data.source = Source /\ data.sync = packet.sync_address
        /\ data.universe = packet.universe - FirstUniverse
        /\ packet.universe - FirstUniverse \in Universes
    BY DataInOK
  <2>2. rank = packet.universe - FirstUniverse
    BY <1>1 DEF Rank
  <2> HIDE DEF data, rank
  <2>3. rank \in 0 .. ExpectedUniverses - 1 /\ ExpectedUniverses \in Nat
    BY <2>1, <2>2, Constants
  <2> QED
    BY <2>1, <2>2, <2>3
<1> HIDE DEF data, rank
<1>3. ~Preempts(data)
  BY <1>1, <1>2, OneSource
<1>4. CASE sweep = EmptySweep /\ Starts(packet)
  <2>1. rank = 0
    BY <1>1, <1>4, PacketKinds DEF Starts, rank
  <2>2. before.received = 0 .. rank - 1
    BY <1>4, <2>1, EmptySequences DEF SweepBefore
  <2>3. ASSUME NEW p \in Places, (3 * p) \div SlotsPerUniverse < rank + 1
        PROVE  Written(contents[write_bank], packet)[p] = <<packet.frame, p>>
    <3>1. (3 * p) \div SlotsPerUniverse \in Nat
      BY UniverseOfPixel DEF Places
    <3>2. (3 * p) \div SlotsPerUniverse = packet.universe - FirstUniverse
      BY <1>2, <2>1, <2>3, <3>1
    <3> QED
      BY <1>1, <3>2, InPlaceWritten
  <2> QED
    BY <1>2, <2>2, <2>3 DEF data, rank
<1>5. CASE /\ ~Starts(packet)
           /\ sweep.received = 0 .. rank - 1
           /\ source_locked /\ sync_address = packet.sync_address
           /\ Holds(packet.frame, rank)
  <2>1. ~SyncChanges(data)
    BY <1>1, <1>2, <1>5 DEF SyncChanges, AssemblyInv
  <2>2. before.received = 0 .. rank - 1
    BY <1>3, <1>5, <2>1 DEF SweepBefore, Restarts
  <2>3. ASSUME NEW p \in Places, (3 * p) \div SlotsPerUniverse < rank + 1
        PROVE  Written(contents[write_bank], packet)[p] = <<packet.frame, p>>
    <3>1. (3 * p) \div SlotsPerUniverse \in Nat
      BY UniverseOfPixel DEF Places
    <3>2. CASE (3 * p) \div SlotsPerUniverse = rank
      BY <1>1, <1>2, <3>2, InPlaceWritten
    <3>3. CASE (3 * p) \div SlotsPerUniverse < rank
      <4>1. contents[write_bank][p] = <<packet.frame, p>>
        BY <1>5, <3>3 DEF Holds
      <4> QED
        BY <1>1, <4>1, InPlaceWritten
    <3> QED
      BY <1>2, <2>3, <3>1, <3>2, <3>3
  <2> QED
    BY <1>2, <2>2, <2>3 DEF data, rank
<1> QED
  BY <1>1, <1>4, <1>5 DEF Awaited, rank

(***************************************************************************)
(* Received in the order of the stream, the universes of a frame make it   *)
(* whole: when the last one is in, the buffer holds the frame.             *)
(***************************************************************************)
LEMMA HeldImage ==
    ASSUME NEW image \in Images, NEW f,
           \A p \in Places : image[p] = <<f, p>>
    PROVE  image = ImageOf(f)
BY DEF Images, ImageOf

LEMMA WholeFrame ==
    ASSUME NEW f, NEW image \in Images,
           \A p \in Places : (3 * p) \div SlotsPerUniverse < ExpectedUniverses =>
              image[p] = <<f, p>>
    PROVE  image = ImageOf(f)
<1>1. ASSUME NEW p \in Places PROVE image[p] = <<f, p>>
  <2>1. (3 * p) \div SlotsPerUniverse < ExpectedUniverses
    BY UniverseOfPixel, Constants DEF Places
  <2> QED
    BY <2>1
<1> QED
  BY <1>1, HeldImage

(***************************************************************************)
(* A sync packet that is awaited finds its whole frame assembled.          *)
(***************************************************************************)
LEMMA AwaitedSync ==
    ASSUME GroundInv, NEW packet \in Packets, ~CarriesData(packet),
           Awaited(packet), sweep # EmptySweep
    PROVE  /\ Releases(SyncIn(packet))
           /\ contents[write_bank] = ImageOf(packet.frame)
<1>1. /\ sweep.received = 0 .. Rank(packet) - 1
      /\ source_locked /\ sync_address = packet.sync_address
      /\ Holds(packet.frame, Rank(packet))
  BY DEF Awaited
<1>2. Rank(packet) = ExpectedUniverses
  BY DEF Rank
<1>3. AssemblyInv /\ write_bank \in {0, 1} /\ contents \in [{0, 1} -> Images]
  BY GroundParts DEF HistoryTypeOK, ReceiverInv, ReceiverTypeOK, PipelineTypeOK
<1>4. sweep.pending
  BY <1>1, <1>2, <1>3, Constants DEF AssemblyInv
<1>5. packet.sync_address # 0
  <2>1. packet \in SyncOnWire
    BY PacketKinds
  <2> QED
    BY <2>1 DEF SyncOnWire
<1>6. Releases(SyncIn(packet))
  BY <1>1, <1>3, <1>4, <1>5 DEF Releases, SyncIn, AssemblyInv
<1>7. contents[write_bank] = ImageOf(packet.frame)
  <2>1. contents[write_bank] \in Images
    BY <1>3
  <2>2. \A p \in Places : (3 * p) \div SlotsPerUniverse < ExpectedUniverses =>
          contents[write_bank][p] = <<packet.frame, p>>
    BY <1>1, <1>2 DEF Holds
  <2> QED
    BY <2>1, <2>2, WholeFrame
<1> QED
  BY <1>6, <1>7

-----------------------------------------------------------------------------
(***************************************************************************)
(* The receiver takes the first packet of the stream and awaits the next.  *)
(***************************************************************************)
Second == IF 1 < Len(network) THEN network[2] ELSE Upcoming

LEMMA StreamHead ==
    ASSUME WireInv, StreamInv, ~damaged, NEW packet, Deliver(packet)
    PROVE  /\ packet \in Packets /\ Awaited(packet) /\ Fits(packet)
           /\ Follows(packet, Second)
<1>1. packet \in Packets /\ packet = network[1] /\ network # <<>> /\ 1 \in 1 .. Len(network)
  BY DeliveryThins
<1>2. /\ Awaited(IF network = <<>> THEN Upcoming ELSE network[1])
      /\ \A i \in 1 .. Len(network) :
            /\ Fits(network[i])
            /\ Follows(network[i], IF i < Len(network) THEN network[i + 1]
                                   ELSE Upcoming)
  BY StreamParts
<1>3. 1 + 1 = 2
  OBVIOUS
<1>4. Fits(network[1]) /\ Follows(network[1], Second)
  BY <1>1, <1>2, <1>3 DEF Second
<1> QED
  BY <1>1, <1>2, <1>4

LEMMA DeliveredStream ==
    ASSUME WireInv, WireInv', StreamInv, ~damaged' => ~damaged,
           NEW packet, Deliver(packet),
           NEW next, next = Second, ~damaged' => Awaited(next)'
    PROVE  StreamInv'
<1> SUFFICES ASSUME ~damaged' PROVE StreamInv'
  BY DEF StreamInv
<1>1. \A i \in 1 .. Len(network) :
        /\ Fits(network[i])
        /\ Follows(network[i], IF i < Len(network) THEN network[i + 1] ELSE Upcoming)
  BY StreamParts
<1>2. /\ network # <<>> /\ 1 \in 1 .. Len(network)
      /\ Len(network') = Len(network) - 1 /\ Len(network) \in Nat
      /\ \A i \in 1 .. Len(network') : network'[i] = network[i + 1]
      /\ network' = <<>> <=> Len(network') = 0
  <2>1. Len(network) \in Nat
    BY LenProperties DEF WireInv
  <2>2. network' = <<>> <=> Len(network') = 0
    BY AppendAny DEF WireInv
  <2> QED
    BY <2>1, <2>2, DeliveryThins
<1>3. Upcoming' = Upcoming
  <2>1. /\ options' = options /\ frame' = frame /\ offset' = offset
        /\ sequence' = sequence
    BY DEF Deliver
  <2>2. AtBoundary' <=> AtBoundary
    BY <2>1 DEF AtBoundary, Running, SweepSent, universe_count, total_slots
  <2>3. universe_count' = universe_count
    BY <2>1 DEF universe_count, total_slots
  <2>4. DataOf(frame, offset)' = DataOf(frame, offset) /\ SyncOf(frame)' = SyncOf(frame)
    BY <2>1 DEF DataOf, SyncOf, SlotsOf, SlotCount, total_slots
  <2> QED
    BY <2>1, <2>2, <2>3, <2>4 DEF Upcoming
<1>4. (IF network = <<>> THEN Upcoming ELSE network[1])' = next
  <2>1. CASE Len(network) = 1
    BY <1>2, <1>3, <2>1 DEF Second
  <2>2. CASE Len(network) # 1
    <3>1. 1 < Len(network) /\ 1 \in 1 .. Len(network') /\ network' # <<>>
      BY <1>2, <2>2
    <3>2. network'[1] = network[1 + 1] /\ 1 + 1 = 2
      BY <1>2, <3>1
    <3> QED
      BY <3>1, <3>2 DEF Second
  <2> QED
    BY <2>1, <2>2
<1>5. Awaited(IF network = <<>> THEN Upcoming ELSE network[1])'
  BY <1>4
<1>6. ASSUME NEW i \in 1 .. Len(network')
      PROVE  /\ Fits(network'[i])
             /\ Follows(network'[i], IF i < Len(network') THEN network'[i + 1]
                                     ELSE Upcoming')
  <2>1. i + 1 \in 1 .. Len(network) /\ network'[i] = network[i + 1]
    BY <1>2
  <2>2. Fits(network[i + 1])
    BY <1>1, <2>1
  <2>3. CASE i < Len(network')
    <3>1. i + 1 < Len(network) /\ i + 1 \in 1 .. Len(network')
      BY <1>2, <2>3
    <3>2. network'[i + 1] = network[i + 1 + 1]
      BY <1>2, <3>1
    <3>3. Follows(network[i + 1], network[i + 1 + 1])
      BY <1>1, <2>1, <3>1
    <3> QED
      BY <2>1, <2>2, <2>3, <3>2, <3>3
  <2>4. CASE ~(i < Len(network'))
    <3>1. ~(i + 1 < Len(network))
      BY <1>2, <2>4
    <3>2. Follows(network[i + 1], Upcoming)
      BY <1>1, <2>1, <3>1
    <3> QED
      BY <1>3, <2>1, <2>2, <2>4, <3>2
  <2> QED
    BY <2>3, <2>4
<1> QED
  BY <1>5, <1>6, StreamPartsNext

(***************************************************************************)
(* After a silent packet, an empty sweep awaits whatever follows.          *)
(***************************************************************************)
LEMMA AfterSilence ==
    ASSUME NEW packet, Silent(packet), NEW next, Follows(packet, next),
           sweep' = EmptySweep
    PROVE  Awaited(next)'
<1>1. Starts(next) \/ Silent(next) \/ ~CarriesData(next)
  BY DEF Follows, Silent, IsPreview, IsTerminated
<1> QED
  BY <1>1, AwaitsFirst

LEMMA ReceiveStream ==
    ASSUME GroundInv, StreamInv, WireInv', Receive
    PROVE  StreamInv'
<1>1. PICK packet \in ToSet(network) :
        /\ Deliver(packet)
        /\ \/ ReceiveUniverse(packet) \/ ReceiveWrongSlots(packet)
           \/ ReceiveTerminated(packet) \/ ReceiveSync(packet)
           \/ ReceiveIgnored(packet)
        /\ RecordDamage(FALSE)
  BY DEF Receive
<1>2. WireInv /\ AssemblyInv /\ write_bank \in {0, 1} /\ contents \in [{0, 1} -> Images]
  BY GroundParts DEF HistoryTypeOK, ReceiverInv, ReceiverTypeOK, PipelineTypeOK
<1> SUFFICES ASSUME ~damaged', ~InStep PROVE StreamInv'
  BY InStepStream DEF StreamInv
<1>3. ~damaged
  BY <1>1 DEF RecordDamage
<1>4. /\ packet \in Packets /\ Awaited(packet) /\ Fits(packet)
      /\ Follows(packet, Second)
  BY <1>1, <1>2, <1>3, StreamHead
<1> PICK next : next = Second
  OBVIOUS
<1>5. /\ CarriesData(packet) => IsData(packet) /\ RightSlots(packet)
      /\ IsData(packet) => CarriesData(packet)
      /\ IsSync(packet) <=> ~CarriesData(packet)
  BY <1>4, PacketKinds DEF Fits
<1> SUFFICES Awaited(next)'
  BY <1>1, <1>2, <1>3, DeliveredStream
<1>6. CASE ReceiveUniverse(packet)
  <2> DEFINE data   == DataIn(packet)
             before == SweepBefore(Restarts(data))
             rank   == Rank(packet)
  <2>1. /\ IsData(packet) /\ RightSlots(packet) /\ ~Silent(packet)
        /\ HandleUniverse(data, now)
        /\ sweep'.received = Universes => data.sync # 0
        /\ contents' = [contents EXCEPT ![write_bank] = Written(@, packet)]
    BY <1>6 DEF ReceiveUniverse, Silent
  <2>2. /\ rank \in Nat /\ rank < ExpectedUniverses
        /\ data.universe = rank
        /\ before.received = 0 .. rank - 1
        /\ \A p \in Places :
              (3 * p) \div SlotsPerUniverse < rank + 1 =>
                 Written(contents[write_bank], packet)[p] = <<packet.frame, p>>
    BY <1>4, <2>1, AwaitedUniverse
  <2>3. data.sync = packet.sync_address
    BY DEF DataIn
  <2>4. LET received == before.received \cup {data.universe}
        IN  /\ source_locked' /\ sync_address' = data.sync
            /\ received = Universes /\ data.sync = 0 => sweep' = EmptySweep
            /\ ~(received = Universes /\ data.sync = 0) =>
                  /\ sweep' = [received |-> received,
                               pending  |-> before.pending \/ received = Universes]
                  /\ write_bank' = write_bank
    BY <2>1, UniverseEffect
  <2> HIDE DEF data, before, rank
  <2>5. before.received \cup {data.universe} = 0 .. rank
    BY <2>2
  <2>6. 0 .. rank = Universes <=> rank + 1 = ExpectedUniverses
    <3>1. Universes = 0 .. ExpectedUniverses - 1 /\ ExpectedUniverses \in Nat \ {0}
      BY Constants
    <3>2. ASSUME 0 .. rank = 0 .. ExpectedUniverses - 1
          PROVE  rank + 1 = ExpectedUniverses
      <4>1. ExpectedUniverses - 1 \in 0 .. rank
        BY <2>2, <3>1, <3>2
      <4> QED
        BY <2>2, <3>1, <4>1
    <3>3. ASSUME rank + 1 = ExpectedUniverses
          PROVE  0 .. rank = 0 .. ExpectedUniverses - 1
      BY <2>2, <3>1, <3>3
    <3> QED
      BY <3>1, <3>2, <3>3
  <2>7. CASE rank + 1 = ExpectedUniverses /\ data.sync = 0
    <3>1. Ends(packet)
      BY <2>3, <2>7 DEF Ends, rank
    <3>2. Starts(next)
      BY <1>4, <3>1 DEF Follows
    <3>3. sweep' = EmptySweep
      BY <2>4, <2>5, <2>6, <2>7
    <3> QED
      BY <3>2, <3>3, AwaitsFirst
  <2>8. CASE ~(rank + 1 = ExpectedUniverses /\ data.sync = 0)
    <3>1. ~Ends(packet)
      BY <1>5, <2>1, <2>3, <2>8 DEF Ends, rank
    <3>2. /\ next # Rest /\ next.frame = packet.frame
          /\ next.sync_address = packet.sync_address
          /\ Rank(next) = rank + 1
          /\ CarriesData(next) => next.options = packet.options
      BY <1>4, <3>1 DEF Follows, rank
    <3>3. ~Starts(next)
      BY <2>2, <3>2 DEF Starts
    <3>4. ~Silent(next)
      BY <1>5, <2>1, <3>2 DEF Silent, IsPreview, IsTerminated
    <3>5. /\ sweep'.received = 0 .. rank /\ write_bank' = write_bank
          /\ source_locked' /\ sync_address' = next.sync_address
      <4>1. ~(before.received \cup {data.universe} = Universes /\ data.sync = 0)
        BY <2>5, <2>6, <2>8
      <4>2. /\ sweep'.received = before.received \cup {data.universe}
            /\ write_bank' = write_bank
        BY <2>4, <4>1
      <4> QED
        BY <2>3, <2>4, <2>5, <3>2, <4>2
    <3>6. sweep'.received = 0 .. Rank(next) - 1
      BY <2>2, <3>2, <3>5
    <3>7. \A p \in Places : (3 * p) \div SlotsPerUniverse < Rank(next) =>
             contents'[write_bank'][p] = <<next.frame, p>>
      <4>1. contents'[write_bank'] = Written(contents[write_bank], packet)
        BY <1>2, <2>1, <3>5
      <4> QED
        BY <2>2, <3>2, <4>1
    <3> QED
      BY <3>3, <3>4, <3>5, <3>6, <3>7, AwaitsNext
  <2> QED
    BY <2>7, <2>8
<1>7. CASE ReceiveWrongSlots(packet)
  BY <1>5, <1>7 DEF ReceiveWrongSlots
<1>8. CASE ReceiveTerminated(packet)
  <2>1. Silent(packet)
    BY <1>5, <1>8 DEF ReceiveTerminated, Silent
  <2>2. sweep' = EmptySweep
    BY <1>8 DEF ReceiveTerminated, HandleTerminated, CommitBlack
  <2> QED
    BY <1>4, <2>1, <2>2, AfterSilence
<1>9. CASE ReceiveSync(packet)
  <2>1. sweep' = EmptySweep /\ ~CarriesData(packet)
    BY <1>5, <1>9 DEF ReceiveSync
  <2>2. Starts(next)
    BY <1>4, <2>1 DEF Follows, Ends
  <2> QED
    BY <2>1, <2>2, AwaitsFirst
<1>10. CASE ReceiveIgnored(packet)
  <2>1. sweep' = sweep
    BY <1>10 DEF ReceiveIgnored, receiverVars
  <2>2. CASE IsData(packet) /\ IsPreview(packet)
    <3>1. Silent(packet)
      BY <1>5, <2>2 DEF Silent
    <3>2. sweep = EmptySweep
      BY <1>4, <3>1 DEF Awaited
    <3> QED
      BY <1>4, <2>1, <3>1, <3>2, AfterSilence
  <2>3. CASE ~IsData(packet) /\ ~IsSync(packet)
    BY <1>5, <2>3
  <2>4. CASE ~IsData(packet) /\ IsSync(packet) /\ ~Releases(SyncIn(packet))
    <3>1. sweep = EmptySweep
      BY <1>4, <1>5, <2>4, AwaitedSync
    <3>2. Starts(next)
      BY <1>4, <1>5, <2>4 DEF Follows, Ends
    <3> QED
      BY <2>1, <3>1, <3>2, AwaitsFirst
  <2> QED
    BY <1>10, <2>2, <2>3, <2>4 DEF ReceiveIgnored
<1> QED
  BY <1>1, <1>6, <1>7, <1>8, <1>9, <1>10

LEMMA StreamInit == Init => StreamInv
<1> SUFFICES ASSUME Init PROVE StreamInv
  OBVIOUS
<1>1. network = <<>> /\ sweep = EmptySweep /\ options = Stopped
  BY DEF Init, SenderInit, ReceiverInit
<1>2. WireInv /\ Len(network) = 0
  BY <1>1, EmptySeq DEF WireInv
<1>3. Upcoming = Rest
  BY <1>1 DEF Upcoming, AtBoundary, Running
<1>4. Awaited(IF network = <<>> THEN Upcoming ELSE network[1])
  BY <1>1, <1>3, RestKind DEF Awaited
<1>5. \A i \in 1 .. Len(network) :
        /\ Fits(network[i])
        /\ Follows(network[i], IF i < Len(network) THEN network[i + 1] ELSE Upcoming)
  BY <1>2
<1> QED
  BY <1>2, <1>4, <1>5, StreamParts

LEMMA StreamStep == GroundInv /\ StreamInv /\ [Next]_vars => StreamInv'
<1> SUFFICES ASSUME GroundInv, StreamInv, [Next]_vars PROVE StreamInv'
  OBVIOUS
<1>1. WireInv /\ WireInv'
  BY GroundStep DEF GroundInv
<1>2. CASE SenderStep
  BY <1>2, SenderStream
<1>3. CASE Receive
  BY <1>1, <1>3, ReceiveStream
<1>4. CASE Loss \/ Blackout
  <2>1. RecordDamage(TRUE)
    BY <1>4 DEF Loss, Blackout
  <2>2. damaged' \/ InStep
    BY <2>1 DEF RecordDamage
  <2> QED
    BY <1>1, <2>2, InStepStream DEF StreamInv
<1>5. CASE Tick \/ UNCHANGED vars
  <2>1. UNCHANGED <<receiverVars, contents, damaged, senderVars>>
    BY <1>5 DEF Tick, vars, linkVars
  <2>2. UNCHANGED <<sweep, source_locked, sync_address, write_bank, contents>>
    BY <2>1 DEF receiverVars, lockVars, syncVars, pipelineVars
  <2>3. /\ options' = options /\ frame' = frame /\ offset' = offset
        /\ sequence' = sequence /\ network' = network /\ damaged' = damaged
    BY <2>1 DEF senderVars
  <2>4. Upcoming' = Upcoming
    BY <2>3 DEF Upcoming, AtBoundary, Running, SweepSent, universe_count, total_slots,
                DataOf, SyncOf, SlotsOf, SlotCount
  <2> QED
    BY <1>1, <2>2, <2>3, <2>4, QuietStream
<1> QED
  BY <1>2, <1>3, <1>4, <1>5 DEF Next

LEMMA StreamCorrect == Spec => [](GroundInv /\ StreamInv)
<1>1. GroundInv /\ StreamInv /\ [Next]_vars => (GroundInv /\ StreamInv)'
  BY GroundStep, StreamStep
<1>2. Init => GroundInv /\ StreamInv
  BY GroundInit, StreamInit
<1> QED
  BY <1>1, <1>2, PTL DEF Spec

(***************************************************************************)
(* A sequence anomaly is counted only after a mishap: while the two ends   *)
(* are in step, for any number of values of a sequence number, of          *)
(* universes and of packets under way, the next number of a universe of    *)
(* the sweep is never compared (e131_send.py:163, e131_receiver.c:345).    *)
(***************************************************************************)
THEOREM AnomaliesMeanDamage == Spec => AnomalyMeansDamage
<1>1. GroundInv /\ StreamInv /\ [Next]_vars =>
        [sequence_anomalies' # sequence_anomalies => damaged]_vars
  <2> SUFFICES ASSUME GroundInv, StreamInv, Next, ~damaged
               PROVE  sequence_anomalies' = sequence_anomalies
    BY DEF vars, linkVars
  <2>1. CASE SenderStep \/ Loss \/ Blackout \/ Tick
    BY <2>1 DEF SenderStep, Loss, Blackout, Tick
  <2>2. CASE Receive
    <3>1. PICK packet \in ToSet(network) :
            /\ Deliver(packet)
            /\ \/ ReceiveUniverse(packet) \/ ReceiveWrongSlots(packet)
               \/ ReceiveTerminated(packet) \/ ReceiveSync(packet)
               \/ ReceiveIgnored(packet)
      BY <2>2 DEF Receive
    <3>2. CASE ReceiveUniverse(packet)
      <4> DEFINE data == DataIn(packet)
      <4>1. /\ packet \in Packets /\ Awaited(packet) /\ Fits(packet)
        BY <3>1, StreamHead DEF GroundInv
      <4>2. /\ IsData(packet) /\ RightSlots(packet) /\ ~Silent(packet)
            /\ RecordSequence(data)
        BY <3>2 DEF ReceiveUniverse, Silent
      <4>3. /\ data.universe = Rank(packet) /\ Rank(packet) \in Nat
            /\ SweepBefore(Restarts(data)).received = 0 .. Rank(packet) - 1
        BY <4>1, <4>2, AwaitedUniverse
      <4>4. data.universe \in Universes
        BY <4>1, <4>2, DataInOK
      <4>5. SequencesInv
        BY GroundParts
      <4> HIDE DEF data
      <4>6. SequencesBefore(data)[data.universe] = NotSeen
        BY <4>3, <4>4, <4>5, SequencesMatch
      <4>7. ~Anomalous(data)
        BY <4>6 DEF Anomalous
      <4> QED
        BY <4>2, <4>7 DEF RecordSequence
    <3>3. CASE ~ReceiveUniverse(packet)
      BY <3>1, <3>3
         DEF ReceiveWrongSlots, ReceiveTerminated, ReceiveSync, ReceiveIgnored
    <3> QED
      BY <3>2, <3>3
  <2> QED
    BY <2>1, <2>2 DEF Next
<1> QED
  BY <1>1, StreamCorrect, PTL DEF Spec, AnomalyMeansDamage

(***************************************************************************)
(* What a step takes from an undamaged stream is a whole frame.            *)
(***************************************************************************)
LEMMA TakenIsWhole ==
    ASSUME GroundInv, StreamInv, ~damaged, NEW packet, Deliver(packet),
           \/ ReceiveUniverse(packet) \/ ReceiveWrongSlots(packet)
           \/ ReceiveTerminated(packet) \/ ReceiveSync(packet)
           \/ ReceiveIgnored(packet),
           RecordShown, Took
    PROVE  \/ shown' = BlackImage
           \/ \E f \in 1 .. MaxFrames : shown' = ImageOf(f)
<1>1. /\ packet \in Packets /\ Awaited(packet) /\ Fits(packet)
      /\ write_bank \in {0, 1} /\ contents \in [{0, 1} -> Images]
      /\ packet.frame \in 1 .. MaxFrames
  BY StreamHead, GroundParts, PacketKinds
     DEF HistoryTypeOK, ReceiverInv, ReceiverTypeOK, PipelineTypeOK
<1>2. shown' = contents'[write_bank] /\ write_bank' # write_bank
  BY DEF RecordShown, Took
<1>3. CASE ReceiveUniverse(packet)
  <2> DEFINE data   == DataIn(packet)
             before == SweepBefore(Restarts(data))
             rank   == Rank(packet)
  <2>1. /\ IsData(packet) /\ RightSlots(packet) /\ ~Silent(packet)
        /\ HandleUniverse(data, now)
        /\ sweep'.received = Universes => data.sync # 0
        /\ contents' = [contents EXCEPT ![write_bank] = Written(@, packet)]
    BY <1>3 DEF ReceiveUniverse, Silent
  <2>2. /\ rank \in Nat /\ rank < ExpectedUniverses
        /\ data.universe = rank
        /\ before.received = 0 .. rank - 1
        /\ \A p \in Places :
              (3 * p) \div SlotsPerUniverse < rank + 1 =>
                 Written(contents[write_bank], packet)[p] = <<packet.frame, p>>
    BY <1>1, <2>1, AwaitedUniverse
  <2>3. before.received \cup {data.universe} = Universes
    BY <1>2, <2>1, UniverseEffect
  <2> HIDE DEF data, before, rank
  <2>4. rank + 1 = ExpectedUniverses
    <3>1. ExpectedUniverses - 1 \in Universes /\ ExpectedUniverses \in Nat
      BY Constants
    <3>2. ExpectedUniverses - 1 \in (0 .. rank - 1) \cup {rank}
      BY <2>2, <2>3, <3>1
    <3> QED
      BY <2>2, <3>1, <3>2
  <2>5. Written(contents[write_bank], packet) = ImageOf(packet.frame)
    <3>1. Written(contents[write_bank], packet) \in Images
      BY <1>1, <2>1, WrittenType
    <3> QED
      BY <2>2, <2>4, <3>1, WholeFrame
  <2>6. contents'[write_bank] = Written(contents[write_bank], packet)
    BY <1>1, <2>1
  <2> QED
    BY <1>1, <1>2, <2>5, <2>6
<1>4. CASE ReceiveTerminated(packet)
  <2>1. contents'[write_bank] = BlackImage
    BY <1>1, <1>4 DEF ReceiveTerminated
  <2> QED
    BY <1>2, <2>1
<1>5. CASE ReceiveSync(packet)
  <2>1. contents' = contents /\ sweep.pending /\ ~IsData(packet) /\ IsSync(packet)
    BY <1>5 DEF ReceiveSync, HandleSync, Releases
  <2>2. sweep # EmptySweep /\ ~CarriesData(packet)
    BY <1>1, <2>1, PacketKinds, EmptySequences
  <2>3. contents[write_bank] = ImageOf(packet.frame)
    BY <1>1, <2>2, AwaitedSync
  <2> QED
    BY <1>1, <1>2, <2>1, <2>3
<1>6. CASE ReceiveWrongSlots(packet)
  BY <1>2, <1>6 DEF ReceiveWrongSlots, HandleWrongSlots
<1>7. CASE ReceiveIgnored(packet)
  BY <1>2, <1>7 DEF ReceiveIgnored, receiverVars, pipelineVars
<1> QED
  BY <1>3, <1>4, <1>5, <1>6, <1>7

(***************************************************************************)
(* Without a mishap since the two ends were last in step, whatever the PL  *)
(* takes is black or one frame of the sender with every pixel in its       *)
(* place, for any size of the frame, any number of packets under way and   *)
(* any sequence of command lines (e131_receiver.c:131-173, 310-331).       *)
(***************************************************************************)
THEOREM UndamagedMeansWhole == Spec => UndamagedFramesAreWhole
<1>1. GroundInv /\ StreamInv /\ [Next]_vars =>
        [Took => \/ damaged
                 \/ shown' = BlackImage
                 \/ \E f \in 1 .. MaxFrames : shown' = ImageOf(f)]_vars
  <2> SUFFICES ASSUME GroundInv, StreamInv, Next, Took, ~damaged
               PROVE  \/ shown' = BlackImage
                      \/ \E f \in 1 .. MaxFrames : shown' = ImageOf(f)
    OBVIOUS
  <2>1. CASE SenderStep \/ Loss \/ Tick
    BY <2>1 DEF SenderStep, Loss, Tick, Took, receiverVars, pipelineVars
  <2>2. CASE Receive
    BY <2>2, TakenIsWhole DEF Receive
  <2>3. CASE Blackout
    <3>1. write_bank \in {0, 1} /\ contents \in [{0, 1} -> Images]
      BY GroundParts DEF HistoryTypeOK, ReceiverInv, ReceiverTypeOK, PipelineTypeOK
    <3>2. contents'[write_bank] = BlackImage /\ shown' = contents'[write_bank]
      BY <2>3, <3>1 DEF Blackout, RecordShown
    <3> QED
      BY <3>2
  <2> QED
    BY <2>1, <2>2, <2>3 DEF Next
<1> QED
  BY <1>1, StreamCorrect, PTL DEF Spec, UndamagedFramesAreWhole

-----------------------------------------------------------------------------
(***************************************************************************)
(* The order on the wire.                                                  *)
(***************************************************************************)
LEMMA ThinnedOrder ==
    ASSUME OrderInv, Thinned, UNCHANGED <<options, frame, offset>>
    PROVE  OrderInv'
<1>1. /\ options' = options /\ frame' = frame /\ offset' = offset
  OBVIOUS
<1>2. Running' <=> Running
  BY <1>1 DEF Running
<1>3. \A packet : OfThisRun(packet) => OfThisRun(packet)'
  BY <1>1 DEF OfThisRun, universe_count, total_slots
<1>4. ASSUME NEW i \in 1 .. Len(network')
      PROVE  /\ network'[i].frame <= frame'
             /\ Running' /\ network'[i].frame = frame' => OfThisRun(network[i])'
  <2>1. PICK k \in 1 .. Len(network) : network'[i] = network[k]
    BY DEF Thinned
  <2>2. /\ network[k].frame <= frame
        /\ Running /\ network[k].frame = frame => OfThisRun(network[k])
    BY DEF OrderInv
  <2>3. PICK packet : packet = network[k]
    OBVIOUS
  <2>4. /\ packet.frame <= frame
        /\ Running /\ packet.frame = frame => OfThisRun(packet)'
    BY <1>3, <2>2, <2>3
  <2> QED
    BY <1>1, <1>2, <2>1, <2>3, <2>4
<1>5. ASSUME NEW i \in 1 .. Len(network'), NEW j \in 1 .. Len(network'), i < j
      PROVE  /\ network'[i].frame <= network'[j].frame
             /\ network'[i].frame = network'[j].frame => Kin(network'[i], network'[j])
  <2>1. PICK k, l \in 1 .. Len(network) :
          k < l /\ network'[i] = network[k] /\ network'[j] = network[l]
    BY <1>5 DEF Thinned
  <2> QED
    BY <2>1 DEF OrderInv
<1> QED
  BY <1>4, <1>5 DEF OrderInv

LEMMA SentOrder ==
    ASSUME WireInv, OrderInv, NEW packet \in Packets, Transmit(packet),
           options' = options, frame' = frame, frame \in Nat,
           packet.frame = frame, OfThisRun(packet)',
           \A other \in Packets : OfThisRun(other) =>
              OfThisRun(other)' /\ Kin(other, packet)
    PROVE  OrderInv'
<1>1. /\ network' \in Seq(Packets)
      /\ Len(network') = Len(network) + 1 /\ Len(network) \in Nat
      /\ \A i \in 1 .. Len(network) : network'[i] = network[i]
      /\ network'[Len(network) + 1] = packet
  BY TransmitAppends
<1>2. Running /\ Running'
  BY DEF Transmit, Running
<1>3. ASSUME NEW i \in 1 .. Len(network)
      PROVE  /\ network[i] \in Packets
             /\ network[i].frame <= frame
             /\ network[i].frame = frame =>
                   OfThisRun(network[i]) /\ Kin(network[i], packet)
  <2>1. network[i] \in Packets
    BY ElementOfSeq DEF WireInv
  <2>2. /\ network[i].frame <= frame
        /\ network[i].frame = frame => OfThisRun(network[i])
    BY <1>2 DEF OrderInv
  <2> QED
    BY <2>1, <2>2
<1>4. ASSUME NEW i \in 1 .. Len(network')
      PROVE  /\ network'[i].frame <= frame'
             /\ Running' /\ network'[i].frame = frame' => OfThisRun(network[i])'
  <2>1. CASE i \in 1 .. Len(network)
    <3>1. PICK other \in Packets : other = network[i]
      BY <1>3, <2>1
    <3>2. network'[i] = other
      BY <1>1, <2>1, <3>1
    <3>3. other.frame <= frame /\ (other.frame = frame => OfThisRun(other)')
      BY <1>3, <2>1, <3>1
    <3> QED
      BY <3>2, <3>3
  <2>2. CASE i = Len(network) + 1
    <3>1. network'[i] = packet
      BY <1>1, <2>2
    <3> QED
      BY <3>1
  <2> QED
    BY <1>1, <2>1, <2>2
<1>5. ASSUME NEW i \in 1 .. Len(network'), NEW j \in 1 .. Len(network'), i < j
      PROVE  /\ network'[i].frame <= network'[j].frame
             /\ network'[i].frame = network'[j].frame => Kin(network'[i], network'[j])
  <2>1. i \in 1 .. Len(network) /\ network'[i] = network[i]
    BY <1>1, <1>5
  <2>2. CASE j \in 1 .. Len(network)
    <3>1. network'[j] = network[j]
      BY <1>1, <2>2
    <3> QED
      BY <1>5, <2>1, <2>2, <3>1 DEF OrderInv
  <2>3. CASE j = Len(network) + 1
    <3>1. network'[j] = packet
      BY <1>1, <2>3
    <3> QED
      BY <1>3, <2>1, <3>1
  <2> QED
    BY <1>1, <2>2, <2>3
<1> QED
  BY <1>4, <1>5 DEF OrderInv

LEMMA SentOfThisRun ==
    ASSUME SenderTypeOK, SenderInv, SendUniverse \/ SendSync
    PROVE  /\ Running /\ options' = options /\ frame' = frame
           /\ frame \in 1 .. MaxFrames /\ offset \in Nat /\ universe_count \in Nat
           /\ offset' = offset + 1 /\ universe_count' = universe_count
           /\ \E packet \in Packets :
                 /\ Transmit(packet) /\ packet.frame = frame
                 /\ packet.sync_address = options.sync_address
                 /\ CarriesData(packet) =>
                       Base(packet) = options.first_universe * SlotsPerUniverse
                 /\ ~CarriesData(packet) => offset = universe_count
                 /\ offset <= universe_count
<1>1. Running /\ options' = options /\ frame' = frame /\ offset' = offset + 1
  BY DEF SendUniverse, SendSync, Transmit
<1>2. frame \in 1 .. MaxFrames /\ offset \in Nat /\ universe_count \in Nat
  BY <1>1, Constants, UniverseCount DEF SenderTypeOK, SenderInv
<1>3. universe_count' = universe_count
  BY <1>1 DEF universe_count, total_slots
<1>4. CASE SendUniverse
  <2> DEFINE packet == DataOf(frame, offset)
  <2>1. offset < universe_count /\ Transmit(packet)
    BY <1>4 DEF SendUniverse
  <2>2. /\ packet \in Packets /\ CarriesData(packet)
        /\ Base(packet) = options.first_universe * SlotsPerUniverse
    BY <1>2, <2>1, DataIsPacket
  <2>3. packet.frame = frame /\ packet.sync_address = options.sync_address
    BY DataFields
  <2>4. offset <= universe_count
    BY <1>2, <2>1
  <2> HIDE DEF packet
  <2> QED
    BY <1>1, <1>2, <1>3, <2>1, <2>2, <2>3, <2>4
<1>5. CASE SendSync
  <2> DEFINE packet == SyncOf(frame)
  <2>1. offset = universe_count /\ options.send_sync /\ Transmit(packet)
    BY <1>5 DEF SendSync
  <2>2. packet \in Packets /\ ~CarriesData(packet)
    BY <1>2, <2>1, SyncIsPacket
  <2>3. packet.frame = frame /\ packet.sync_address = options.sync_address
    BY SyncFields
  <2>4. offset <= universe_count
    BY <1>2, <2>1
  <2> HIDE DEF packet
  <2> QED
    BY <1>1, <1>2, <1>3, <2>1, <2>2, <2>3, <2>4
<1> QED
  BY <1>4, <1>5

LEMMA OrderStep == GroundInv /\ OrderInv /\ [Next]_vars => OrderInv'
<1> SUFFICES ASSUME GroundInv, OrderInv, [Next]_vars PROVE OrderInv'
  OBVIOUS
<1>1. SenderTypeOK /\ SenderInv /\ WireInv /\ frame \in Nat
  BY GroundParts, Constants DEF SenderTypeOK
<1>2. CASE StartSender \/ NextFrame
  <2>1. frame' = frame + 1 /\ network' = network
    BY <1>2 DEF StartSender, NextFrame
  <2>2. ASSUME NEW i \in 1 .. Len(network)
        PROVE  network[i].frame <= frame' /\ network[i].frame # frame'
    <3>1. network[i] \in Packets
      BY <1>1, ElementOfSeq DEF WireInv
    <3>2. network[i].frame \in Nat
      BY <3>1, PacketKinds, Constants
    <3>3. network[i].frame <= frame
      BY DEF OrderInv
    <3> QED
      BY <1>1, <2>1, <3>2, <3>3
  <2> QED
    BY <2>1, <2>2 DEF OrderInv
<1>3. CASE StopSender
  <2>1. ~Running' /\ frame' = frame /\ network' = network
    BY <1>3 DEF StopSender, Running
  <2> QED
    BY <2>1 DEF OrderInv
<1>4. CASE SendUniverse \/ SendSync
  <2>1. /\ Running /\ options' = options /\ frame' = frame
        /\ offset' = offset + 1 /\ universe_count' = universe_count
        /\ offset \in Nat /\ universe_count \in Nat
    BY <1>1, <1>4, SentOfThisRun
  <2>2. PICK packet \in Packets :
          /\ Transmit(packet) /\ packet.frame = frame
          /\ packet.sync_address = options.sync_address
          /\ CarriesData(packet) =>
                Base(packet) = options.first_universe * SlotsPerUniverse
          /\ ~CarriesData(packet) => offset = universe_count
          /\ offset <= universe_count
    BY <1>1, <1>4, SentOfThisRun
  <2>3. OfThisRun(packet)'
    BY <2>1, <2>2 DEF OfThisRun
  <2>4. ASSUME NEW other \in Packets, OfThisRun(other)
        PROVE  OfThisRun(other)' /\ Kin(other, packet)
    <3>1. CarriesData(other)
      BY <2>1, <2>2, <2>4 DEF OfThisRun
    <3>2. /\ other.sync_address = options.sync_address
          /\ Base(other) = options.first_universe * SlotsPerUniverse
      BY <2>4, <3>1 DEF OfThisRun
    <3>3. OfThisRun(other)'
      BY <2>1, <3>1, <3>2 DEF OfThisRun
    <3> QED
      BY <2>2, <3>1, <3>2, <3>3 DEF Kin
  <2> QED
    BY <1>1, <2>1, <2>2, <2>3, <2>4, SentOrder
<1>5. CASE Loss \/ Receive
  <2>1. Thinned /\ UNCHANGED <<options, frame, offset>>
    <3>1. CASE Loss
      BY <1>1, <3>1, LossThins DEF Loss, LosePacket
    <3>2. CASE Receive
      BY <1>1, <3>2, DeliveryThins DEF Receive, Deliver
    <3> QED
      BY <1>5, <3>1, <3>2
  <2> QED
    BY <2>1, ThinnedOrder
<1>6. CASE Blackout \/ Tick \/ UNCHANGED vars
  <2>1. /\ options' = options /\ frame' = frame /\ offset' = offset
        /\ network' = network
    BY <1>6 DEF Blackout, Tick, vars, senderVars
  <2> QED
    BY <2>1 DEF OrderInv, OfThisRun, Running, universe_count, total_slots
<1> QED
  BY <1>2, <1>3, <1>4, <1>5, <1>6 DEF Next, SenderStep, Send

LEMMA OrderInit == Init => OrderInv
<1> SUFFICES ASSUME Init PROVE OrderInv
  OBVIOUS
<1>1. Len(network) = 0
  BY DEF Init, SenderInit
<1> QED
  BY <1>1 DEF OrderInv
-----------------------------------------------------------------------------
(***************************************************************************)
(* What has arrived of a frame stays in the buffer until its sync packet.  *)
(***************************************************************************)
LEMMA ArrivedInit == Init => ArrivedInv
BY DEF Init, ArrivedInv

LEMMA ArrivedThinned ==
    ASSUME ArrivedInv, Thinned, options' = options, frame' = frame,
           offset' = offset, arrived' = arrived, sync_address' = sync_address,
           sweep' = sweep, write_bank' = write_bank, contents' = contents
    PROVE  ArrivedInv'
<1> SUFFICES ASSUME arrived # {} PROVE ArrivedInv'
  BY DEF ArrivedInv
<1>1. Running' <=> Running
  BY DEF Running
<1>2. universe_count' = universe_count
  BY DEF universe_count, total_slots
<1>3. SyncToCome' => SyncToCome
  <2> SUFFICES ASSUME SyncToCome' PROVE SyncToCome
    OBVIOUS
  <2>1. CASE Running' /\ offset' <= universe_count'
    BY <1>1, <1>2, <2>1 DEF SyncToCome
  <2>2. CASE \E i \in 1 .. Len(network') : ~CarriesData(network'[i])
    BY <2>2 DEF SyncToCome, Thinned
  <2> QED
    BY <2>1, <2>2 DEF SyncToCome
<1>4. ASSUME NEW i \in 1 .. Len(network')
      PROVE  /\ network'[i].frame = frame'
             /\ network'[i].sync_address = sync_address'
             /\ CarriesData(network'[i]) =>
                   Base(network'[i]) = FirstUniverse * SlotsPerUniverse
  <2>1. PICK k \in 1 .. Len(network) : network'[i] = network[k]
    BY DEF Thinned
  <2> QED
    BY <2>1 DEF ArrivedInv
<1>5. Running' => /\ options'.sync_address = sync_address'
                  /\ options'.first_universe = FirstUniverse
  BY <1>1 DEF ArrivedInv
<1>6. SyncToCome' /\ sync_address' # 0 =>
        /\ arrived' \subseteq sweep'.received
        /\ \A p \in Places : (3 * p) \div SlotsPerUniverse \in arrived' =>
              contents'[write_bank'][p] = <<frame', p>>
  BY <1>3 DEF ArrivedInv
<1> QED
  BY <1>4, <1>5, <1>6 DEF ArrivedInv

LEMMA ArrivedSender ==
    ASSUME GroundInv, ArrivedInv, SenderStep
    PROVE  ArrivedInv'
<1>1. SenderTypeOK /\ SenderInv /\ WireInv /\ frame \in Nat
  BY GroundParts, Constants DEF SenderTypeOK
<1>2. /\ contents' = contents /\ sync_address' = sync_address
      /\ sweep' = sweep /\ write_bank' = write_bank
      /\ arrived' = IF frame' # frame THEN {} ELSE arrived
  BY DEF SenderStep, receiverVars, syncVars, pipelineVars
<1>3. CASE StartSender \/ NextFrame
  <2>1. frame' # frame
    BY <1>1, <1>3 DEF StartSender, NextFrame
  <2> QED
    BY <1>2, <2>1 DEF ArrivedInv
<1>4. CASE StopSender
  <2>1. ~Running' /\ frame' = frame /\ network' = network
    BY <1>4 DEF StopSender, Running
  <2>2. arrived' = arrived
    BY <1>2, <2>1
  <2>3. SyncToCome' => SyncToCome
    BY <2>1 DEF SyncToCome
  <2> QED
    BY <1>2, <2>1, <2>2, <2>3 DEF ArrivedInv
<1>5. CASE SendUniverse \/ SendSync
  <2>1. /\ Running /\ options' = options /\ frame' = frame
        /\ offset \in Nat /\ universe_count \in Nat
    BY <1>1, <1>5, SentOfThisRun
  <2>2. PICK packet \in Packets :
          /\ Transmit(packet) /\ packet.frame = frame
          /\ packet.sync_address = options.sync_address
          /\ CarriesData(packet) =>
                Base(packet) = options.first_universe * SlotsPerUniverse
          /\ offset <= universe_count
    BY <1>1, <1>5, SentOfThisRun
  <2>3. /\ Len(network') = Len(network) + 1 /\ Len(network) \in Nat
        /\ \A i \in 1 .. Len(network) : network'[i] = network[i]
        /\ network'[Len(network) + 1] = packet
    BY <1>1, <2>2, TransmitAppends
  <2> SUFFICES ASSUME arrived # {} PROVE ArrivedInv'
    BY <1>2 DEF ArrivedInv
  <2>4. SyncToCome
    BY <2>1, <2>2 DEF SyncToCome
  <2>5. /\ options.sync_address = sync_address
        /\ options.first_universe = FirstUniverse
    BY <2>1 DEF ArrivedInv
  <2>6. ASSUME NEW i \in 1 .. Len(network')
        PROVE  /\ network'[i].frame = frame
               /\ network'[i].sync_address = sync_address
               /\ CarriesData(network'[i]) =>
                     Base(network'[i]) = FirstUniverse * SlotsPerUniverse
    <3>1. CASE i \in 1 .. Len(network)
      <4>1. network'[i] = network[i]
        BY <2>3, <3>1
      <4> QED
        BY <3>1, <4>1 DEF ArrivedInv
    <3>2. CASE i = Len(network) + 1
      <4>1. network'[i] = packet
        BY <2>3, <3>2
      <4>2. CarriesData(packet) => Base(packet) = FirstUniverse * SlotsPerUniverse
        BY <2>2, <2>5
      <4> QED
        BY <2>2, <2>5, <4>1, <4>2
    <3> QED
      BY <2>3, <3>1, <3>2
  <2>7. arrived' = arrived
    BY <1>2, <2>1
  <2>8. sync_address # 0 =>
          /\ arrived \subseteq sweep.received
          /\ \A p \in Places : (3 * p) \div SlotsPerUniverse \in arrived =>
                contents[write_bank][p] = <<frame, p>>
    BY <2>4 DEF ArrivedInv
  <2> QED
    BY <1>2, <2>1, <2>5, <2>6, <2>7, <2>8 DEF ArrivedInv
<1> QED
  BY <1>3, <1>4, <1>5 DEF SenderStep, Send
(***************************************************************************)
(* A packet of the frame begun last, from this base, is written where the  *)
(* sender meant it, and the other way round.                               *)
(***************************************************************************)
LEMMA BaseInPlace ==
    ASSUME NEW packet \in Packets, IsData(packet)
    PROVE  /\ Base(packet) = FirstUniverse * SlotsPerUniverse
                <=> FirstPlace(packet) = FirstLinearPixel(packet)
           /\ ArrivesInPlace(packet) <=>
                /\ packet.frame = frame
                /\ FirstPlace(packet) = FirstLinearPixel(packet)
<1>1. /\ packet \in DataOnWire /\ WellFormed(packet)
      /\ packet.universe \in Nat /\ packet.universe >= FirstUniverse
  BY PacketKinds DEF Numbered, IsData
<1>2. PICK k \in Nat : packet.universe = FirstUniverse + k
  <2>1. packet.universe - FirstUniverse \in Nat
    BY <1>1, Constants
  <2>2. packet.universe = FirstUniverse + (packet.universe - FirstUniverse)
    BY <1>1, Constants
  <2> QED
    BY <2>1, <2>2
<1>3. FirstSlot(packet) = k * SlotsPerUniverse
  <2>1. packet.universe - FirstUniverse = k
    BY <1>2, Constants
  <2> QED
    BY <2>1 DEF FirstSlot
<1>4. /\ FirstSlot(packet) \in Nat /\ FirstLinearPixel(packet) \in Nat
      /\ 3 * FirstLinearPixel(packet) = FirstSlot(packet)
  BY <1>3, WholePixels DEF FirstLinearPixel
<1>5. packet.universe * SlotsPerUniverse
        = FirstUniverse * SlotsPerUniverse + FirstSlot(packet)
  BY <1>2, <1>3, Constants
<1>6. FirstUniverse * SlotsPerUniverse \in Nat
  BY WholePixels, Constants
<1>7. /\ 1 \in 1 .. Len(packet.rgb_slots)
      /\ packet.rgb_slots \in Seq((1 .. MaxFrames) \X Nat)
      /\ packet.rgb_slots # <<>>
  <2>1. packet.rgb_slots \in Seq((1 .. MaxFrames) \X Nat) /\ packet.rgb_slots # <<>>
    BY <1>1 DEF DataOnWire, WellFormed
  <2>2. Len(packet.rgb_slots) \in Nat /\ Len(packet.rgb_slots) # 0
    BY <2>1, LenProperties, EmptySeq
  <2> QED
    BY <2>1, <2>2
<1>8. packet.rgb_slots[1] \in (1 .. MaxFrames) \X Nat
  BY <1>7, ElementOfSeq
<1>9. FirstPlace(packet) \in Nat
  BY <1>8 DEF FirstPlace
<1>10. Base(packet) = FirstUniverse * SlotsPerUniverse
         <=> FirstPlace(packet) = FirstLinearPixel(packet)
  <2> DEFINE base == FirstUniverse * SlotsPerUniverse
  <2>1. Base(packet) = (base + FirstSlot(packet)) - 3 * FirstPlace(packet)
    BY <1>5 DEF Base
  <2> HIDE DEF base
  <2>2. base \in Nat
    BY <1>6 DEF base
  <2>3. Base(packet) = base <=> FirstPlace(packet) = FirstLinearPixel(packet)
    BY <1>4, <1>9, <2>1, <2>2
  <2> QED
    BY <2>3 DEF base
<1>11. Head(packet.rgb_slots) = <<packet.frame, FirstPlace(packet)>>
  <2>1. Head(packet.rgb_slots) = packet.rgb_slots[1]
    BY <1>7, HeadTailProperties
  <2>2. packet.rgb_slots[1] =
          <<packet.frame, FirstPlace(packet) + ((1 - 1) \div 3)>>
    BY <1>1, <1>7 DEF WellFormed
  <2>3. FirstPlace(packet) + ((1 - 1) \div 3) = FirstPlace(packet)
    BY <1>9
  <2> QED
    BY <2>1, <2>2, <2>3
<1> QED
  BY <1>10, <1>11 DEF ArrivesInPlace

(***************************************************************************)
(* What the packets on the wire have in common once one of the frame begun *)
(* last has arrived in its place.                                          *)
(***************************************************************************)
LEMMA ArrivingFrame ==
    ASSUME GroundInv, OrderInv, ArrivedInv, NEW packet, Deliver(packet),
           IsData(packet), arrived # {} \/ ArrivesInPlace(packet)
    PROVE  /\ packet.frame = frame
           /\ FirstPlace(packet) = FirstLinearPixel(packet)
           /\ \A i \in 1 .. Len(network') :
                 /\ network'[i].frame = frame
                 /\ network'[i].sync_address = packet.sync_address
                 /\ CarriesData(network'[i]) =>
                       Base(network'[i]) = FirstUniverse * SlotsPerUniverse
           /\ Running => /\ options.sync_address = packet.sync_address
                         /\ options.first_universe = FirstUniverse
<1>1. SenderTypeOK /\ WireInv /\ frame \in Nat
  BY GroundParts, Constants DEF SenderTypeOK
<1>2. /\ packet \in Packets /\ packet = network[1] /\ 1 \in 1 .. Len(network)
      /\ Len(network') = Len(network) - 1
      /\ \A i \in 1 .. Len(network') : network'[i] = network[i + 1]
  BY <1>1, DeliveryThins
<1>3. Len(network) \in Nat
  BY <1>1, LenProperties DEF WireInv
<1>4. \A i \in 1 .. Len(network') : i + 1 \in 1 .. Len(network) /\ 1 < i + 1
  BY <1>2, <1>3
<1>5. CarriesData(packet)
  BY <1>2, PacketKinds
<1>6. CASE arrived # {}
  <2>1. /\ packet.frame = frame /\ packet.sync_address = sync_address
        /\ Base(packet) = FirstUniverse * SlotsPerUniverse
    BY <1>2, <1>5, <1>6 DEF ArrivedInv
  <2>2. FirstPlace(packet) = FirstLinearPixel(packet)
    BY <1>2, <2>1, BaseInPlace
  <2>3. ASSUME NEW i \in 1 .. Len(network')
        PROVE  /\ network'[i].frame = frame
               /\ network'[i].sync_address = packet.sync_address
               /\ CarriesData(network'[i]) =>
                     Base(network'[i]) = FirstUniverse * SlotsPerUniverse
    <3>1. network'[i] = network[i + 1] /\ i + 1 \in 1 .. Len(network)
      BY <1>2, <1>4
    <3> QED
      BY <1>6, <2>1, <3>1 DEF ArrivedInv
  <2>4. Running => /\ options.sync_address = packet.sync_address
                   /\ options.first_universe = FirstUniverse
    BY <1>6, <2>1 DEF ArrivedInv
  <2> QED
    BY <2>1, <2>2, <2>3, <2>4
<1>7. CASE ArrivesInPlace(packet)
  <2>1. /\ packet.frame = frame
        /\ FirstPlace(packet) = FirstLinearPixel(packet)
        /\ Base(packet) = FirstUniverse * SlotsPerUniverse
    BY <1>2, <1>7, BaseInPlace
  <2>2. ASSUME NEW i \in 1 .. Len(network')
        PROVE  /\ network'[i].frame = frame
               /\ network'[i].sync_address = packet.sync_address
               /\ CarriesData(network'[i]) =>
                     Base(network'[i]) = FirstUniverse * SlotsPerUniverse
    <3>1. PICK j \in 1 .. Len(network) : j = i + 1 /\ 1 < j
      BY <1>4
    <3>2. network'[i] = network[j]
      BY <1>2, <3>1
    <3>3. network[j] \in Packets
      BY <1>1, ElementOfSeq DEF WireInv
    <3>4. /\ network[j].frame <= frame
          /\ packet.frame <= network[j].frame
          /\ packet.frame = network[j].frame => Kin(packet, network[j])
      BY <1>2, <3>1 DEF OrderInv
    <3>5. network[j].frame = frame
      <4>1. network[j].frame \in Nat
        BY <3>3, PacketKinds, Constants
      <4> QED
        BY <1>1, <2>1, <3>4, <4>1
    <3>6. Kin(packet, network[j])
      BY <2>1, <3>4, <3>5
    <3> QED
      BY <2>1, <3>2, <3>5, <3>6 DEF Kin
  <2>3. ASSUME Running
        PROVE  /\ options.sync_address = packet.sync_address
               /\ options.first_universe = FirstUniverse
    <3>1. OfThisRun(packet)
      BY <1>2, <2>1, <2>3 DEF OrderInv
    <3>2. /\ packet.sync_address = options.sync_address
          /\ options.first_universe * SlotsPerUniverse
               = FirstUniverse * SlotsPerUniverse
      BY <1>5, <2>1, <3>1 DEF OfThisRun
    <3>3. \A a, b \in Nat, d \in Nat \ {0} : a * d = b * d => a = b
      OBVIOUS
    <3>4. options.first_universe \in Nat
      BY <1>1, OptionsOfRun
    <3> QED
      BY <3>2, <3>3, <3>4, Constants
  <2> QED
    BY <2>1, <2>2, <2>3
<1> QED
  BY <1>6, <1>7
LEMMA DeliveredSyncToCome ==
    ASSUME WireInv, NEW packet, Deliver(packet), SyncToCome'
    PROVE  SyncToCome
<1>1. options' = options /\ offset' = offset /\ Thinned
  BY DeliveryThins DEF Deliver
<1>2. (Running' <=> Running) /\ universe_count' = universe_count
  BY <1>1 DEF Running, universe_count, total_slots
<1>3. CASE Running' /\ offset' <= universe_count'
  BY <1>1, <1>2, <1>3 DEF SyncToCome
<1>4. CASE \E i \in 1 .. Len(network') : ~CarriesData(network'[i])
  BY <1>1, <1>4 DEF SyncToCome, Thinned
<1> QED
  BY <1>3, <1>4 DEF SyncToCome

LEMMA ArrivedUniverse ==
    ASSUME GroundInv, OrderInv, ArrivedInv, NEW packet, Deliver(packet),
           ReceiveUniverse(packet)
    PROVE  ArrivedInv'
<1> DEFINE data   == DataIn(packet)
           before == SweepBefore(Restarts(data))
           image  == contents[write_bank]
<1>1. /\ IsData(packet) /\ RightSlots(packet) /\ HandleUniverse(data, now)
      /\ sweep'.received = Universes => data.sync # 0
      /\ contents' = [contents EXCEPT ![write_bank] = Written(@, packet)]
      /\ arrived' = IF ArrivesInPlace(packet)
                    THEN arrived \cup {data.universe} ELSE arrived
  BY DEF ReceiveUniverse
<1>2. /\ WireInv /\ AssemblyInv /\ write_bank \in {0, 1}
      /\ contents \in [{0, 1} -> Images]
  BY GroundParts DEF HistoryTypeOK, ReceiverInv, ReceiverTypeOK, PipelineTypeOK
<1>3. packet \in Packets /\ frame' = frame /\ options' = options
  BY <1>2, DeliveryThins DEF Deliver
<1>4. /\ data.source = Source /\ data.sync = packet.sync_address
      /\ data.universe = packet.universe - FirstUniverse
      /\ data.universe \in Universes
  BY <1>1, <1>3, DataInOK
<1> SUFFICES ASSUME arrived' # {} PROVE ArrivedInv'
  BY DEF ArrivedInv
<1>5. arrived # {} \/ ArrivesInPlace(packet)
  BY <1>1
<1>6. /\ packet.frame = frame
      /\ FirstPlace(packet) = FirstLinearPixel(packet)
      /\ \A i \in 1 .. Len(network') :
            /\ network'[i].frame = frame
            /\ network'[i].sync_address = packet.sync_address
            /\ CarriesData(network'[i]) =>
                  Base(network'[i]) = FirstUniverse * SlotsPerUniverse
      /\ Running => /\ options.sync_address = packet.sync_address
                    /\ options.first_universe = FirstUniverse
  BY <1>1, <1>5, ArrivingFrame
<1>7. arrived' = arrived \cup {data.universe}
  BY <1>1, <1>3, <1>6, BaseInPlace
<1>8. sync_address' = packet.sync_address
  BY <1>1, <1>4, UniverseEffect
<1>9. ASSUME SyncToCome', sync_address' # 0
      PROVE  /\ arrived' \subseteq sweep'.received
             /\ \A p \in Places : (3 * p) \div SlotsPerUniverse \in arrived' =>
                   contents'[write_bank'][p] = <<frame, p>>
  <2>1. SyncToCome
    BY <1>2, <1>9, DeliveredSyncToCome
  <2> HIDE DEF data
  <2>2. /\ sweep'.received = before.received \cup {data.universe}
        /\ write_bank' = write_bank
    <3>1. data.sync # 0
      BY <1>4, <1>8, <1>9
    <3> QED
      BY <1>1, <3>1, UniverseEffect
  <2>3. contents'[write_bank'] = Written(image, packet)
    BY <1>1, <1>2, <2>2
  <2>4. CASE arrived = {}
    <3>1. arrived' = {data.universe}
      BY <1>7, <2>4
    <3>2. ASSUME NEW p \in Places, (3 * p) \div SlotsPerUniverse \in arrived'
          PROVE  contents'[write_bank'][p] = <<frame, p>>
      <4>1. (3 * p) \div SlotsPerUniverse = packet.universe - FirstUniverse
        BY <1>4, <3>1, <3>2
      <4>2. Written(image, packet)[p] = <<packet.frame, p>>
        BY <1>1, <1>3, <1>6, <4>1, InPlaceWritten
      <4> QED
        BY <1>6, <2>3, <4>2
    <3> QED
      BY <2>2, <3>1, <3>2
  <2>5. CASE arrived # {}
    <3>1. packet.sync_address = sync_address
      <4>1. packet = network[1] /\ 1 \in 1 .. Len(network)
        BY <1>2, DeliveryThins
      <4> QED
        BY <2>5, <4>1 DEF ArrivedInv
    <3>2. sync_address # 0
      BY <1>8, <1>9, <3>1
    <3>3. ~Restarts(data)
      <4>1. ~Preempts(data)
        BY <1>2, <1>4, OneSource
      <4>2. ~SyncChanges(data)
        BY <1>2, <1>4, <3>1, <3>2 DEF SyncChanges, AssemblyInv
      <4> QED
        BY <4>1, <4>2 DEF Restarts
    <3>4. before = sweep
      BY <3>3 DEF SweepBefore
    <3>5. /\ arrived \subseteq sweep.received
          /\ \A p \in Places : (3 * p) \div SlotsPerUniverse \in arrived =>
                image[p] = <<frame, p>>
      BY <2>1, <2>5, <3>2 DEF ArrivedInv
    <3>6. arrived' \subseteq sweep'.received
      BY <1>7, <2>2, <3>4, <3>5
    <3>7. ASSUME NEW p \in Places, (3 * p) \div SlotsPerUniverse \in arrived'
          PROVE  contents'[write_bank'][p] = <<frame, p>>
      <4>1. CASE (3 * p) \div SlotsPerUniverse = packet.universe - FirstUniverse
        <5>1. Written(image, packet)[p] = <<packet.frame, p>>
          BY <1>1, <1>3, <1>6, <4>1, InPlaceWritten
        <5> QED
          BY <1>6, <2>3, <5>1
      <4>2. CASE (3 * p) \div SlotsPerUniverse \in arrived
        <5>1. image[p] = <<frame, p>>
          BY <3>5, <4>2
        <5>2. \/ Written(image, packet)[p] = <<packet.frame, p>>
              \/ Written(image, packet)[p] = image[p]
          BY <1>1, <1>3, <1>6, InPlaceWritten
        <5> QED
          BY <1>6, <2>3, <5>1, <5>2
      <4> QED
        BY <1>4, <1>7, <3>7, <4>1, <4>2
    <3> QED
      BY <3>6, <3>7
  <2> QED
    BY <2>4, <2>5
<1>10. ASSUME NEW i \in 1 .. Len(network')
       PROVE  /\ network'[i].frame = frame'
              /\ network'[i].sync_address = sync_address'
              /\ CarriesData(network'[i]) =>
                    Base(network'[i]) = FirstUniverse * SlotsPerUniverse
  BY <1>3, <1>6, <1>8
<1>11. Running' => /\ options'.sync_address = sync_address'
                   /\ options'.first_universe = FirstUniverse
  BY <1>3, <1>6, <1>8 DEF Running
<1> QED
  BY <1>3, <1>9, <1>10, <1>11 DEF ArrivedInv

(***************************************************************************)
(* A sync packet of the frame is the last of it.                           *)
(***************************************************************************)
LEMMA ArrivedSync ==
    ASSUME GroundInv, OrderInv, ArrivedInv, NEW packet, Deliver(packet),
           ReceiveSync(packet)
    PROVE  ArrivedInv'
<1>1. SenderTypeOK /\ WireInv /\ universe_count \in Nat
  BY GroundParts, UniverseCount
<1>2. /\ packet \in Packets /\ packet = network[1] /\ 1 \in 1 .. Len(network)
      /\ Len(network') = Len(network) - 1 /\ Len(network) \in Nat
      /\ \A i \in 1 .. Len(network') : network'[i] = network[i + 1]
      /\ options' = options /\ frame' = frame /\ offset' = offset
  BY <1>1, DeliveryThins, LenProperties DEF WireInv, Deliver
<1>3. ~CarriesData(packet)
  BY <1>2, PacketKinds DEF ReceiveSync
<1>4. /\ sync_address' = sync_address /\ arrived' = arrived
  BY ReceiveSyncGround
<1> SUFFICES ASSUME arrived # {} PROVE ArrivedInv'
  BY <1>4 DEF ArrivedInv
<1>5. packet.frame = frame
  BY <1>2 DEF ArrivedInv
<1>6. \A i \in 1 .. Len(network') : FALSE
  <2> SUFFICES ASSUME NEW i \in 1 .. Len(network') PROVE FALSE
    OBVIOUS
  <2>1. PICK j \in 1 .. Len(network) : j = i + 1 /\ 1 < j
    BY <1>2
  <2>2. network[j].frame = frame
    BY DEF ArrivedInv
  <2>3. Kin(packet, network[j])
    BY <1>2, <1>5, <2>1, <2>2 DEF OrderInv
  <2> QED
    BY <1>3, <2>3 DEF Kin
<1>7. (Running' <=> Running) /\ universe_count' = universe_count
  BY <1>2 DEF Running, universe_count, total_slots
<1>8. ~SyncToCome'
  <2>1. ASSUME Running PROVE ~(offset' <= universe_count')
    <3>1. OfThisRun(packet)
      BY <1>2, <1>5, <2>1 DEF OrderInv
    <3>2. offset = universe_count + 1
      BY <1>3, <3>1 DEF OfThisRun
    <3> QED
      BY <1>1, <1>2, <1>7, <3>2
  <2> QED
    BY <1>6, <1>7, <2>1 DEF SyncToCome
<1>9. Running' => /\ options'.sync_address = sync_address'
                  /\ options'.first_universe = FirstUniverse
  BY <1>2, <1>4, <1>7 DEF ArrivedInv
<1> QED
  BY <1>6, <1>8, <1>9 DEF ArrivedInv

LEMMA ArrivedStep ==
    GroundInv /\ OrderInv /\ ArrivedInv /\ [Next]_vars => ArrivedInv'
<1> SUFFICES ASSUME GroundInv, OrderInv, ArrivedInv, [Next]_vars
             PROVE  ArrivedInv'
  OBVIOUS
<1>1. WireInv
  BY GroundParts
<1>2. CASE SenderStep
  BY <1>2, ArrivedSender
<1>3. CASE Loss
  <2>1. Thinned
    BY <1>1, <1>3, LossThins DEF Loss
  <2>2. /\ options' = options /\ frame' = frame /\ offset' = offset
        /\ arrived' = arrived /\ sync_address' = sync_address
        /\ sweep' = sweep /\ write_bank' = write_bank /\ contents' = contents
    BY <1>3 DEF Loss, LosePacket, receiverVars, syncVars, pipelineVars
  <2> QED
    BY <2>1, <2>2, ArrivedThinned
<1>4. CASE Receive
  <2>1. PICK packet \in ToSet(network) :
          /\ Deliver(packet)
          /\ \/ ReceiveUniverse(packet) \/ ReceiveWrongSlots(packet)
             \/ ReceiveTerminated(packet) \/ ReceiveSync(packet)
             \/ ReceiveIgnored(packet)
    BY <1>4 DEF Receive
  <2>2. /\ packet \in Packets /\ Thinned
        /\ options' = options /\ frame' = frame /\ offset' = offset
    BY <1>1, <2>1, DeliveryThins DEF Deliver
  <2>3. CASE ReceiveUniverse(packet)
    BY <2>1, <2>3, ArrivedUniverse
  <2>4. CASE ReceiveWrongSlots(packet)
    <3>1. /\ sync_address' = sync_address /\ sweep' = sweep
          /\ write_bank' = write_bank /\ contents' = contents /\ arrived' = arrived
      BY <2>2, <2>4, ReceiveWrongSlotsGround
    <3> QED
      BY <2>2, <3>1, ArrivedThinned
  <2>5. CASE ReceiveTerminated(packet)
    BY <2>5 DEF ReceiveTerminated, ArrivedInv
  <2>6. CASE ReceiveSync(packet)
    BY <2>1, <2>6, ArrivedSync
  <2>7. CASE ReceiveIgnored(packet)
    <3>1. /\ sync_address' = sync_address /\ sweep' = sweep
          /\ write_bank' = write_bank /\ contents' = contents /\ arrived' = arrived
      BY <2>7 DEF ReceiveIgnored, receiverVars, syncVars, pipelineVars
    <3> QED
      BY <2>2, <3>1, ArrivedThinned
  <2> QED
    BY <2>1, <2>3, <2>4, <2>5, <2>6, <2>7
<1>5. CASE Blackout
  BY <1>5 DEF Blackout, ArrivedInv
<1>6. CASE Tick \/ UNCHANGED vars
  <2>1. /\ options' = options /\ frame' = frame /\ offset' = offset
        /\ network' = network /\ arrived' = arrived
        /\ sync_address' = sync_address /\ sweep' = sweep
        /\ write_bank' = write_bank /\ contents' = contents
    BY <1>6 DEF Tick, vars, linkVars, senderVars, receiverVars, syncVars, pipelineVars
  <2>2. SyncToCome' => SyncToCome
    BY <2>1 DEF SyncToCome, Running, universe_count, total_slots
  <2> QED
    BY <2>1, <2>2 DEF ArrivedInv, Running
<1> QED
  BY <1>2, <1>3, <1>4, <1>5, <1>6 DEF Next

(***************************************************************************)
(* The whole invariant, of every reachable state.                          *)
(***************************************************************************)
THEOREM LinkCorrect == Spec => []LinkInv
<1> DEFINE Inv == GroundInv /\ StreamInv /\ OrderInv /\ ArrivedInv
<1>1. Init => Inv
  BY GroundInit, StreamInit, OrderInit, ArrivedInit
<1>2. Inv /\ [Next]_vars => Inv'
  <2> SUFFICES ASSUME GroundInv, StreamInv, OrderInv, ArrivedInv, [Next]_vars
               PROVE  GroundInv' /\ StreamInv' /\ OrderInv' /\ ArrivedInv'
    OBVIOUS
  <2> QED
    BY GroundStep, StreamStep, OrderStep, ArrivedStep
<1>3. Inv => LinkInv
  BY DEF LinkInv, GroundInv
<1> QED
  BY <1>1, <1>2, <1>3, PTL DEF Spec

(***************************************************************************)
(* With sync packets losses do not last: when every universe of the frame  *)
(* begun last has arrived in its place and then its sync packet, the       *)
(* receiver commits, and what the PL takes is that frame alone, whatever   *)
(* was lost before (e131_receiver.c:226-239, 373).                         *)
(***************************************************************************)
THEOREM SyncedFramesAreShown == Spec => SyncedFrameIsShown
<1>1. LinkInv /\ [Next]_vars =>
        [Receive /\ ~IsData(Head(network)) /\ IsSync(Head(network))
         /\ Head(network).frame = frame /\ arrived = Universes
           => /\ sweep # EmptySweep /\ sweep' = EmptySweep
              /\ Took => shown' = ImageOf(frame)]_vars
  <2> SUFFICES ASSUME LinkInv, Receive, ~IsData(Head(network)),
                      IsSync(Head(network)), Head(network).frame = frame,
                      arrived = Universes
               PROVE  /\ sweep # EmptySweep /\ sweep' = EmptySweep
                      /\ Took => shown' = ImageOf(frame)
    OBVIOUS
  <2>1. PICK packet \in ToSet(network) :
          /\ Deliver(packet)
          /\ \/ ReceiveUniverse(packet) \/ ReceiveWrongSlots(packet)
             \/ ReceiveTerminated(packet) \/ ReceiveSync(packet)
             \/ ReceiveIgnored(packet)
          /\ RecordShown
    BY DEF Receive
  <2>2. /\ WireInv /\ AssemblyInv /\ ArrivedInv /\ BitmapMatchesBuffer
        /\ sweep.received \subseteq Universes
        /\ write_bank \in {0, 1} /\ contents \in [{0, 1} -> Images]
    BY DEF LinkInv, TypeOK, ReceiverInv, ReceiverTypeOK, PipelineTypeOK
  <2>3. /\ packet \in Packets /\ packet = network[1] /\ 1 \in 1 .. Len(network)
        /\ packet = Head(network)
    BY <2>1, <2>2, DeliveryThins DEF Deliver
  <2>4. /\ ~CarriesData(packet) /\ packet \in SyncOnWire
        /\ packet.sync_address # 0
    BY <2>3, PacketKinds DEF SyncOnWire
  <2>5. /\ sync_address = packet.sync_address
        /\ Universes \subseteq sweep.received
        /\ \A p \in Places : (3 * p) \div SlotsPerUniverse \in Universes =>
              contents[write_bank][p] = <<frame, p>>
    <3>1. arrived # {}
      BY EmptySequences
    <3>2. sync_address = packet.sync_address
      BY <2>2, <2>3, <3>1 DEF ArrivedInv
    <3>3. SyncToCome
      BY <2>3, <2>4 DEF SyncToCome
    <3> QED
      BY <2>2, <2>4, <3>1, <3>2, <3>3 DEF ArrivedInv
  <2>6. sweep.pending /\ Releases(SyncIn(packet))
    <3>1. sweep.pending
      BY <2>2, <2>5 DEF AssemblyInv
    <3>2. source_locked /\ sync_mode
      BY <2>2, <3>1 DEF BitmapMatchesBuffer
    <3>3. locked_cid = Source
      BY <2>2, <3>2 DEF AssemblyInv
    <3> QED
      BY <2>5, <3>1, <3>2, <3>3 DEF Releases, SyncIn
  <2>7. ReceiveSync(packet)
    BY <2>1, <2>3, <2>6
       DEF ReceiveUniverse, ReceiveWrongSlots, ReceiveTerminated, ReceiveIgnored
  <2>8. sweep' = EmptySweep /\ contents' = contents
    BY <2>7 DEF ReceiveSync
  <2>9. sweep # EmptySweep
    BY <2>6, EmptySequences
  <2>10. contents[write_bank] = ImageOf(frame)
    <3>1. contents[write_bank] \in Images
      BY <2>2
    <3>2. ASSUME NEW p \in Places
          PROVE  contents[write_bank][p] = <<frame, p>>
      <4>1. (3 * p) \div SlotsPerUniverse \in Universes
        BY UniverseOfPixel, Constants DEF Places
      <4> QED
        BY <2>5, <4>1
    <3> QED
      BY <3>1, <3>2, HeldImage
  <2> QED
    BY <2>1, <2>8, <2>9, <2>10 DEF RecordShown
<1> QED
  BY <1>1, LinkCorrect, PTL DEF Spec, SyncedFrameIsShown
=============================================================================

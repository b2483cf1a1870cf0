------------------------- MODULE RxPacketRingProofs --------------------------
(***************************************************************************)
(* That the ring is a queue and loses no packet without counting it.       *)
(***************************************************************************)
EXTENDS RxPacketRing, Sequences, TLAPS

-----------------------------------------------------------------------------
(* Remainders.                                                             *)

LEMMA ModType ==
    ASSUME NEW n \in Nat, NEW d \in Nat \ {0}
    PROVE  n % d \in 0 .. d - 1
OBVIOUS

LEMMA ModSplit ==
    ASSUME NEW n \in Nat, NEW d \in Nat \ {0}
    PROVE  n \div d \in Nat /\ n = (n \div d) * d + (n % d)
OBVIOUS

LEMMA ModUnique ==
    ASSUME NEW q \in Nat, NEW r \in Nat, NEW d \in Nat \ {0}, r < d
    PROVE  (q * d + r) % d = r
OBVIOUS

LEMMA ModAdd ==
    ASSUME NEW a \in Nat, NEW b \in Nat, NEW d \in Nat \ {0}
    PROVE  (a + (b % d)) % d = (a + b) % d
<1> DEFINE q == b \div d
           m == a + (b % d)
           p == m \div d
           r == m % d
<1>1. q \in Nat /\ b = q * d + (b % d) /\ b % d \in Nat
  BY ModSplit, ModType
<1>2. m \in Nat
  BY <1>1
<1>3. p \in Nat /\ m = p * d + r /\ r \in Nat /\ r < d
  BY <1>2, ModSplit, ModType
<1>4. a + b = (p + q) * d + r /\ p + q \in Nat
  BY <1>1, <1>3
<1>5. ((p + q) * d + r) % d = r
  <2> HIDE DEF p, q, r
  <2> QED
    BY <1>3, <1>4, ModUnique
<1> QED
  BY <1>4, <1>5

(* An index that has run over the end at most once.                        *)
LEMMA ModOnce ==
    ASSUME NEW n \in Nat, NEW d \in Nat \ {0}, n < 2 * d
    PROVE  n % d = IF n < d THEN n ELSE n - d
OBVIOUS

-----------------------------------------------------------------------------
(* The inductive invariant: types, the head `depth' slots after the tail,  *)
(* and the counters.                                                       *)
IndexInv == head = (tail + depth) % RingDepth

RingInv == TypeOK /\ IndexInv /\ EveryPacketAccounted

LEMMA CountType ==
    ASSUME NEW c \in Counters
    PROVE  Count(c) \in Counters
BY ModType, RingAssumption DEF Count, Counters

LEMMA NextPositionType ==
    ASSUME NEW i \in Positions
    PROVE  /\ NextPosition(i) \in Positions
           /\ NextPosition(i) = IF i + 1 = RingDepth THEN 0 ELSE i + 1
<1> DEFINE n == i + 1
<1>1. n \in Nat /\ RingDepth \in Nat \ {0} /\ n <= RingDepth /\ n < 2 * RingDepth
  BY RingAssumption DEF Positions
<1>2. n % RingDepth = IF n < RingDepth THEN n ELSE n - RingDepth
  <2> HIDE DEF n
  <2> QED
    BY <1>1, ModOnce
<1> QED
  BY <1>1, <1>2 DEF NextPosition, Positions

LEMMA RingTypeStep ==
    ASSUME TypeOK, [Next]_vars
    PROVE  TypeOK'
<1> USE DEF TypeOK
<1>1. CASE Receive
  <2>1. rx_packets' \in Counters /\ rx_oversized' = rx_oversized
    BY <1>1, CountType DEF Receive
  <2>2. CASE Drop
    BY <2>1, <2>2, CountType DEF Drop
  <2>3. ASSUME NEW packet \in Packets, Store(packet) PROVE TypeOK'
    <3>1. depth + 1 \in 0 .. RingDepth
      BY <2>3, RingAssumption DEF Store
    <3>2. slots' \in [Positions -> Packets \cup {EmptySlot}]
      BY <2>3 DEF Store
    <3> QED
      BY <2>1, <2>3, <3>1, <3>2, NextPositionType DEF Store
  <2> QED
    BY <1>1, <2>2, <2>3 DEF Receive
<1>2. CASE ReceiveOversized
  BY <1>2, CountType DEF ReceiveOversized, ringVars
<1>3. CASE Dequeue
  BY <1>3, CountType, NextPositionType, RingAssumption DEF Dequeue
<1>4. CASE UNCHANGED vars
  BY <1>4 DEF vars, ringVars
<1> QED
  BY <1>1, <1>2, <1>3, <1>4 DEF Next

(* Where the n-th slot after the tail is.                                  *)
LEMMA SlotAfter ==
    ASSUME NEW t \in Positions, NEW n \in 0 .. RingDepth
    PROVE  (t + n) % RingDepth = IF t + n < RingDepth THEN t + n ELSE t + n - RingDepth
<1>1. t + n \in Nat /\ RingDepth \in Nat \ {0} /\ t + n < 2 * RingDepth
  BY RingAssumption DEF Positions
<1>2. ASSUME NEW m \in Nat, m = t + n, m < 2 * RingDepth
      PROVE  m % RingDepth = IF m < RingDepth THEN m ELSE m - RingDepth
  BY <1>1, <1>2, ModOnce
<1> QED
  BY <1>1, <1>2, RingAssumption DEF Positions

LEMMA IndexStep ==
    ASSUME TypeOK, IndexInv, [Next]_vars
    PROVE  IndexInv'
<1>1. RingDepth \in Nat \ {0} /\ tail \in Positions /\ depth \in 0 .. RingDepth
  BY RingAssumption DEF TypeOK
<1>2. head = IF tail + depth < RingDepth THEN tail + depth ELSE tail + depth - RingDepth
  BY <1>1, SlotAfter DEF IndexInv
<1>3. ASSUME NEW packet \in Packets, Store(packet) PROVE IndexInv'
  <2>1. depth' = depth + 1 /\ depth' \in 0 .. RingDepth /\ tail' = tail
    BY <1>1, <1>3 DEF Store
  <2>2. (tail + depth') % RingDepth =
           IF tail + depth' < RingDepth THEN tail + depth' ELSE tail + depth' - RingDepth
    BY <1>1, <2>1, SlotAfter
  <2>3. head' = IF head + 1 = RingDepth THEN 0 ELSE head + 1
    BY <1>3, NextPositionType DEF Store, TypeOK
  <2> QED
    BY <1>1, <1>2, <2>1, <2>2, <2>3 DEF IndexInv, Positions
<1>4. CASE Dequeue
  <2>1. depth' = depth - 1 /\ depth' \in 0 .. RingDepth /\ head' = head
    BY <1>1, <1>4 DEF Dequeue
  <2>2. tail' = (IF tail + 1 = RingDepth THEN 0 ELSE tail + 1) /\ tail' \in Positions
    BY <1>1, <1>4, NextPositionType DEF Dequeue
  <2>3. (tail' + depth') % RingDepth =
           IF tail' + depth' < RingDepth THEN tail' + depth' ELSE tail' + depth' - RingDepth
    BY <2>1, <2>2, SlotAfter
  <2> QED
    BY <1>1, <1>2, <2>1, <2>2, <2>3 DEF IndexInv, Positions
<1>5. CASE UNCHANGED <<head, tail, depth>>
  BY <1>5 DEF IndexInv
<1> QED
  BY <1>3, <1>4, <1>5 DEF Next, Receive, Drop, ReceiveOversized, vars, ringVars

(* A counter that wraps counts modulo its space also inside a sum.         *)
LEMMA CountInSum ==
    ASSUME NEW rest \in Nat, NEW c \in Nat
    PROVE  (rest + Count(c)) % CounterSpace = (rest + c + 1) % CounterSpace
<1> DEFINE b == c + 1
<1>1. b \in Nat /\ CounterSpace \in Nat \ {0}
  BY RingAssumption
<1>2. (rest + (b % CounterSpace)) % CounterSpace = (rest + b) % CounterSpace
  <2> HIDE DEF b
  <2> QED
    BY <1>1, ModAdd
<1>3. rest + b = rest + c + 1
  BY <1>1
<1> QED
  BY <1>2, <1>3 DEF Count

LEMMA AccountedStep ==
    ASSUME TypeOK, EveryPacketAccounted, [Next]_vars
    PROVE  EveryPacketAccounted'
<1> DEFINE sum == processed + depth + dropped + rx_oversized
<1>1. /\ processed \in Nat /\ depth \in Nat /\ dropped \in Nat /\ rx_oversized \in Nat
      /\ sum \in Nat
  BY RingAssumption DEF TypeOK, Counters
<1>2. /\ Count(processed) \in Nat /\ Count(dropped) \in Nat /\ Count(rx_oversized) \in Nat
  BY CountType, RingAssumption DEF TypeOK, Counters
<1>3. Count(rx_packets) = (sum + 1) % CounterSpace
  <2>1. rx_packets = sum % CounterSpace /\ CounterSpace \in Nat \ {0} /\ 1 \in Nat
    BY RingAssumption DEF EveryPacketAccounted
  <2>2. (1 + (sum % CounterSpace)) % CounterSpace = (1 + sum) % CounterSpace
    <3> HIDE DEF sum
    <3> QED
      BY <1>1, <2>1, ModAdd
  <2>3. rx_packets + 1 = 1 + (sum % CounterSpace) /\ 1 + sum = sum + 1
    <3> HIDE DEF sum
    <3> QED
      BY <1>1, <2>1, ModType
  <2> QED
    BY <2>2, <2>3 DEF Count
<1>4. CASE Drop /\ rx_packets' = Count(rx_packets) /\ rx_oversized' = rx_oversized
  <2> DEFINE rest == processed + depth + rx_oversized
  <2>1. rest \in Nat /\ sum + 1 = rest + dropped + 1
    BY <1>1
  <2>2. (rest + Count(dropped)) % CounterSpace = (rest + dropped + 1) % CounterSpace
    <3> HIDE DEF rest
    <3> QED
      BY <1>1, <2>1, CountInSum
  <2>3. rest + Count(dropped) = processed' + depth' + dropped' + rx_oversized'
    BY <1>1, <1>2, <1>4 DEF Drop
  <2> QED
    BY <1>3, <1>4, <2>1, <2>2, <2>3 DEF EveryPacketAccounted
<1>5. ASSUME NEW packet \in Packets, Store(packet),
             rx_packets' = Count(rx_packets), rx_oversized' = rx_oversized
      PROVE  EveryPacketAccounted'
  <2>1. sum + 1 = processed' + depth' + dropped' + rx_oversized'
    BY <1>1, <1>5 DEF Store
  <2> QED
    BY <1>3, <1>5, <2>1 DEF EveryPacketAccounted
<1>6. CASE ReceiveOversized
  <2> DEFINE rest == processed + depth + dropped
  <2>1. rest \in Nat /\ sum + 1 = rest + rx_oversized + 1
    BY <1>1
  <2>2. (rest + Count(rx_oversized)) % CounterSpace = (rest + rx_oversized + 1) % CounterSpace
    <3> HIDE DEF rest
    <3> QED
      BY <1>1, <2>1, CountInSum
  <2>3. rest + Count(rx_oversized) = processed' + depth' + dropped' + rx_oversized'
    BY <1>1, <1>2, <1>6 DEF ReceiveOversized, ringVars
  <2> QED
    BY <1>3, <1>6, <2>1, <2>2, <2>3 DEF EveryPacketAccounted, ReceiveOversized
<1>7. CASE Dequeue
  <2> DEFINE rest == (depth - 1) + dropped + rx_oversized
  <2>1. rest \in Nat /\ sum = rest + processed + 1
    BY <1>1, <1>7 DEF Dequeue
  <2>2. (rest + Count(processed)) % CounterSpace = (rest + processed + 1) % CounterSpace
    <3> HIDE DEF rest
    <3> QED
      BY <1>1, <2>1, CountInSum
  <2>3. rest + Count(processed) = processed' + depth' + dropped' + rx_oversized'
    BY <1>1, <1>2, <1>7 DEF Dequeue
  <2> QED
    BY <1>7, <2>1, <2>2, <2>3 DEF EveryPacketAccounted, Dequeue
<1>8. CASE UNCHANGED vars
  BY <1>8 DEF vars, ringVars, EveryPacketAccounted
<1> QED
  BY <1>4, <1>5, <1>6, <1>7, <1>8 DEF Next, Receive

LEMMA RingInit == Init => RingInv
<1> SUFFICES ASSUME Init PROVE RingInv
  OBVIOUS
<1>1. TypeOK
  BY RingAssumption DEF Init, TypeOK, Positions, Counters
<1>2. IndexInv /\ EveryPacketAccounted
  BY ModOnce, RingAssumption DEF Init, IndexInv, EveryPacketAccounted
<1> QED
  BY <1>1, <1>2 DEF RingInv

LEMMA RingStep == RingInv /\ [Next]_vars => RingInv'
BY RingTypeStep, IndexStep, AccountedStep DEF RingInv

LEMMA RingCorrect == Spec => []RingInv
BY RingInit, RingStep, PTL DEF Spec

(***************************************************************************)
(* Indices and depth stay within the ring, whatever its size.              *)
(***************************************************************************)
THEOREM RingTypeCorrect == Spec => []TypeOK
<1>1. RingInv => TypeOK
  BY DEF RingInv
<1> QED
  BY <1>1, RingCorrect, PTL

(***************************************************************************)
(* Every packet that reached the callback is handled, waiting or counted   *)
(* as lost, for any size of the ring and of the counters                   *)
(* (ethernet_receiver.c:138-153).                                          *)
(***************************************************************************)
THEOREM PacketsAccounted == Spec => []EveryPacketAccounted
<1>1. RingInv => EveryPacketAccounted
  BY DEF RingInv
<1> QED
  BY <1>1, RingCorrect, PTL

-----------------------------------------------------------------------------
(* The ring is a queue.  Slots the queue does not hold may be overwritten: *)
(* up to `depth' slots after the tail, none is the head of a ring that is  *)
(* not full.                                                               *)
Held == Packets \cup {EmptySlot}

ContentsFit == Contents \in Seq(Held) /\ Len(Contents) = depth

LEMMA ContentsType == TypeOK => ContentsFit
<1> SUFFICES ASSUME TypeOK PROVE ContentsFit
  OBVIOUS
<1>1. RingDepth \in Nat \ {0} /\ depth \in Nat /\ tail \in Positions
  BY RingAssumption DEF TypeOK
<1>2. ASSUME NEW i \in 1 .. depth PROVE slots[(tail + i - 1) % RingDepth] \in Held
  <2> DEFINE n == tail + i - 1
  <2>1. n \in Nat
    BY <1>1 DEF Positions
  <2>2. n % RingDepth \in Positions
    <3> HIDE DEF n
    <3> QED
      BY <1>1, <2>1, ModType DEF Positions
  <2> QED
    BY <2>2 DEF TypeOK, Held
<1>3. Contents \in [1 .. depth -> Held]
  BY <1>2 DEF Contents
<1>4. Contents \in Seq(Held) /\ Len(Contents) = depth
  <2> HIDE DEF Contents
  <2> QED
    BY <1>1, <1>3
<1> QED
  BY <1>4 DEF ContentsFit

LEMMA StorePuts ==
    ASSUME TypeOK, TypeOK', IndexInv, NEW packet \in Packets, Store(packet)
    PROVE  Queue!Put(packet)
<1>1. RingDepth \in Nat \ {0} /\ depth \in Nat /\ tail \in Positions /\ head \in Positions
  BY RingAssumption DEF TypeOK
<1>2. depth' = depth + 1 /\ tail' = tail /\ depth < RingDepth
  BY <1>1 DEF Store, TypeOK
<1>3. Contents'[depth + 1] = packet
  <2>1. tail' + (depth + 1) - 1 = tail + depth
    BY <1>1, <1>2 DEF Positions
  <2>2. Contents'[depth + 1] = slots'[(tail + depth) % RingDepth]
    BY <1>1, <1>2, <2>1 DEF Contents
  <2> QED
    BY <1>1, <2>2 DEF Store, IndexInv, TypeOK
<1>4. ASSUME NEW i \in 1 .. depth PROVE Contents'[i] = Contents[i]
  <2> DEFINE n == i - 1
  <2>1. n \in 0 .. RingDepth /\ depth \in 0 .. RingDepth /\ n < depth
        /\ tail + i - 1 = tail + n
    BY <1>1, <1>2 DEF Positions
  <2>2. (tail + n) % RingDepth =
           IF tail + n < RingDepth THEN tail + n ELSE tail + n - RingDepth
    <3> HIDE DEF n
    <3> QED
      BY <1>1, <2>1, SlotAfter
  <2>3. head = IF tail + depth < RingDepth THEN tail + depth ELSE tail + depth - RingDepth
    BY <1>1, <2>1, SlotAfter DEF IndexInv
  <2>4. (tail + n) % RingDepth # head
    BY <1>1, <1>2, <2>1, <2>2, <2>3 DEF Positions
  <2>5. slots'[(tail + n) % RingDepth] = slots[(tail + n) % RingDepth]
    <3>1. (tail + n) % RingDepth \in Positions
      BY <1>1, <2>1, <2>2 DEF Positions
    <3> QED
      BY <2>4, <3>1 DEF Store, TypeOK
  <2> QED
    BY <1>1, <1>2, <2>1, <2>5 DEF Contents
<1>5. Contents' = Append(Contents, packet)
  <2>1. Contents \in Seq(Held) /\ Len(Contents) = depth
    BY ContentsType DEF ContentsFit
  <2>2. Contents' \in Seq(Held) /\ Len(Contents') = depth + 1
    <3>1. ContentsFit'
      BY ContentsType, PTL
    <3> QED
      BY <1>2, <3>1 DEF ContentsFit
  <2>3. \A i \in 1 .. depth + 1 : Contents'[i] = Append(Contents, packet)[i]
    <3> HIDE DEF Contents
    <3> QED
      BY <1>1, <1>3, <1>4, <2>1
  <2> QED
    BY <1>1, <2>1, <2>2, <2>3
<1> QED
  BY <1>2, <1>5, ContentsType DEF Queue!Put, Queue!Full, ContentsFit

LEMMA DequeueTakes ==
    ASSUME TypeOK, TypeOK', Dequeue
    PROVE  Queue!Take
<1>1. RingDepth \in Nat \ {0} /\ depth \in 1 .. RingDepth /\ tail \in Positions
  BY RingAssumption DEF TypeOK, Dequeue
<1>2. /\ depth' = depth - 1
      /\ tail' \in Positions
      /\ tail' = IF tail + 1 = RingDepth THEN 0 ELSE tail + 1
      /\ slots' = slots
  BY <1>1, NextPositionType DEF Dequeue
<1>3. ASSUME NEW i \in 1 .. depth - 1 PROVE Contents'[i] = Contents[i + 1]
  <2> DEFINE n == i - 1
  <2>1. /\ n \in 0 .. RingDepth /\ i \in 0 .. RingDepth
        /\ tail' + i - 1 = tail' + n /\ tail + (i + 1) - 1 = tail + i
    BY <1>1, <1>2 DEF Positions
  <2>2. (tail' + n) % RingDepth =
           IF tail' + n < RingDepth THEN tail' + n ELSE tail' + n - RingDepth
    <3> HIDE DEF n
    <3> QED
      BY <1>2, <2>1, SlotAfter
  <2>3. (tail + i) % RingDepth =
           IF tail + i < RingDepth THEN tail + i ELSE tail + i - RingDepth
    BY <1>1, <2>1, SlotAfter
  <2>4. (tail' + n) % RingDepth = (tail + i) % RingDepth
    BY <1>1, <1>2, <2>1, <2>2, <2>3 DEF Positions
  <2> QED
    BY <1>1, <1>2, <2>1, <2>4 DEF Contents
<1>4. /\ Contents \in Seq(Held) /\ Len(Contents) = depth
      /\ Contents' \in Seq(Held) /\ Len(Contents') = depth - 1
  <2>1. ContentsFit /\ ContentsFit'
    BY ContentsType, PTL
  <2> QED
    BY <1>2, <2>1 DEF ContentsFit
<1>5. Contents # <<>> /\ Contents' = Tail(Contents)
  <2> HIDE DEF Contents
  <2>1. Contents # <<>>
    BY <1>1, <1>4
  <2>2. Tail(Contents) \in Seq(Held) /\ Len(Tail(Contents)) = depth - 1
    BY <1>1, <1>4
  <2>3. \A i \in 1 .. depth - 1 : Contents'[i] = Tail(Contents)[i]
    BY <1>1, <1>3, <1>4
  <2> QED
    BY <1>4, <2>1, <2>2, <2>3
<1> QED
  BY <1>5 DEF Queue!Take

(***************************************************************************)
(* The ring is a bounded first-in first-out queue that loses a packet only *)
(* when it is full, and then the new one: every callback and every dequeue *)
(* is a step of the queue or leaves it as it is                            *)
(* (rx_packet_ring.c:24-55, 77-88).                                        *)
(***************************************************************************)
THEOREM RingIsAQueue == Spec => QueueSpec
<1>1. Init => Queue!Init
  <2> SUFFICES ASSUME Init PROVE Contents = <<>>
    BY DEF Queue!Init
  <2>1. depth = 0
    BY DEF Init
  <2> QED
    BY <2>1 DEF Contents
<1>2. RingInv /\ RingInv' /\ [Next]_vars => [Queue!Next]_Contents
  <2> SUFFICES ASSUME RingInv, RingInv', [Next]_vars
               PROVE  Queue!Next \/ UNCHANGED Contents
    OBVIOUS
  <2>1. ASSUME NEW packet \in Packets, Store(packet) PROVE Queue!Next
    BY <2>1, StorePuts DEF RingInv, Queue!Next
  <2>2. CASE Dequeue
    BY <2>2, DequeueTakes DEF RingInv, Queue!Next
  <2>3. CASE UNCHANGED <<slots, tail, depth>>
    BY <2>3 DEF Contents
  <2> QED
    BY <2>1, <2>2, <2>3 DEF Next, Receive, Drop, ReceiveOversized, vars, ringVars
<1> QED
  BY <1>1, <1>2, RingCorrect, PTL DEF Spec, QueueSpec, Queue!Spec
=============================================================================

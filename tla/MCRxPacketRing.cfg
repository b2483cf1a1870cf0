\* Three slots, two packets told apart, counters that wrap.
SPECIFICATION Spec

CONSTANTS
    RingDepth = 3
    Packets = {p1, p2}
    EmptySlot = EmptySlot
    CounterSpace = 5

INVARIANTS TypeOK EveryPacketAccounted
PROPERTIES QueueSpec

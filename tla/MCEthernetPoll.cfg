\* One sender of one universe: the ring, the rounds and the blackout timer.
SPECIFICATION FairSpec

CONSTANTS
    Universes = {0}
    Sources = {s1}
    SyncAddresses = {0}
    Black = Black
    Priorities = {1}
    NoSource = NoSource
    TimeSpace = 4
    BlackoutTimeout = 2
    RingDepth = 2
    InputRounds = 2
    DrainPerRound = 1
    MaxPollTime = 1

INVARIANTS TypeOK BlackoutOnTime
PROPERTIES PollReturns

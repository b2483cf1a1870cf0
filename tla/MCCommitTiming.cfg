\* A poll that drains less than it receives: packets wait for later polls.
SPECIFICATION TimingSpec

CONSTANTS
    Universes = {0}
    Sources = {s1}
    SyncAddresses = {0}
    Black = Black
    Priorities = {1}
    NoSource = NoSource
    TimeSpace = 6
    BlackoutTimeout = 2
    RingDepth = 3
    InputRounds = 1
    DrainPerRound = 1
    MaxPollTime = 1

INVARIANTS CommitGapIsElapsed

\* Two senders, two priorities, with and without a sync address.
SPECIFICATION Spec

CONSTANTS
    Universes = {0, 1}
    Sources = {s1, s2}
    SyncAddresses = {0, 1, 2}
    Black = Black
    Priorities = {1, 2}
    NoSource = NoSource
    TimeSpace = 2
    BlackoutTimeout = 1

SYMMETRY SourceSymmetry

INVARIANTS TypeOK FrameIsOneSweep BitmapMatchesBuffer

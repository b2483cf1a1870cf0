\* Three frames of three pixels in two universes, up to two packets under way.
SPECIFICATION Spec

CONSTANTS
    Universes = {0, 1}
    Sources = {s1}
    SyncAddresses = {0, 1}
    Black = Black
    Priorities = {100}
    NoSource = NoSource
    TimeSpace = 2
    BlackoutTimeout = 1
    SlotsPerUniverse = 6
    FirstUniverse = 1
    PixelCount = 3
    SLOTS_PER_UNIVERSE = 6
    CommandLines <- MCCommandLines
    DefaultSyncAddress = 1
    SequenceSpace = 5
    MaxFrames = 3
    MaxInFlight = 2
    Source = s1
    Priority = 100
    CounterSpace = 2

INVARIANTS TypeOK ParsedPixelsInFrame
PROPERTIES UndamagedFramesAreWhole SyncedFrameIsShown AnomalyMeansDamage
CHECK_DEADLOCK FALSE

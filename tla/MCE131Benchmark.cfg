SPECIFICATION Spec

CONSTANTS
    MaxGlitches = 1
    Ports = {"board", "modem", "bluetooth"}
    BoardPort = "board"
    Score <- MCScore
    Packets = 1
    MaxBoots = 2
    MaxStatus = 2
    Cells = 1
    MaxStarts = 2
    MaxCalls = 2

INVARIANTS TypeOK StableRowIsHonest RowOfItsBoot XsdbTalksToOwnServer
PROPERTIES BenchmarkEnds
CHECK_DEADLOCK FALSE

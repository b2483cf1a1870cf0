\* With faults, and a configuration scan longer than half a snapshot.
SPECIFICATION Spec

CONSTANTS
    OutputCount = 28
    MaskWords = 1
    BankWords = 1
    SequenceSpace = 4
    NoBusyBank = NoBusyBank
    ReadFaults = TRUE
    Frames = {f1}
    NoFrame = NoFrame
    FrameWords = 1
    SelfTestWords = 1
    SelfTestFrame = f1
    InitialFrame = f1
    WaitTries = 1

INVARIANTS WriterOwnsBank

\* With faults of the consumer, which picks the same frame again.
SPECIFICATION Spec

CONSTANTS
    OutputCount = 2
    MaskWords = 1
    BankWords = 2
    SequenceSpace = 4
    NoBusyBank = NoBusyBank
    ReadFaults = TRUE
    Frames = {f1, f2}
    NoFrame = NoFrame
    FrameWords = 2
    SelfTestWords = 1
    SelfTestFrame = f1
    InitialFrame = f2
    WaitTries = 1

INVARIANTS NoTornFrame CommitNeverRefused

\* Progress: the driver returns, the consumer shows what was accepted.
SPECIFICATION PsFairSpec

CONSTANTS
    OutputCount = 2
    MaskWords = 1
    BankWords = 2
    SequenceSpace = 4
    NoBusyBank = NoBusyBank
    ReadFaults = FALSE
    Frames = {f1, f2}
    NoFrame = NoFrame
    FrameWords = 2
    SelfTestWords = 1
    SelfTestFrame = f1
    InitialFrame = f2
    WaitTries = 1

PROPERTIES CallReturns AcceptedFrameIsShown

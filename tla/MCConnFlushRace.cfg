CONSTANTS
    a = a
    b = b
    r = r
    Reader = r
    Senders = {a, b}
    Outputs = {}
    SendBufSize = 2
    SendHeadroom = 1
    FrameLen = 1
    Quota = 1
    Replays = 0
    Faults = FALSE
    Flushes = TRUE
SYMMETRY Alike
SPECIFICATION Spec
INVARIANTS
    FlushMeansWritten
CHECK_DEADLOCK FALSE

CONSTANTS
    a = a
    b = b
    o = o
    o2 = o2
    r = r
    Reader = r
    Senders = {a, b}
    Outputs = {o, o2}
    SendBufSize = 2
    SendHeadroom = 1
    FrameLen = 3
    Quota = 1
    Replays = 2
    Faults = TRUE
    Flushes = FALSE
SYMMETRY Alike
SPECIFICATION Spec
INVARIANTS
    InOrder
    PendingExact
PROPERTIES
    StreamShared
CHECK_DEADLOCK FALSE

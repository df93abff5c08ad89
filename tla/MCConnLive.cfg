CONSTANTS
    a = a
    r = r
    Reader = r
    Senders = {a}
    Outputs = {}
    SendBufSize = 2
    SendHeadroom = 1
    FrameLen = 2
    Quota = 2
    Replays = 2
    Faults = TRUE
    Flushes = TRUE
SPECIFICATION FairSpec
PROPERTIES
    ReplayEndsAndConnRetires
CHECK_DEADLOCK FALSE

CONSTANTS
    ForwardCap = 2
    MaxBytes = 4
    MaxStarts = 2
SPECIFICATION FwdSpec
INVARIANTS
    NoReplay
CHECK_DEADLOCK FALSE

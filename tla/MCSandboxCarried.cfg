CONSTANTS
    Dirs = {d1, d2}
    Here = d1
    Home = d2
    NoDir = NoDir
    MaxListings = 2
SPECIFICATION WizSpec
INVARIANTS
    SandboxOnlyIfOffered
CHECK_DEADLOCK FALSE

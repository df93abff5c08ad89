CONSTANTS
    TreePanes = {a, b}
    MaxCasts = 1
    MaxReqs = 2
SPECIFICATION TreeSpec
INVARIANTS
    RestoreNeverPanics
CHECK_DEADLOCK FALSE

CONSTANTS
    w1 = w1
    w2 = w2
    w3 = w3
    None = 0
    Tabs = {1, 2, 3, 4, 5, 6}
    Panes = {1, 2, 3, 4, 5, 6, 7, 8, 9}
    Projects = {1, 2, 3, 4, 5, 6}
    Workers = {w1, w2, w3}
    Mixes <- AllMixes
    MaxAbsorb = 1
    MaxLive = 1
SYMMETRY Alike
SPECIFICATION WorkspaceSpec
INVARIANTS
    NothingEmpty
    OverlaysWithinCap

CONSTANTS
    w1 = w1
    None = 0
    Tabs = {1, 2, 3, 4}
    Panes = {1, 2, 3, 4, 5, 6}
    Projects = {1, 2, 3, 4}
    Workers = {w1}
    Mixes <- BadImage
    MaxAbsorb = 1
    MaxLive = 1
SPECIFICATION WorkspaceSpec
INVARIANTS
    TabsNeverEmpty

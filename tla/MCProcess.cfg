CONSTANTS
    Dirs = {d1, d2}
    Here = d1
    Home = d2
    NoDir = NoDir
    MaxListings = 3
    Launchers = {l1, l2}
    MaxDaemons = 3
    Clients = {k1, k2}
    MaxRelease = 2
    MaxFaults = 2
    Calls = {k1}
    MaxBridges = 3
    MaxAsks = 2
    MaxCalls = 2
    RootPid = "p"
    Pids = {"p", "q"}
    MaxStart = 4
    MaxKills = 1
    MaxPolls = 2
    SpoolPanes = {p, q}
    HookNames = {h, g}
    RotateAt = 2
    RateMax = 2
    MaxLines = 3
    SbPanes = {"a"}
    MaxObjects = 1
    MaxBoots = 2
    MaxErrors = 1
    SiPanes = {"a", "b"}
    MaxFlows = 2
    MaxSpawnings = 3
    WinSizes = {1, 2}
    MaxWins = 1
    MaxReports = 2
    MaxSpawns = 2
    MaxCuts = 1
    MaxBytes = 2
    Panes = {p}
    MaxGen = 1
    MaxVersion = 2
    CallsFail = TRUE
    Damaged = FALSE
    Stops = TRUE
SPECIFICATION PSpec
INVARIANTS
    AskedAsShown
    NoOrphan
    PairWhole
    BridgesTended
    StopsWhatWasConfirmed
    LinesOnceInOrder
    SandboxKept
    SignInSound
    SizesMeet
    LinkSound
    LoadsLastSaved
CHECK_DEADLOCK FALSE

CONSTANTS
    Callers = {c1, c2}
    MaxSpawns = 2
    BufLen = 2
    Kickers = {k1}
    Timer = t
    QSize = 2
    Cooldown = 2
    MaxItems = 3
    Agents = {a}
    EvPanes = {p, q}
    Titles = {t, u}
    MaxEvents = 2
    MaxPushes = 3
    Threshold = 2
    IdlePause = 4
    TaskIds = {t1}
    Worker = w
    Requester = r
    MaxTurns = 3
    AgentPanes = {p, q}
    MaxSessions = 2
    MaxSpawned = 5
    Panes = {p}
    MaxGen = 2
    MaxVersion = 3
    CallsFail = FALSE
    Damaged = FALSE
    Stops = TRUE
SPECIFICATION DSpec
INVARIANTS
    PaneSound
    KeysSpaced
    ClaimsKeepApart
PROPERTIES
    NothingMissed
    SilenceNoticed
    TasksEnd
    ChangesReachDisk
CHECK_DEADLOCK FALSE

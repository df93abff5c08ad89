CONSTANTS
    Local = l
    Hosts = {h}
    MaxConns = 3
    MaxTries = 1
    TreePanes = {a, b}
    MaxCasts = 1
    MaxReqs = 2
    Sites = {s1, s2}
    MaxLinks = 3
    APanes = {"a", "b"}
    AgentPanes = {"b"}
    SubCap = 1
    ProjTabs <- ScreenTabs
    MaxMoves = 3
    KeyTabs <- KT
    NoneKey = NoneKey
    MaxInputs = 4
    DlgPanes = {"p", "q"}
    WtPanes = {"p"}
    DlgHosts = {"h"}
    MaxPresses = 4
    MaxIntrusions = 1
    Remote = "h"
    MaxTyped = 5
    MaxOthers = 1
    Viewers = {v1}
    MaxChildren = 2
    MaxChunks = 2
    MaxAttaches = 2
    PalTyped = {"p", " "}
    MaxQuery = 1
    MaxPending = 1
    MaxGone = 1
    MaxMatches = 1
    EdDocs <- MCEdDocs
    EdTexts <- MCEdTexts
    WrapWidth = 2
    ViewHeight = 1
    PageSize = 2
    MaxRunes = 3
    MaxRows = 2
    NotePanes = {"a", "b"}
    Debounce = 2
    MaxNotes = 3
    MaxFailures = 2
    Capacity = 3
    Byte <- MCByte
    Zero = 0
    Chunks <- MCChunks
    MaxGen = 4
SPECIFICATION CSpec
INVARIANTS
    LinksTended
    TreeShowsPanes
    LoopSound
    AttentionRaised
    ScreenAgrees
    InputsAimed
    DialogsSound
    FormSound
    OneChildPerScreen
    PaletteSound
    EditorSound
    NotesKept
    SkipIsSound
PROPERTIES
    ImplementsLog
CHECK_DEADLOCK FALSE

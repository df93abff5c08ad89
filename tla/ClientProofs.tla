---------------------------- MODULE ClientProofs ----------------------------
(* Theorems about the client's parts, for every value of their constants.    *)
EXTENDS Notes, TuiLoop, Reconnect, Replay, Attention, PaneSize, Keys, Dialogs, ProjectForm, Palette,
        FiniteSetTheorems, SequenceTheorems, WellFoundedInduction, TLAPS

-----------------------------------------------------------------------------
(* The notes editor                                                          *)

\* Type correctness of the notes editor; an editor that counts its idle ticks
\* stops counting one after the window.
NoteState(n) ==
    /\ DOMAIN n = {"pane", "ver", "dirty", "inner", "idle", "err"}
    /\ n.pane \in NotePanes \cup {"none"} /\ n.ver \in Nat /\ n.idle \in 0 .. Debounce + 1
NotesTypeOK ==
    /\ NoteState(note)
    /\ disk \in [NotePanes -> Nat] /\ noteTyped \in [NotePanes -> Nat]
    /\ lost \in SUBSET NotePanes
    /\ noteTicks \in 0 .. 1 /\ failures \in Nat

\* What OneChain and the rest of NotesKept need of each other: the editor holds
\* the text its user last saw, a clean editor is the file's equal, and a client
\* that is quitting still has its editor.
NotesInv ==
    /\ NotesTypeOK
    /\ OneChain
    /\ quitting => Open
    /\ Open => note.ver = noteTyped[note.pane]
    /\ Open /\ ~note.dirty => disk[note.pane] = note.ver
    /\ \A p \in NotePanes : p # note.pane /\ p \notin lost => noteTyped[p] = disk[p]
    /\ lost # {} => failures > 0

LEMMA NotesInitInv == NotesInit => NotesInv
BY NotesAssumption DEF NotesInit, NotesInv, NotesTypeOK, NoteState, OneChain, NoNote, Open

\* What a save leaves, whether it worked or not: the same text for the same pane,
\* and either a clean editor whose text is the file or a failure on the books.
LEMMA SaveEffect ==
    ASSUME NotesInv, Open, NEW ok \in BOOLEAN, Tried(note, ok)
    PROVE  /\ NoteState(NSave(note, ok))
           /\ NSave(note, ok).pane = note.pane /\ NSave(note, ok).ver = note.ver
           /\ Written(note, ok) \in [NotePanes -> Nat]
           /\ \A p \in NotePanes : p # note.pane => Written(note, ok)[p] = disk[p]
           /\ ~NSave(note, ok).dirty => Written(note, ok)[note.pane] = note.ver
           /\ NSave(note, ok).dirty => failures' > 0
           /\ failures' \in Nat /\ failures' >= failures
<1> USE NotesAssumption DEF NotesInv, NotesTypeOK, NoteState, Open
<1>1. CASE ~note.dirty
    BY <1>1 DEF NSave, Written, Tried
<1>2. CASE note.dirty /\ ok
    BY <1>2 DEF NSave, Written, Tried
<1>3. CASE note.dirty /\ ~ok
    BY <1>3 DEF NSave, Written, Tried, Fail
<1> QED
    BY <1>1, <1>2, <1>3

LEMMA NotesStep == NotesInv /\ [NotesNext]_noteVars => NotesInv'
<1> SUFFICES ASSUME NotesInv, [NotesNext]_noteVars PROVE NotesInv'
    OBVIOUS
<1> USE NotesAssumption
<1>1. ASSUME NEW p \in NotePanes, OpenNotes(p) PROVE NotesInv'
    <2>1. NoteState(note') /\ note'.pane = p /\ note'.ver = disk[p]
        BY <1>1 DEF OpenNotes, NoNote, NoteState, NotesInv, NotesTypeOK
    <2>2. noteTyped' \in [NotePanes -> Nat] /\ noteTyped'[p] = disk[p]
          /\ \A q \in NotePanes : q # p => noteTyped'[q] = noteTyped[q]
        BY <1>1 DEF OpenNotes, NotesInv, NotesTypeOK
    <2>3. OneChain' /\ noteTicks' \in 0 .. 1
        BY <1>1, <2>1 DEF OpenNotes, startNotesTick, OneChain, Open, NotesInv, NotesTypeOK
    <2> QED
        BY <1>1, <2>1, <2>2, <2>3 DEF OpenNotes, Open, NotesInv, NotesTypeOK
<1>2. CASE ExitNotes
    <2>1. PICK ok \in BOOLEAN : /\ Tried(note, ok) /\ disk' = Written(note, ok)
                                /\ lost' = IF NSave(note, ok).dirty THEN lost \cup {note.pane} ELSE lost
        BY <1>2 DEF ExitNotes
    <2>2. NoteState(note') /\ note'.pane = "none"
        BY <1>2 DEF ExitNotes, NoNote, NoteState
    <2> QED
        BY <1>2, <2>1, <2>2, SaveEffect DEF ExitNotes, Open, OneChain, NotesInv, NotesTypeOK, NoteState
<1>3. CASE NoteKey
    <2>1. /\ NoteState(note') /\ note'.pane = note.pane /\ note'.ver = note.ver + 1
          /\ note'.dirty
        BY <1>3 DEF NoteKey, NoteState, NotesInv, NotesTypeOK
    <2>2. noteTyped' \in [NotePanes -> Nat] /\ noteTyped'[note.pane] = note.ver + 1
          /\ \A q \in NotePanes : q # note.pane => noteTyped'[q] = noteTyped[q]
        BY <1>3 DEF NoteKey, NoteState, NotesInv, NotesTypeOK, Open
    <2> QED
        BY <1>3, <2>1, <2>2 DEF NoteKey, Open, OneChain, NotesInv, NotesTypeOK
<1>4. CASE CursorKey
    <2>1. /\ NoteState(note') /\ note'.pane = note.pane /\ note'.ver = note.ver
          /\ note.dirty => note'.dirty
        BY <1>4 DEF CursorKey, NoteState, NotesInv, NotesTypeOK
    <2> QED
        BY <1>4, <2>1 DEF CursorKey, Open, OneChain, NotesInv, NotesTypeOK
<1>5. CASE PasteKey
    BY <1>5 DEF PasteKey, Open, OneChain, NotesInv, NotesTypeOK
<1>6. CASE HandlePaste
    <2>1. CASE Open /\ ~quitting /\ note.ver < MaxNotes
        <3>0. note' = [note EXCEPT !.ver = @ + 1, !.dirty = TRUE, !.idle = 0]
            BY <1>6, <2>1 DEF HandlePaste
        <3>1. /\ NoteState(note') /\ note'.pane = note.pane /\ note'.ver = note.ver + 1
              /\ note'.dirty
            BY <3>0 DEF NoteState, NotesInv, NotesTypeOK
        <3>2. noteTyped' \in [NotePanes -> Nat] /\ noteTyped'[note.pane] = note.ver + 1
              /\ \A q \in NotePanes : q # note.pane => noteTyped'[q] = noteTyped[q]
            BY <1>6, <2>1 DEF HandlePaste, NoteState, NotesInv, NotesTypeOK, Open
        <3> QED
            BY <1>6, <2>1, <3>1, <3>2 DEF HandlePaste, Open, OneChain, NotesInv, NotesTypeOK
    <2>2. CASE ~(Open /\ ~quitting /\ note.ver < MaxNotes)
        BY <1>6, <2>2 DEF HandlePaste, Open, OneChain, NotesInv, NotesTypeOK
    <2> QED
        BY <2>1, <2>2
<1>7. CASE SaveKey
    <2>1. PICK ok \in BOOLEAN : Tried(note, ok) /\ note' = NSave(note, ok) /\ disk' = Written(note, ok)
        BY <1>7 DEF SaveKey
    <2> QED
        BY <1>7, <2>1, SaveEffect DEF SaveKey, Open, OneChain, NotesInv, NotesTypeOK
<1>8. CASE NotesTick
    <2>1. CASE ~Open
        BY <1>8, <2>1 DEF NotesTick, Open, OneChain, NotesInv, NotesTypeOK
    <2>2. CASE Open /\ note' = [note EXCEPT !.idle = IF @ > Debounce THEN @ ELSE @ + 1]
                    /\ UNCHANGED <<disk, failures>>
        <3>1. /\ NoteState(note') /\ note'.pane = note.pane /\ note'.ver = note.ver
              /\ note'.dirty = note.dirty
            BY <2>2 DEF NoteState, NotesInv, NotesTypeOK
        <3> QED
            BY <1>8, <2>2, <3>1 DEF NotesTick, Open, OneChain, NotesInv, NotesTypeOK
    <2>3. CASE Open /\ \E ok \in BOOLEAN : /\ Tried(note, ok) /\ note' = NSave(note, ok)
                                           /\ disk' = Written(note, ok)
        <3>1. PICK ok \in BOOLEAN : Tried(note, ok) /\ note' = NSave(note, ok) /\ disk' = Written(note, ok)
            BY <2>3
        <3> QED
            BY <1>8, <2>3, <3>1, SaveEffect DEF NotesTick, Open, OneChain, NotesInv, NotesTypeOK
    <2> QED
        BY <1>8, <2>1, <2>2, <2>3 DEF NotesTick
<1>9. CASE QuitKey
    <2>1. PICK ok \in BOOLEAN : Tried(note, ok) /\ note' = NSave(note, ok) /\ disk' = Written(note, ok)
        BY <1>9 DEF QuitKey
    <2> QED
        BY <1>9, <2>1, SaveEffect DEF QuitKey, Open, OneChain, NotesInv, NotesTypeOK
<1>10. CASE FlushNotes
    <2>1. PICK ok \in BOOLEAN : /\ Tried(note, ok) /\ disk' = Written(note, ok)
                                /\ lost' = IF NSave(note, ok).dirty THEN lost \cup {note.pane} ELSE lost
        BY <1>10 DEF FlushNotes
    <2>2. NoteState(note') /\ note'.pane = "none"
        BY <1>10 DEF FlushNotes, NoNote, NoteState
    <2> QED
        BY <1>10, <2>1, <2>2, SaveEffect DEF FlushNotes, Open, OneChain, NotesInv, NotesTypeOK, NoteState
<1>11. CASE Killed
    <2>1. NoteState(note') /\ note'.pane = "none"
        BY <1>11 DEF Killed, NoNote, NoteState
    <2>2. noteTyped' \in [NotePanes -> Nat]
          /\ \A q \in NotePanes : noteTyped'[q] = IF q = note.pane THEN disk[q] ELSE noteTyped[q]
        BY <1>11 DEF Killed, Open, NoteState, NotesInv, NotesTypeOK
    <2> QED
        BY <1>11, <2>1, <2>2 DEF Killed, Open, OneChain, NotesInv, NotesTypeOK
<1>12. CASE UNCHANGED noteVars
    BY <1>12 DEF noteVars, Open, OneChain, NotesInv, NotesTypeOK
<1> QED
    BY <1>1, <1>2, <1>3, <1>4, <1>5, <1>6, <1>7, <1>8, <1>9, <1>10, <1>11, <1>12 DEF NotesNext

\* Whatever a user typed into a pane's notes is in its file, or in the open editor
\* and marked dirty, or its save failed on the way out; one tick chain runs, and
\* no dirty editor outwaits the window: for any panes, window and bounds.
THEOREM NotesAreKept == NotesSpec => []NotesKept
<1>1. NotesInv => NotesKept
    BY NotesAssumption DEF NotesInv, NotesTypeOK, NoteState, NotesKept, OneChain, Open
<1> QED
    BY <1>1, NotesInitInv, NotesStep, PTL DEF NotesSpec

-----------------------------------------------------------------------------
(* The client's event loop                                                   *)

\* Type correctness of the event loop.
LoopTypeOK ==
    /\ sites \subseteq Sites /\ blocked \in Nat /\ handled \in [Kinds -> Nat]
    /\ chain \in [Chains -> [flag : BOOLEAN, ticks : Nat]]
    /\ line \in [sites -> [conn : 1 .. MaxLinks, up : BOOLEAN, lost : Nat]]
    /\ attachedTo \subseteq sites /\ attaches \in [1 .. MaxLinks -> Nat]
\* A lone client whose lost link is being redialled.
Redialling == ~isRouter /\ \E s \in sites : line[s].lost = line[s].conn
Idle == \A k \in Kinds : handled[k] = 0
\* One goroutine is in Receive, or a lost link is being redialled, or exactly one
\* message waits for Update.
Listening ==
    \/ blocked = 1 /\ Idle /\ ~Redialling
    \/ blocked = 0 /\ Idle /\ Redialling
    \/ /\ blocked = 0 /\ ~Redialling
       /\ \E k \in Kinds : handled[k] = 1 /\ \A j \in Kinds \ {k} : handled[j] = 0
\* Connections are told apart, one that is yet to be dialled carries no attach, and
\* attachedTo says which live ones carry theirs.
OneAttach ==
    /\ \A s, t \in sites : s # t => line[s].conn # line[t].conn
    /\ \A c \in 1 .. MaxLinks : attaches[c] <= 1
    /\ \A c \in 1 .. MaxLinks : (\A s \in sites : line[s].conn < c) => attaches[c] = 0
    /\ \A s \in sites \ attachedTo : attaches[line[s].conn] = 0
    /\ \A s \in attachedTo : line[s].up => attaches[line[s].conn] = 1
    /\ sized => \A s \in sites : line[s].up => s \in attachedTo
ChainsSingle == \A c \in Chains : chain[c].ticks = IF chain[c].flag THEN 1 ELSE 0
\* The inductive invariant.
LoneSite == ~isRouter => \E s \in Sites : sites = {s}
LoopInv == LoopTypeOK /\ LoneSite /\ (~loopQuit => Listening) /\ ChainsSingle /\ OneAttach

\* Every step keeps the types.
LEMMA LoopTypes == LoopInv /\ [LoopNext]_loopVars => LoopTypeOK' /\ LoneSite'
<1> SUFFICES ASSUME LoopInv, [LoopNext]_loopVars PROVE LoopTypeOK' /\ LoneSite'
    OBVIOUS
<1>1. LoopTypeOK /\ LoneSite
    BY DEF LoopInv
<1>2. ASSUME NEW k \in Kinds, listenForMessages(k) PROVE LoopTypeOK' /\ LoneSite'
    BY <1>1, <1>2, LoopAssumption DEF listenForMessages, Links, LoopTypeOK, LoneSite
<1>3. ASSUME NEW k \in Kinds, Update(k) PROVE LoopTypeOK' /\ LoneSite'
    <2>1. blocked' \in Nat /\ handled' \in [Kinds -> Nat]
        BY <1>1, <1>3 DEF Update, LoopTypeOK
    <2>2. \A c \in Chains : Began(c) \in [flag : BOOLEAN, ticks : Nat]
        BY <1>1 DEF Began, LoopTypeOK
    <2>3. chain' \in [Chains -> [flag : BOOLEAN, ticks : Nat]]
        <3>1. CASE k = "event"
            <4>1. PICK w \in [flag : BOOLEAN, ticks : Nat], b \in [flag : BOOLEAN, ticks : Nat] :
                     chain' = [chain EXCEPT !["work"] = w, !["sidebar"] = b]
                <5>1. \A c \in {"work", "sidebar"} : chain[c] \in [flag : BOOLEAN, ticks : Nat]
                    BY <1>1 DEF LoopTypeOK, Chains
                <5> QED
                    BY <1>3, <2>2, <3>1, <5>1 DEF Update, Chains
            <4> QED
                BY <1>1, <4>1 DEF LoopTypeOK
        <3> QED
            BY <1>1, <1>3, <3>1 DEF Update, LoopTypeOK
    <2> QED
        BY <1>1, <1>3, <2>1, <2>3 DEF Update, Links, LoopTypeOK, LoneSite
<1>4. ASSUME NEW c \in Chains, LoopTick(c) PROVE LoopTypeOK' /\ LoneSite'
    BY <1>1, <1>4, LoopAssumption DEF LoopTick, Links, LoopTypeOK, LoneSite
<1>5. ASSUME NEW c \in Chains, Toggle(c) PROVE LoopTypeOK' /\ LoneSite'
    BY <1>1, <1>5, LoopAssumption DEF Toggle, Links, Began, LoopTypeOK, LoneSite
<1>6. CASE WorkEnds
    BY <1>1, <1>6, LoopAssumption DEF WorkEnds, Links, LoopTypeOK, LoneSite
<1>7. CASE CloseTUI
    BY <1>1, <1>7, LoopAssumption DEF CloseTUI, Links, LoopTypeOK, LoneSite
<1>8. CASE attachAllDests
    BY <1>1, <1>8, LoopAssumption DEF attachAllDests, Attach, LoopTypeOK, LoneSite
<1>9. ASSUME NEW s \in sites, LinkBreaks(s) PROVE LoopTypeOK' /\ LoneSite'
    BY <1>1, <1>9, LoopAssumption DEF LinkBreaks, LoopTypeOK, LoneSite
<1>10. ASSUME NEW s \in sites, linkLost(s) PROVE LoopTypeOK' /\ LoneSite'
    <2>1. line' \in [sites -> [conn : 1 .. MaxLinks, up : BOOLEAN, lost : Nat]]
        <3>1. line[s].conn \in Nat
            BY <1>1, LoopAssumption DEF LoopTypeOK
        <3> QED
            BY <1>1, <1>10, <3>1 DEF linkLost, LoopTypeOK
    <2> QED
        BY <1>1, <1>10, <2>1 DEF linkLost, LoopTypeOK, LoneSite
<1>11. ASSUME NEW s \in sites, finishReconnect(s) PROVE LoopTypeOK' /\ LoneSite'
    <2>1. PICK c \in 1 .. MaxLinks :
            /\ line' = [line EXCEPT ![s] = [conn |-> c, up |-> TRUE, lost |-> 0]]
            /\ attaches' = [attaches EXCEPT ![c] = @ + 1]
        BY <1>11 DEF finishReconnect
    <2>2. line' \in [sites -> [conn : 1 .. MaxLinks, up : BOOLEAN, lost : Nat]]
        <3>1. [conn |-> c, up |-> TRUE, lost |-> 0] \in [conn : 1 .. MaxLinks, up : BOOLEAN, lost : Nat]
            OBVIOUS
        <3>2. line \in [sites -> [conn : 1 .. MaxLinks, up : BOOLEAN, lost : Nat]]
            BY <1>1 DEF LoopTypeOK
        <3> QED
            BY <2>1, <3>1, <3>2
    <2>3. attaches' \in [1 .. MaxLinks -> Nat]
        <3>1. attaches \in [1 .. MaxLinks -> Nat]
            BY <1>1 DEF LoopTypeOK
        <3> QED
            BY <2>1, <3>1
    <2>4. blocked' \in Nat /\ attachedTo' \subseteq sites
        <3>1. blocked \in Nat /\ attachedTo \subseteq sites
            BY <1>1 DEF LoopTypeOK
        <3>2. /\ attachedTo' = attachedTo \cup {s}
              /\ blocked' = IF isRouter THEN blocked ELSE blocked + 1
            BY <1>11 DEF finishReconnect
        <3> QED
            BY <3>1, <3>2
    <2>5. UNCHANGED <<sites, isRouter, handled, chain, want, sized, loopQuit>>
        BY <1>11 DEF finishReconnect
    <2> QED
        BY <1>1, <2>2, <2>3, <2>4, <2>5 DEF LoopTypeOK, LoneSite
<1>12. CASE UNCHANGED loopVars
    BY <1>1, <1>12 DEF loopVars, LoopTypeOK, LoneSite
<1> QED
    BY <1>2, <1>3, <1>4, <1>5, <1>6, <1>7, <1>8, <1>9, <1>10, <1>11, <1>12 DEF LoopNext

\* Every step keeps the one listener.
LEMMA ListenStep == LoopInv /\ [LoopNext]_loopVars => (~loopQuit => Listening)'
<1> SUFFICES ASSUME LoopInv, [LoopNext]_loopVars PROVE (~loopQuit => Listening)'
    OBVIOUS
<1>1. LoopTypeOK /\ LoneSite /\ (~loopQuit => Listening)
    BY DEF LoopInv
<1>2. ASSUME NEW k \in Kinds, listenForMessages(k) PROVE (~loopQuit => Listening)'
    BY <1>1, <1>2, LoopAssumption DEF listenForMessages, Links, LoopTypeOK, LoneSite, Listening, Idle,
       Redialling
<1>3. ASSUME NEW k \in Kinds, Update(k) PROVE (~loopQuit => Listening)'
    BY <1>1, <1>3, LoopAssumption DEF Update, Links, Began, LoopTypeOK, LoneSite, Listening, Idle,
       Redialling
<1>4. ASSUME NEW c \in Chains, LoopTick(c) PROVE (~loopQuit => Listening)'
    BY <1>1, <1>4, LoopAssumption DEF LoopTick, Links, LoopTypeOK, LoneSite, Listening, Idle, Redialling
<1>5. ASSUME NEW c \in Chains, Toggle(c) PROVE (~loopQuit => Listening)'
    BY <1>1, <1>5, LoopAssumption DEF Toggle, Links, Began, LoopTypeOK, LoneSite, Listening, Idle,
       Redialling
<1>6. CASE WorkEnds
    BY <1>1, <1>6, LoopAssumption DEF WorkEnds, Links, LoopTypeOK, LoneSite, Listening, Idle, Redialling
<1>7. CASE CloseTUI
    BY <1>1, <1>7, LoopAssumption DEF CloseTUI, Links, LoopTypeOK, LoneSite, Listening, Idle, Redialling
<1>8. CASE attachAllDests
    BY <1>1, <1>8, LoopAssumption DEF attachAllDests, Attach, LoopTypeOK, LoneSite, Listening, Idle,
       Redialling
<1>9. ASSUME NEW s \in sites, LinkBreaks(s) PROVE (~loopQuit => Listening)'
    BY <1>1, <1>9, LoopAssumption DEF LinkBreaks, LoopTypeOK, LoneSite, Listening, Idle, Redialling
<1>10. ASSUME NEW s \in sites, linkLost(s) PROVE (~loopQuit => Listening)'
    BY <1>1, <1>10, LoopAssumption DEF linkLost, LoopTypeOK, LoneSite, Listening, Idle, Redialling
<1>11. ASSUME NEW s \in sites, finishReconnect(s) PROVE (~loopQuit => Listening)'
    BY <1>1, <1>11, LoopAssumption DEF finishReconnect, Used, LoopTypeOK, LoneSite, Listening, Idle,
       Redialling
<1>12. CASE UNCHANGED loopVars
    BY <1>1, <1>12 DEF loopVars, LoopTypeOK, LoneSite, Listening, Idle, Redialling
<1> QED
    BY <1>2, <1>3, <1>4, <1>5, <1>6, <1>7, <1>8, <1>9, <1>10, <1>11, <1>12 DEF LoopNext

\* Every step keeps the tick chains single.
LEMMA ChainStep == LoopInv /\ [LoopNext]_loopVars => ChainsSingle'
<1> SUFFICES ASSUME LoopInv, [LoopNext]_loopVars PROVE ChainsSingle'
    OBVIOUS
<1>1. LoopTypeOK /\ ChainsSingle
    BY DEF LoopInv
<1>2. ASSUME NEW k \in Kinds, listenForMessages(k) PROVE ChainsSingle'
    BY <1>1, <1>2, LoopAssumption DEF listenForMessages, Links, LoopTypeOK, ChainsSingle, Chains
<1>3. ASSUME NEW k \in Kinds, Update(k) PROVE ChainsSingle'
    BY <1>1, <1>3, LoopAssumption DEF Update, Links, Began, LoopTypeOK, ChainsSingle, Chains
<1>4. ASSUME NEW c \in Chains, LoopTick(c) PROVE ChainsSingle'
    BY <1>1, <1>4, LoopAssumption DEF LoopTick, Links, LoopTypeOK, ChainsSingle, Chains
<1>5. ASSUME NEW c \in Chains, Toggle(c) PROVE ChainsSingle'
    BY <1>1, <1>5, LoopAssumption DEF Toggle, Links, Began, LoopTypeOK, ChainsSingle, Chains
<1>6. CASE WorkEnds
    BY <1>1, <1>6, LoopAssumption DEF WorkEnds, Links, LoopTypeOK, ChainsSingle, Chains
<1>7. CASE CloseTUI
    BY <1>1, <1>7, LoopAssumption DEF CloseTUI, Links, LoopTypeOK, ChainsSingle, Chains
<1>8. CASE attachAllDests
    BY <1>1, <1>8, LoopAssumption DEF attachAllDests, Attach, LoopTypeOK, ChainsSingle, Chains
<1>9. ASSUME NEW s \in sites, LinkBreaks(s) PROVE ChainsSingle'
    BY <1>1, <1>9, LoopAssumption DEF LinkBreaks, LoopTypeOK, ChainsSingle, Chains
<1>10. ASSUME NEW s \in sites, linkLost(s) PROVE ChainsSingle'
    BY <1>1, <1>10, LoopAssumption DEF linkLost, LoopTypeOK, ChainsSingle, Chains
<1>11. ASSUME NEW s \in sites, finishReconnect(s) PROVE ChainsSingle'
    BY <1>1, <1>11, LoopAssumption DEF finishReconnect, Used, LoopTypeOK, ChainsSingle, Chains
<1>12. CASE UNCHANGED loopVars
    BY <1>1, <1>12 DEF loopVars, LoopTypeOK, ChainsSingle, Chains
<1> QED
    BY <1>2, <1>3, <1>4, <1>5, <1>6, <1>7, <1>8, <1>9, <1>10, <1>11, <1>12 DEF LoopNext

\* Every step keeps one attach per connection.
LEMMA AttachStep == LoopInv /\ [LoopNext]_loopVars => OneAttach'
<1> SUFFICES ASSUME LoopInv, [LoopNext]_loopVars PROVE OneAttach'
    OBVIOUS
<1>1. LoopTypeOK /\ LoneSite /\ OneAttach
    BY DEF LoopInv
<1>2. ASSUME NEW k \in Kinds, listenForMessages(k) PROVE OneAttach'
    BY <1>1, <1>2, LoopAssumption DEF listenForMessages, Links, LoopTypeOK, OneAttach
<1>3. ASSUME NEW k \in Kinds, Update(k) PROVE OneAttach'
    BY <1>1, <1>3, LoopAssumption DEF Update, Links, Began, LoopTypeOK, OneAttach
<1>4. ASSUME NEW c \in Chains, LoopTick(c) PROVE OneAttach'
    BY <1>1, <1>4, LoopAssumption DEF LoopTick, Links, LoopTypeOK, OneAttach
<1>5. ASSUME NEW c \in Chains, Toggle(c) PROVE OneAttach'
    BY <1>1, <1>5, LoopAssumption DEF Toggle, Links, Began, LoopTypeOK, OneAttach
<1>6. CASE WorkEnds
    BY <1>1, <1>6, LoopAssumption DEF WorkEnds, Links, LoopTypeOK, OneAttach
<1>7. CASE CloseTUI
    BY <1>1, <1>7, LoopAssumption DEF CloseTUI, Links, LoopTypeOK, OneAttach
<1>8. CASE attachAllDests
    BY <1>1, <1>8, LoopAssumption DEF attachAllDests, Attach, LoopTypeOK, OneAttach
<1>9. ASSUME NEW s \in sites, LinkBreaks(s) PROVE OneAttach'
    BY <1>1, <1>9, LoopAssumption DEF LinkBreaks, LoopTypeOK, OneAttach
<1>10. ASSUME NEW s \in sites, linkLost(s) PROVE OneAttach'
    <2>0. line' = line \/ line' = [line EXCEPT ![s].lost = line[s].conn]
        BY <1>10 DEF linkLost
    <2>1. \A r \in sites : line'[r].conn = line[r].conn /\ line'[r].up = line[r].up
        <3>1. \A r \in sites : line[r] \in [conn : 1 .. MaxLinks, up : BOOLEAN, lost : Nat]
            BY <1>1 DEF LoopTypeOK
        <3>2. \A r \in sites : line'[r] = line[r] \/ line'[r] = [line[r] EXCEPT !.lost = line[s].conn]
            BY <1>1, <2>0 DEF LoopTypeOK
        <3> QED
            BY <3>1, <3>2
    <2>2. UNCHANGED <<sites, attachedTo, attaches, sized>> /\ attachedTo \subseteq sites
        BY <1>1, <1>10 DEF linkLost, LoopTypeOK
    <2> QED
        BY <1>1, <2>1, <2>2 DEF OneAttach
<1>11. ASSUME NEW s \in sites, finishReconnect(s) PROVE OneAttach'
    <2>1. PICK c \in 1 .. MaxLinks :
             /\ c - 1 \in Used /\ \A d \in Used : d < c
             /\ line' = [line EXCEPT ![s] = [conn |-> c, up |-> TRUE, lost |-> 0]]
             /\ attaches' = [attaches EXCEPT ![c] = @ + 1]
        BY <1>11 DEF finishReconnect
    <2>2. /\ \A r \in sites : line[r].conn \in 1 .. MaxLinks /\ line[r].conn < c
          /\ attachedTo' = attachedTo \cup {s} /\ attachedTo \subseteq sites /\ UNCHANGED <<sites, sized>>
        BY <1>1, <1>11, <2>1 DEF finishReconnect, Used, LoopTypeOK
    <2>3. line'[s].conn = c /\ \A r \in sites \ {s} : line'[r] = line[r]
        BY <1>1, <2>1 DEF LoopTypeOK
    <2>4. attaches[c] = 0
        BY <1>1, <2>2 DEF OneAttach
    <2>5. attaches'[c] = 1 /\ \A d \in 1 .. MaxLinks : d # c => attaches'[d] = attaches[d]
        BY <1>1, <2>1, <2>4 DEF LoopTypeOK
    <2>6. \A d \in 1 .. MaxLinks : (\A r \in sites : line'[r].conn < d) => attaches'[d] = 0
        <3> SUFFICES ASSUME NEW d \in 1 .. MaxLinks, \A r \in sites : line'[r].conn < d PROVE attaches'[d] = 0
            OBVIOUS
        <3>1. c < d
            BY <2>3
        <3>2. \A r \in sites : line[r].conn < d
            BY <2>2, <3>1, LoopAssumption
        <3> QED
            BY <1>1, <2>5, <3>1, <3>2, LoopAssumption DEF OneAttach
    <2> QED
        BY <1>1, <2>2, <2>3, <2>5, <2>6, LoopAssumption DEF OneAttach
<1>12. CASE UNCHANGED loopVars
    BY <1>1, <1>12 DEF loopVars, LoopTypeOK, OneAttach
<1> QED
    BY <1>2, <1>3, <1>4, <1>5, <1>6, <1>7, <1>8, <1>9, <1>10, <1>11, <1>12 DEF LoopNext

\* The invariant at launch, with any set of daemons.
LEMMA LoopInitInv == LoopInit => LoopInv
<1> SUFFICES ASSUME LoopInit PROVE LoopInv
    OBVIOUS
<1>1. IsFiniteSet(sites) /\ Cardinality(sites) \in Nat /\ Cardinality(sites) <= MaxLinks
    <2>1. sites \in SUBSET Sites
        BY DEF LoopInit
    <2>2. IsFiniteSet(sites) /\ Cardinality(sites) <= Cardinality(Sites)
        BY <2>1, FS_Subset, LoopAssumption
    <2>3. Cardinality(sites) \in Nat /\ Cardinality(Sites) \in Nat
        BY <2>2, FS_CardinalityType, LoopAssumption
    <2> QED
        BY <2>2, <2>3, LoopAssumption
<1>2. LoneSite
    BY <1>1, FS_Singleton DEF LoopInit, LoneSite
<1>3. PICK f \in [sites -> 1 .. Cardinality(sites)] :
         /\ \A s, t \in sites : s # t => f[s] # f[t]
         /\ line = [s \in sites |-> [conn |-> f[s], up |-> TRUE, lost |-> 0]]
    BY DEF LoopInit
<1>4. \A s \in sites : line[s].conn \in 1 .. MaxLinks /\ line[s].lost = 0 /\ line[s].conn = f[s]
    BY <1>1, <1>3, LoopAssumption
<1>5. line \in [sites -> [conn : 1 .. MaxLinks, up : BOOLEAN, lost : Nat]]
    BY <1>3, <1>4
<1>6. LoopTypeOK
    BY <1>5 DEF LoopInit, LoopTypeOK
<1>7. Listening
    <2>1. blocked = 1 /\ Idle
        BY DEF LoopInit, Idle
    <2>2. ~Redialling
        BY <1>4, LoopAssumption DEF Redialling
    <2> QED
        BY <2>1, <2>2 DEF Listening
<1>8. ChainsSingle
    BY DEF LoopInit, ChainsSingle
<1>9. OneAttach
    BY <1>3, <1>4 DEF LoopInit, OneAttach
<1> QED
    BY <1>2, <1>6, <1>7, <1>8, <1>9 DEF LoopInv

\* Whatever messages, ticks, keys, losses and redials interleave, exactly one
\* goroutine listens or its message is being handled or a lone link redialled, no
\* tick chain is doubled, and every connection carries one attach, for any number of
\* daemons and connections.
THEOREM LoopIsSound == LoopSpec => []LoopSound
<1>1. LoopInv /\ [LoopNext]_loopVars => LoopInv'
    BY LoopTypes, ListenStep, ChainStep, AttachStep DEF LoopInv
<1>2. LoopInv => LoopSound
    <2> SUFFICES ASSUME LoopInv PROVE LoopSound
        OBVIOUS
    <2>1. ~loopQuit => blocked + (IF InUpdate THEN 1 ELSE 0) + (IF Redialling THEN 1 ELSE 0) = 1
        BY DEF LoopInv, LoopTypeOK, Listening, Idle, InUpdate
    <2>2. DOMAIN attaches = 1 .. MaxLinks /\ \A s \in sites : line[s].conn \in 1 .. MaxLinks
        BY DEF LoopInv, LoopTypeOK
    <2>3. \A c \in DOMAIN attaches : attaches[c] <= 1
        BY <2>2 DEF LoopInv, OneAttach
    <2>4. sized => \A s \in sites : line[s].up => attaches[line[s].conn] = 1
        BY DEF LoopInv, OneAttach
    <2> QED
        BY <2>1, <2>3, <2>4 DEF LoopInv, LoopSound, ChainsSingle, Redialling
<1> QED
    BY LoopInitInv, <1>1, <1>2, PTL DEF LoopSpec

-----------------------------------------------------------------------------
(* A client's links to its daemons                                           *)

\* Type correctness of the Router, the ladders and what is on its way to them.
LinkRec == [gen : Nat, active : BOOLEAN, parked : BOOLEAN, attempt : Nat]
RecTypeOK ==
    /\ rt \in [DestIds -> [conn : Nat, stop : Nat]]
    /\ pumps \subseteq [d : DestIds, c : Nat]
    /\ inCh \in Seq(DestIds)
    /\ link \in [DestIds -> LinkRec]
    /\ ticks \subseteq [d : DestIds, gen : Nat, attempt : Nat]
    /\ dials \subseteq [d : DestIds, gen : Nat, old : Nat]
    /\ results \subseteq [d : DestIds, gen : Nat, c : Nat, err : {"no", "again", "permanent", "mismatch"}]
    /\ off \in [DestIds -> {"no", "retrying", "needs", "gone"}]
    /\ redial \subseteq DestIds /\ opened \in Nat /\ open \subseteq Nat

\* Connections are numbered as they are opened; a result carries one exactly when
\* its dial worked.
Known == /\ open \subseteq 1 .. opened
         /\ \A d \in DestIds : rt[d].conn <= opened
         /\ \A r \in results : r.c <= opened /\ (r.err = "no" <=> r.c # NoConn)

\* Every open connection is the Router's or a result's.
Owned == open \subseteq {rt[d].conn : d \in DestIds} \cup {r.c : r \in results}

\* A destination's ladder, and the ticks, dials, results and losses under way for it.
Ladder(d) == link[d].active /\ ~link[d].parked
TicksOf(d) == {t \in ticks : t.d = d}
DialsOf(d) == {x \in dials : x.d = d}
ResultsOf(d) == {r \in results : r.d = d}
Queued(d) == \E i \in DOMAIN inCh : inCh[i] = d

\* The two ends of a link agree: a live pump reads the Router's connection, a removed
\* host has neither, and an idle link without a pump has its loss queued.
EndsAt(d) ==
    /\ rt[d].stop # NoConn => rt[d].stop = rt[d].conn /\ [d |-> d, c |-> rt[d].stop] \in pumps
    /\ off[d] = "gone" => ~link[d].active /\ rt[d].conn = NoConn /\ rt[d].stop = NoConn /\ d \notin redial
    /\ off[d] = "no" => rt[d].conn # NoConn
    /\ off[d] = "no" /\ ~link[d].active => rt[d].stop # NoConn \/ Queued(d)

\* A running ladder holds exactly one token, a tick or a dial or a result, of its own
\* generation; while a result is on its way the old connection is already closed.
OneToken(d) ==
    /\ Ladder(d) => TicksOf(d) \cup DialsOf(d) \cup ResultsOf(d) # {}
    /\ off[d] # "gone" =>
         /\ \A t \in TicksOf(d) : Ladder(d) /\ t.gen = link[d].gen /\ t.attempt = link[d].attempt
         /\ \A x \in DialsOf(d) : Ladder(d) /\ x.gen = link[d].gen /\ x.old = rt[d].conn
         /\ \A r \in ResultsOf(d) : Ladder(d) /\ r.gen = link[d].gen /\ rt[d].conn \notin open
                                    /\ (r.err = "mismatch" => rt[d].conn = NoConn)
         /\ TicksOf(d) # {} => DialsOf(d) = {} /\ ResultsOf(d) = {}
         /\ DialsOf(d) # {} => ResultsOf(d) = {}
         /\ \A x, y \in DialsOf(d) : x = y
         /\ \A x, y \in ResultsOf(d) : x = y

\* The inductive invariant; the excepted runs keep only types and numbering.
RecInv == RecTypeOK /\ Known /\ (~beside => Owned /\ \A d \in DestIds : EndsAt(d) /\ OneToken(d))

\* What a step that is about another destination leaves of this one.
EndsSpared(d) ==
    /\ link'[d] = link[d] /\ off'[d] = off[d] /\ rt'[d] = rt[d] /\ (d \in redial' => d \in redial)
    /\ [d |-> d, c |-> rt[d].stop] \in pumps => [d |-> d, c |-> rt[d].stop] \in pumps'
    /\ Queued(d) => Queued(d)'
TokenSpared(d) ==
    /\ link'[d] = link[d] /\ off'[d] = off[d] /\ rt'[d].conn = rt[d].conn
    /\ TicksOf(d)' = TicksOf(d) /\ DialsOf(d)' = DialsOf(d) /\ ResultsOf(d)' = ResultsOf(d)
    /\ rt[d].conn \notin open => rt[d].conn \notin open'

\* A destination that a step spares keeps its part of the invariant.
LEMMA SparedKeeps ==
    ASSUME NEW d \in DestIds
    PROVE  /\ EndsSpared(d) /\ EndsAt(d) => EndsAt(d)'
           /\ TokenSpared(d) /\ OneToken(d) => OneToken(d)'
<1>1. EndsSpared(d) /\ EndsAt(d) => EndsAt(d)'
    BY DEF EndsSpared, EndsAt, NoConn
<1>2. TokenSpared(d) /\ OneToken(d) => OneToken(d)'
    BY DEF TokenSpared, OneToken, Ladder, NoConn
<1> QED
    BY <1>1, <1>2

\* A step about one destination keeps the invariant if it does so there.
LEMMA OneDestStep ==
    ASSUME RecInv, NEW d \in DestIds, RecTypeOK', Known', ~beside' => ~beside,
           ~beside' => Owned' /\ EndsAt(d)' /\ OneToken(d)',
           ~beside' => \A e \in DestIds \ {d} : EndsSpared(e) /\ TokenSpared(e)
    PROVE  RecInv'
  BY SparedKeeps DEF RecInv

\* A step that changes none of this keeps the invariant.
LEMMA SameStep ==
    ASSUME RecInv, UNCHANGED <<rt, pumps, inCh, link, redial, ticks, dials, results, off, opened, open, beside>>
    PROVE  RecInv'
<1>1. RecTypeOK' /\ Known'
    BY DEF RecInv, RecTypeOK, Known
<1>2. Owned => Owned'
    BY DEF Owned
<1>3. \A d \in DestIds : EndsSpared(d) /\ TokenSpared(d)
    BY DEF EndsSpared, TokenSpared, TicksOf, DialsOf, ResultsOf, Queued
<1> QED
    BY <1>1, <1>2, <1>3, SparedKeeps DEF RecInv

\* scheduleRedial, whoever calls it, starts the one token of a ladder that has none.
LEMMA ScheduleStep ==
    ASSUME RecInv, NEW d \in DestIds, NEW k \in LinkRec,
           k.gen = link[d].gen, k.active, ~k.parked, link' = [link EXCEPT ![d] = k],
           ticks' = ticks \cup {[d |-> d, gen |-> k.gen, attempt |-> k.attempt]},
           UNCHANGED <<rt, pumps, redial, dials, opened, open, beside>>,
           results' \subseteq results, \A r \in results \ results' : r.d = d /\ r.c = NoConn,
           inCh' \in Seq(DestIds), \A e \in DestIds \ {d} : Queued(e) => Queued(e)',
           off' \in [DestIds -> {"no", "retrying", "needs", "gone"}], \A e \in DestIds \ {d} : off'[e] = off[e],
           off'[d] = "no" => off[d] = "no", ~beside => off'[d] # "gone",
           ~beside => TicksOf(d) = {} /\ DialsOf(d) = {} /\ ResultsOf(d)' = {}
    PROVE  RecInv'
<1> DEFINE t == [d |-> d, gen |-> k.gen, attempt |-> k.attempt]
<1>0. RecTypeOK /\ Known /\ (~beside => Owned /\ EndsAt(d) /\ OneToken(d))
    BY DEF RecInv
<1>1. link' \in [DestIds -> LinkRec]
    BY <1>0 DEF RecTypeOK
<1>2. t \in [d : DestIds, gen : Nat, attempt : Nat]
    BY <1>0 DEF RecTypeOK, LinkRec
<1>3. RecTypeOK'
    BY <1>0, <1>1, <1>2 DEF RecTypeOK
<1>4. Known'
    BY <1>0 DEF Known
<1>5. /\ link'[d] = k
      /\ \A e \in DestIds \ {d} : link'[e] = link[e]
    BY <1>0 DEF RecTypeOK
<1>6. ~beside => Owned'
    <2> SUFFICES ASSUME ~beside, NEW c \in open
                 PROVE  (\E e \in DestIds : c = rt[e].conn) \/ \E r \in results' : c = r.c
        BY DEF Owned
    <2>1. c # NoConn
        BY <1>0 DEF Known, NoConn, RecTypeOK
    <2> QED
        BY <1>0, <2>1 DEF Owned
<1>7. ~beside => EndsAt(d)'
    BY <1>0, <1>5 DEF EndsAt
<1>8. ~beside => TicksOf(d)' = {t} /\ DialsOf(d)' = {}
    BY DEF TicksOf, DialsOf
<1>9. ~beside => OneToken(d)'
    <2>1. Ladder(d)' /\ t.gen = link'[d].gen /\ t.attempt = link'[d].attempt
        BY <1>5 DEF Ladder
    <2> HIDE DEF t
    <2> QED
        BY <1>8, <2>1 DEF OneToken
<1>10. \A e \in DestIds \ {d} : TicksOf(e)' = TicksOf(e) /\ DialsOf(e)' = DialsOf(e) /\ ResultsOf(e)' = ResultsOf(e)
    BY DEF TicksOf, DialsOf, ResultsOf
<1>11. \A e \in DestIds \ {d} : EndsSpared(e) /\ TokenSpared(e)
    BY <1>5, <1>10 DEF EndsSpared, TokenSpared
<1> QED
    BY <1>3, <1>4, <1>6, <1>7, <1>9, <1>11, OneDestStep

\* What scheduleRedial writes.
LEMMA ScheduledTo ==
    ASSUME NEW d \in DestIds, NEW l \in LinkRec, Scheduled(l, d)
    PROVE  \E k \in LinkRec :
             /\ k.gen = l.gen /\ (k.active <=> l.active) /\ (k.parked <=> l.parked)
             /\ link' = [link EXCEPT ![d] = k]
             /\ ticks' = ticks \cup {[d |-> d, gen |-> k.gen, attempt |-> k.attempt]}
<1> DEFINE k == [l EXCEPT !.attempt = @ + 1]
<1>1. k \in LinkRec
    BY DEF LinkRec
<1>2. k.gen = l.gen /\ k.attempt = l.attempt + 1
    BY DEF LinkRec
<1>3. k.active <=> l.active
    BY DEF LinkRec
<1>4. k.parked <=> l.parked
    BY DEF LinkRec
<1>5. link' = [link EXCEPT ![d] = k] /\ ticks' = ticks \cup {[d |-> d, gen |-> l.gen, attempt |-> l.attempt + 1]}
    BY DEF Scheduled
<1> HIDE DEF k
<1> QED
    BY <1>1, <1>2, <1>3, <1>4, <1>5

\* The link state beginReconnect starts from.
LEMMA BegunLadder ==
    ASSUME NEW g \in Nat, NEW a \in Nat
    PROVE  LET l == [Fresh EXCEPT !.gen = g, !.active = TRUE, !.attempt = a]
           IN  l \in LinkRec /\ l.gen = g /\ l.active /\ ~l.parked
<1> DEFINE l == [Fresh EXCEPT !.gen = g, !.active = TRUE, !.attempt = a]
<1>0. Fresh \in LinkRec
    BY DEF LinkRec, Fresh
<1>1. l \in LinkRec
    BY <1>0 DEF LinkRec
<1>2. l.gen = g
    BY <1>0 DEF LinkRec
<1>3. l.active
    BY <1>0 DEF LinkRec
<1>4. ~Fresh.parked
    BY DEF Fresh
<1>5. l.parked <=> Fresh.parked
    BY <1>0 DEF LinkRec
<1> HIDE DEF l
<1>6. l \in LinkRec /\ l.gen = g /\ l.active /\ ~l.parked
    BY <1>1, <1>2, <1>3, <1>4, <1>5
<1> QED
    BY <1>6 DEF l

\* beginReconnect on an idle link.
LEMMA BeginStep ==
    ASSUME RecInv, NEW d \in DestIds, d \in redial \/ off[d] # "gone", ~link[d].active,
           BeginReconnect(d),
           UNCHANGED <<rt, pumps, redial, dials, results, off, opened, open, beside>>,
           inCh' \in Seq(DestIds), \A e \in DestIds \ {d} : Queued(e) => Queued(e)'
    PROVE  RecInv'
<1>0. RecTypeOK /\ (~beside => EndsAt(d) /\ OneToken(d))
    BY DEF RecInv
<1>1. PICK carried \in {0, link[d].attempt} :
         Scheduled([Fresh EXCEPT !.gen = link[d].gen, !.active = TRUE, !.attempt = carried], d)
    BY DEF BeginReconnect
<1>2. carried \in Nat /\ link[d].gen \in Nat
    BY <1>0, <1>1 DEF RecTypeOK, LinkRec
<1>3. PICK k \in LinkRec : /\ k.gen = link[d].gen /\ k.active /\ ~k.parked
                           /\ link' = [link EXCEPT ![d] = k]
                           /\ ticks' = ticks \cup {[d |-> d, gen |-> k.gen, attempt |-> k.attempt]}
    <2> DEFINE l == [Fresh EXCEPT !.gen = link[d].gen, !.active = TRUE, !.attempt = carried]
    <2>1. l \in LinkRec /\ l.gen = link[d].gen /\ l.active /\ ~l.parked
        BY <1>2, BegunLadder
    <2>2. Scheduled(l, d)
        BY <1>1
    <2> HIDE DEF l
    <2> QED
        BY <2>1, <2>2, ScheduledTo
<1>5. ~beside => off[d] # "gone"
    BY <1>0 DEF EndsAt
<1>6. ~beside => TicksOf(d) = {} /\ DialsOf(d) = {} /\ ResultsOf(d)' = {}
    BY <1>0, <1>5 DEF OneToken, Ladder, ResultsOf
<1>7. off' \in [DestIds -> {"no", "retrying", "needs", "gone"}]
    BY <1>0 DEF RecTypeOK
<1>8. /\ results' \subseteq results /\ \A r \in results \ results' : r.d = d /\ r.c = NoConn
      /\ \A e \in DestIds \ {d} : off'[e] = off[e]
      /\ off'[d] = "no" => off[d] = "no"
    OBVIOUS
<1> QED
    BY <1>3, <1>5, <1>6, <1>7, <1>8, ScheduleStep

\* Reading a loss leaves the other destinations' losses queued.
LEMMA QueueTail ==
    ASSUME inCh \in Seq(DestIds), inCh # <<>>, inCh' = Tail(inCh)
    PROVE  /\ Head(inCh) \in DestIds /\ inCh' \in Seq(DestIds)
           /\ \A e \in DestIds \ {Head(inCh)} : Queued(e) => Queued(e)'
<1>1. Head(inCh) \in DestIds /\ inCh' \in Seq(DestIds) /\ Head(inCh) = inCh[1]
    OBVIOUS
<1>2. ASSUME NEW e \in DestIds \ {Head(inCh)}, NEW i \in DOMAIN inCh, inCh[i] = e
      PROVE  Queued(e)'
    <2>1. i - 1 \in DOMAIN inCh' /\ inCh'[i - 1] = e
        BY <1>1, <1>2
    <2> QED
        BY <2>1 DEF Queued
<1> QED
    BY <1>1, <1>2 DEF Queued

\* A pump that ends reports its loss, or was stopped.
LEMMA PumpStep ==
    ASSUME RecInv, NEW p \in pumps, Pump(p)
    PROVE  RecInv'
<1>0. RecTypeOK /\ Known /\ (~beside => Owned /\ \A d \in DestIds : EndsAt(d) /\ OneToken(d))
    BY DEF RecInv
<1>1. p \in [d : DestIds, c : Nat] /\ p.d \in DestIds
    BY <1>0 DEF RecTypeOK
<1> DEFINE d == p.d
<1>2. CASE rt[d].stop = p.c
    <2>1. /\ rt' = [rt EXCEPT ![d].stop = NoConn] /\ inCh' = Append(inCh, d) /\ pumps' = pumps \ {p}
          /\ UNCHANGED <<link, redial, ticks, dials, results, off, opened, open, beside>>
        BY <1>2 DEF Pump, conv
    <2>2. /\ rt'[d].conn = rt[d].conn /\ rt'[d].stop = NoConn /\ \A e \in DestIds \ {d} : rt'[e] = rt[e]
          /\ rt' \in [DestIds -> [conn : Nat, stop : Nat]]
        BY <1>0, <1>1, <2>1 DEF RecTypeOK, NoConn
    <2>3. \A e \in DestIds : rt'[e].conn = rt[e].conn
        BY <2>2
    <2>4. RecTypeOK'
        <3>1. inCh' \in Seq(DestIds)
            BY <1>0, <1>1, <2>1 DEF RecTypeOK
        <3> QED
            BY <1>0, <2>1, <2>2, <3>1 DEF RecTypeOK
    <2>5. Known'
        BY <1>0, <2>1, <2>3 DEF Known
    <2>6. ~beside => Owned'
        BY <1>0, <2>1, <2>3 DEF Owned
    <2>7. /\ Len(inCh) + 1 \in DOMAIN inCh' /\ inCh'[Len(inCh) + 1] = d
          /\ \A i \in DOMAIN inCh : i \in DOMAIN inCh' /\ inCh'[i] = inCh[i]
        BY <1>0, <1>1, <2>1 DEF RecTypeOK
    <2>8. Queued(d)' /\ \A e \in DestIds : Queued(e) => Queued(e)'
        BY <2>7 DEF Queued
    <2>9. ~beside => EndsAt(d)'
        BY <1>0, <1>1, <2>1, <2>2, <2>8 DEF EndsAt, NoConn
    <2>10. \A e \in DestIds : TokenSpared(e)
        BY <2>1, <2>3 DEF TokenSpared, TicksOf, DialsOf, ResultsOf
    <2>11. \A e \in DestIds \ {d} : EndsSpared(e)
        BY <2>1, <2>2, <2>8 DEF EndsSpared
    <2>12. ~beside => OneToken(d)'
        BY <1>0, <1>1, <2>10, SparedKeeps
    <2> QED
        BY <1>1, <2>1, <2>4, <2>5, <2>6, <2>9, <2>10, <2>11, <2>12, OneDestStep
<1>3. CASE rt[d].stop # p.c
    <2>1. /\ pumps' = pumps \ {p}
          /\ UNCHANGED <<rt, inCh, link, redial, ticks, dials, results, off, opened, open, beside>>
        BY <1>3 DEF Pump, conv
    <2>2. RecTypeOK' /\ Known' /\ (Owned => Owned')
        BY <1>0, <2>1 DEF RecTypeOK, Known, Owned
    <2>3. \A e \in DestIds : TokenSpared(e)
        BY <2>1 DEF TokenSpared, TicksOf, DialsOf, ResultsOf
    <2>4. \A e \in DestIds : EndsSpared(e)
        BY <1>1, <1>3, <2>1 DEF EndsSpared, Queued
    <2> QED
        BY <1>0, <2>1, <2>2, <2>3, <2>4, SparedKeeps DEF RecInv
<1> QED
    BY <1>2, <1>3

\* A loss starts a ladder, meets a running one, or comes after its host was removed.
LEMMA LostStep ==
    ASSUME RecInv, LinkLost
    PROVE  RecInv'
<1>0. RecTypeOK /\ Known /\ (~beside => Owned /\ \A e \in DestIds : EndsAt(e) /\ OneToken(e))
    BY DEF RecInv
<1>a. PICK d : d = Head(inCh)
    OBVIOUS
<1>1. /\ d \in DestIds /\ inCh' \in Seq(DestIds)
      /\ \A e \in DestIds \ {d} : Queued(e) => Queued(e)'
    BY <1>0, <1>a, QueueTail DEF LinkLost, RecTypeOK
<1>2. UNCHANGED <<rt, pumps, redial, dials, results, off, opened, open>>
    BY DEF LinkLost
<1>3. CASE d \in redial /\ link[d].active
    <2>1. UNCHANGED <<link, ticks, beside>>
        BY <1>a, <1>3 DEF LinkLost, BeginReconnect
    <2>2. RecTypeOK' /\ Known' /\ (Owned => Owned')
        BY <1>0, <1>1, <1>2, <2>1 DEF RecTypeOK, Known, Owned
    <2>3. \A e \in DestIds : TokenSpared(e)
        BY <1>2, <2>1 DEF TokenSpared, TicksOf, DialsOf, ResultsOf
    <2>4. \A e \in DestIds \ {d} : EndsSpared(e)
        BY <1>1, <1>2, <2>1 DEF EndsSpared
    <2>5. ~beside => EndsAt(d)'
        BY <1>0, <1>1, <1>2, <1>3, <2>1 DEF EndsAt
    <2> QED
        BY <1>0, <1>1, <2>1, <2>2, <2>3, <2>4, <2>5, SparedKeeps, OneDestStep
<1>4. CASE d \in redial /\ ~link[d].active
    <2>1. BeginReconnect(d) /\ UNCHANGED beside
        BY <1>a, <1>4 DEF LinkLost
    <2> QED
        BY <1>1, <1>2, <1>4, <2>1, BeginStep
<1>5. CASE d \notin redial
    <2>1. beside' /\ link' = [link EXCEPT ![d] = [@ EXCEPT !.active = TRUE, !.parked = TRUE]] /\ UNCHANGED ticks
        BY <1>a, <1>5 DEF LinkLost
    <2>2. link' \in [DestIds -> LinkRec]
        BY <1>0, <1>1, <2>1 DEF RecTypeOK, LinkRec
    <2>3. RecTypeOK' /\ Known'
        BY <1>0, <1>1, <1>2, <2>1, <2>2 DEF RecTypeOK, Known
    <2> QED
        BY <2>1, <2>3 DEF RecInv
<1> QED
    BY <1>3, <1>4, <1>5

\* A tick of the current attempt becomes the one dial.
LEMMA TickStep ==
    ASSUME RecInv, NEW t \in ticks, RedialTick(t)
    PROVE  RecInv'
<1>0. RecTypeOK /\ Known /\ (~beside => Owned /\ \A e \in DestIds : EndsAt(e) /\ OneToken(e))
    BY DEF RecInv
<1>1. t \in [d : DestIds, gen : Nat, attempt : Nat] /\ t.d \in DestIds
    BY <1>0 DEF RecTypeOK
<1> DEFINE d == t.d
           x == [d |-> t.d, gen |-> t.gen, old |-> rt[t.d].conn]
           Now == t.gen = link[t.d].gen /\ link[t.d].active /\ t.attempt = link[t.d].attempt
<1>2. /\ ticks' = ticks \ {t} /\ dials' = (IF Now THEN dials \cup {x} ELSE dials)
      /\ UNCHANGED <<rt, pumps, inCh, link, redial, results, off, opened, open, beside>>
    BY DEF RedialTick, conv
<1>3. x \in [d : DestIds, gen : Nat, old : Nat]
    BY <1>0, <1>1 DEF RecTypeOK
<1>4. RecTypeOK' /\ Known' /\ (Owned => Owned')
    BY <1>0, <1>2, <1>3 DEF RecTypeOK, Known, Owned
<1>5. \A e \in DestIds : EndsSpared(e)
    BY <1>2 DEF EndsSpared, Queued
<1>6. \A e \in DestIds \ {d} : TokenSpared(e)
    BY <1>2 DEF TokenSpared, TicksOf, DialsOf, ResultsOf
<1>7. ASSUME ~beside
      PROVE  OneToken(d)'
    <2>1. OneToken(d) /\ EndsAt(d) /\ t \in TicksOf(d)
        BY <1>0, <1>1, <1>7 DEF TicksOf
    <2>2. CASE off[d] = "gone"
        BY <1>2, <2>1, <2>2 DEF OneToken, EndsAt, Ladder
    <2>3. CASE off[d] # "gone"
        <3>1. /\ Now /\ Ladder(d)
              /\ \A o \in TicksOf(d) : o.gen = t.gen /\ o.attempt = t.attempt
              /\ DialsOf(d) = {} /\ ResultsOf(d) = {}
            BY <2>1, <2>3 DEF OneToken, Ladder
        <3>2. \A o \in TicksOf(d) : o = t
            <4> SUFFICES ASSUME NEW o \in TicksOf(d)
                         PROVE  o = t
                OBVIOUS
            <4>1. o \in [d : DestIds, gen : Nat, attempt : Nat] /\ o.d = t.d
                BY <1>0 DEF RecTypeOK, TicksOf
            <4>2. o.gen = t.gen /\ o.attempt = t.attempt
                BY <3>1
            <4> QED
                BY <1>1, <4>1, <4>2
        <3>3. TicksOf(d)' = {}
            BY <1>2, <3>2 DEF TicksOf
        <3>4. DialsOf(d)' = {x}
            BY <1>2, <3>1 DEF DialsOf
        <3>5. ResultsOf(d)' = {} /\ Ladder(d)' /\ x.gen = link'[d].gen /\ x.old = rt'[d].conn
            BY <1>2, <3>1 DEF ResultsOf, Ladder
        <3> HIDE DEF x
        <3> QED
            BY <3>3, <3>4, <3>5 DEF OneToken
    <2> QED
        BY <2>2, <2>3
<1> QED
    BY <1>0, <1>1, <1>2, <1>4, <1>5, <1>6, <1>7, SparedKeeps, OneDestStep

\* A dial closes the old connection and becomes the one result.
LEMMA DialStep ==
    ASSUME RecInv, NEW x \in dials, Redial(x)
    PROVE  RecInv'
<1>0. RecTypeOK /\ Known /\ (~beside => Owned /\ \A e \in DestIds : EndsAt(e) /\ OneToken(e))
    BY DEF RecInv
<1>1. x \in [d : DestIds, gen : Nat, old : Nat] /\ x.d \in DestIds
    BY <1>0 DEF RecTypeOK
<1> DEFINE d == x.d
<1>2. PICK r \in [d : DestIds, gen : Nat, c : Nat, err : {"no", "again", "permanent", "mismatch"}] :
        /\ results' = results \cup {r} /\ r.d = d /\ r.gen = x.gen
        /\ r.err = "mismatch" => x.old = NoConn
        /\ \/ r.err = "no" /\ r.c = opened + 1 /\ opened' = opened + 1 /\ open' = (open \ {x.old}) \cup {opened + 1}
           \/ r.err # "no" /\ r.c = NoConn /\ opened' = opened /\ open' = open \ {x.old}
    <2>1. CASE DialRemoteTransport(x)
        <3>1. [d |-> x.d, gen |-> x.gen, c |-> opened + 1, err |-> "no"]
                \in [d : DestIds, gen : Nat, c : Nat, err : {"no", "again", "permanent", "mismatch"}]
            BY <1>0, <1>1 DEF RecTypeOK
        <3> QED
            BY <2>1, <3>1 DEF DialRemoteTransport
    <2>2. CASE ~DialRemoteTransport(x)
        <3>1. PICK e \in VerifyFailures(x.old) :
                results' = results \cup {[d |-> x.d, gen |-> x.gen, c |-> NoConn, err |-> e]}
            BY <2>2 DEF Redial
        <3>2. e \in {"again", "permanent", "mismatch"} /\ (e = "mismatch" => x.old = NoConn)
            BY <3>1 DEF VerifyFailures, LinkFailures
        <3>3. [d |-> x.d, gen |-> x.gen, c |-> NoConn, err |-> e]
                \in [d : DestIds, gen : Nat, c : Nat, err : {"no", "again", "permanent", "mismatch"}]
            BY <1>1, <3>2 DEF NoConn
        <3>4. opened' = opened /\ open' = open \ {x.old}
            BY <2>2 DEF Redial
        <3> QED
            BY <3>1, <3>2, <3>3, <3>4
    <2> QED
        BY <2>1, <2>2
<1>3. /\ dials' = dials \ {x}
      /\ UNCHANGED <<rt, pumps, inCh, link, redial, ticks, off, beside>>
    BY DEF Redial
<1>4. RecTypeOK'
    BY <1>0, <1>2, <1>3 DEF RecTypeOK
<1>5. Known'
    <2>1. opened \in Nat /\ opened <= opened' /\ opened' \in Nat
        BY <1>0, <1>2 DEF RecTypeOK
    <2>2. open' \subseteq 1 .. opened'
        <3> SUFFICES ASSUME NEW c \in open'
                     PROVE  c \in 1 .. opened'
            OBVIOUS
        <3>1. c \in open \/ (c = opened + 1 /\ opened' = opened + 1)
            BY <1>2
        <3>2. c \in open => c \in 1 .. opened
            BY <1>0 DEF Known
        <3>3. CASE c \in open
            <4>1. c \in 1 .. opened
                BY <3>2, <3>3
            <4> QED
                BY <2>1, <4>1
        <3>4. CASE c = opened + 1 /\ opened' = opened + 1
            BY <2>1, <3>4
        <3> QED
            BY <3>1, <3>3, <3>4
    <2>3. \A e \in DestIds : rt'[e].conn <= opened'
        BY <1>0, <1>3, <2>1 DEF Known, RecTypeOK
    <2>4. r.c <= opened' /\ (r.err = "no" <=> r.c # NoConn)
        BY <1>2, <2>1 DEF NoConn
    <2>5. \A q \in results : q.c <= opened' /\ (q.err = "no" <=> q.c # NoConn)
        BY <1>0, <2>1 DEF Known, RecTypeOK
    <2> QED
        BY <1>2, <2>2, <2>3, <2>4, <2>5 DEF Known
<1>6. Owned => Owned'
    BY <1>0, <1>2, <1>3 DEF Owned
<1>7. \A e \in DestIds : EndsSpared(e)
    BY <1>3 DEF EndsSpared, Queued
<1>8. \A e \in DestIds \ {d} : TokenSpared(e)
    <2> SUFFICES ASSUME NEW e \in DestIds \ {d}
                 PROVE  TokenSpared(e)
        OBVIOUS
    <2>1. TicksOf(e)' = TicksOf(e) /\ DialsOf(e)' = DialsOf(e) /\ ResultsOf(e)' = ResultsOf(e)
        BY <1>2, <1>3 DEF TicksOf, DialsOf, ResultsOf
    <2>2. rt[e].conn \notin open => rt[e].conn \notin open'
        BY <1>0, <1>2 DEF Known, RecTypeOK
    <2> QED
        BY <1>3, <2>1, <2>2 DEF TokenSpared
<1>9. ASSUME ~beside
      PROVE  OneToken(d)'
    <2>1. OneToken(d) /\ EndsAt(d) /\ x \in DialsOf(d)
        BY <1>0, <1>1, <1>9 DEF DialsOf
    <2>2. r \in ResultsOf(d)'
        BY <1>2 DEF ResultsOf
    <2>3. CASE off[d] = "gone"
        BY <1>3, <2>1, <2>2, <2>3 DEF OneToken, EndsAt, Ladder
    <2>4. CASE off[d] # "gone"
        <3>1. /\ TicksOf(d) = {} /\ ResultsOf(d) = {} /\ \A y \in DialsOf(d) : y = x
              /\ Ladder(d) /\ x.gen = link[d].gen /\ x.old = rt[d].conn
            BY <2>1, <2>4 DEF OneToken
        <3>2. TicksOf(d)' = {} /\ DialsOf(d)' = {} /\ ResultsOf(d)' = {r}
            BY <1>2, <1>3, <3>1 DEF TicksOf, DialsOf, ResultsOf
        <3>3. rt[d].conn \notin open'
            BY <1>0, <1>1, <1>2, <3>1 DEF Known, RecTypeOK
        <3>4. /\ Ladder(d)' /\ r.gen = link'[d].gen /\ rt'[d].conn \notin open'
              /\ (r.err = "mismatch" => rt'[d].conn = NoConn)
            BY <1>2, <1>3, <3>1, <3>3 DEF Ladder
        <3> QED
            BY <3>2, <3>4 DEF OneToken
    <2> QED
        BY <2>3, <2>4
<1> QED
    BY <1>0, <1>1, <1>3, <1>4, <1>5, <1>6, <1>7, <1>8, <1>9, SparedKeeps, OneDestStep

\* A result is closed, adopted, or hands the token on, parks or ends the ladder.
LEMMA ResultStep ==
    ASSUME RecInv, NEW r \in results, RedialResult(r)
    PROVE  RecInv'
<1>0. RecTypeOK /\ Known /\ (~beside => Owned /\ \A e \in DestIds : EndsAt(e) /\ OneToken(e))
    BY DEF RecInv
<1>1. /\ r \in [d : DestIds, gen : Nat, c : Nat, err : {"no", "again", "permanent", "mismatch"}]
      /\ r.d \in DestIds
    BY <1>0 DEF RecTypeOK
<1> DEFINE d == r.d
<1>2. /\ results' = results \ {r}
      /\ UNCHANGED <<inCh, redial, dials, opened, beside>>
    BY DEF RedialResult
<1>3. ~beside => OneToken(d) /\ EndsAt(d) /\ r \in ResultsOf(d)
    BY <1>0, <1>1 DEF ResultsOf
<1>4. ~beside /\ off[d] # "gone" =>
        /\ TicksOf(d) = {} /\ DialsOf(d) = {} /\ ResultsOf(d) = {r}
        /\ Ladder(d) /\ r.gen = link[d].gen /\ rt[d].conn \notin open
        /\ r.err = "mismatch" => rt[d].conn = NoConn
    BY <1>3 DEF OneToken
<1>5. \A e \in DestIds \ {d} : DialsOf(e)' = DialsOf(e) /\ ResultsOf(e)' = ResultsOf(e)
    BY <1>2 DEF DialsOf, ResultsOf
<1>6. ResultsOf(d)' = ResultsOf(d) \ {r} /\ DialsOf(d)' = DialsOf(d)
    BY <1>2 DEF ResultsOf, DialsOf
<1>7. CASE r.gen # link[d].gen \/ ~link[d].active
    <2>1. open' = open \ {r.c} /\ UNCHANGED <<rt, pumps, link, ticks, off>>
        BY <1>7 DEF RedialResult
    <2>2. RecTypeOK'
        BY <1>0, <1>2, <2>1 DEF RecTypeOK
    <2>3. Known'
        BY <1>0, <1>2, <2>1 DEF Known
    <2>4. Owned => Owned'
        BY <1>2, <2>1 DEF Owned
    <2>5. \A e \in DestIds : EndsSpared(e)
        BY <1>2, <2>1 DEF EndsSpared, Queued
    <2>6. \A e \in DestIds \ {d} : TokenSpared(e)
        BY <1>5, <2>1 DEF TokenSpared, TicksOf
    <2>7. ~beside => OneToken(d)'
        <3>1. ~beside => off[d] = "gone"
            BY <1>4, <1>7 DEF Ladder
        <3> QED
            BY <1>3, <2>1, <3>1 DEF OneToken, EndsAt, Ladder
    <2> QED
        BY <1>0, <1>1, <1>2, <2>2, <2>3, <2>4, <2>5, <2>6, <2>7, SparedKeeps, OneDestStep
<1>8. CASE r.gen = link[d].gen /\ link[d].active /\ r.err = "no"
    <2>1. FinishReconnect(d, r.c) /\ UNCHANGED <<ticks, off, open>>
        BY <1>8 DEF RedialResult
    <2>2. r.c # NoConn /\ r.c <= opened /\ r.c \in Nat
        BY <1>0, <1>1, <1>8 DEF Known
    <2>3. /\ rt'[d] = [conn |-> r.c, stop |-> r.c] /\ \A e \in DestIds \ {d} : rt'[e] = rt[e]
          /\ rt' \in [DestIds -> [conn : Nat, stop : Nat]]
        BY <1>0, <1>1, <2>1, <2>2 DEF FinishReconnect, Added, Removed, RecTypeOK, NoConn
    <2>4. PICK k \in LinkRec : ~k.active /\ link' = [link EXCEPT ![d] = k]
        <3> DEFINE k == [Fresh EXCEPT !.gen = link[d].gen + 1, !.attempt = link[d].attempt]
        <3>0. link[d].gen + 1 \in Nat /\ link[d].attempt \in Nat
            BY <1>0, <1>1 DEF RecTypeOK, LinkRec
        <3>1. Fresh \in LinkRec /\ ~Fresh.active
            BY DEF LinkRec, Fresh
        <3>2. k \in LinkRec
            BY <3>0, <3>1 DEF LinkRec
        <3>3. k.active <=> Fresh.active
            BY <3>0, <3>1 DEF LinkRec
        <3>4. link' = [link EXCEPT ![d] = k]
            BY <2>1 DEF FinishReconnect
        <3> HIDE DEF k
        <3> QED
            BY <3>1, <3>2, <3>3, <3>4
    <2>5. link' \in [DestIds -> LinkRec] /\ link'[d] = k /\ \A e \in DestIds \ {d} : link'[e] = link[e]
        BY <1>0, <1>1, <2>4 DEF RecTypeOK
    <2>6. pumps' = pumps \cup {[d |-> d, c |-> r.c]}
        BY <2>1 DEF FinishReconnect
    <2>7. RecTypeOK'
        <3>1. [d |-> d, c |-> r.c] \in [d : DestIds, c : Nat]
            BY <1>1
        <3> QED
            BY <3>1, <1>0, <1>1, <1>2, <2>1, <2>3, <2>5, <2>6 DEF RecTypeOK
    <2>8. Known'
        <3>1. \A e \in DestIds : rt'[e].conn <= opened'
            BY <1>0, <1>2, <2>2, <2>3 DEF Known
        <3> QED
            BY <1>0, <1>2, <2>1, <3>1 DEF Known
    <2>9. ~beside => off[d] # "gone"
        BY <1>3, <1>8 DEF EndsAt
    <2>10. ~beside => Owned'
        <3> SUFFICES ASSUME ~beside, NEW c \in open
                     PROVE  (\E e \in DestIds : c = rt'[e].conn) \/ \E q \in results' : c = q.c
            BY <2>1 DEF Owned
        <3>1. rt[d].conn # c
            BY <1>4, <2>9
        <3> QED
            BY <1>0, <1>1, <1>2, <2>3, <3>1 DEF Owned
    <2>11. ~beside => EndsAt(d)'
        <3>1. rt'[d].stop = rt'[d].conn /\ rt'[d].conn = r.c /\ [d |-> d, c |-> rt'[d].stop] \in pumps'
            BY <2>3, <2>6
        <3> QED
            BY <2>1, <2>2, <2>9, <3>1 DEF EndsAt
    <2>12. ~beside => OneToken(d)'
        <3>1. ~beside => TicksOf(d)' = {} /\ DialsOf(d)' = {} /\ ResultsOf(d)' = {}
            BY <1>4, <1>6, <2>1, <2>9 DEF TicksOf
        <3> QED
            BY <2>4, <2>5, <3>1 DEF OneToken, Ladder
    <2>13. \A e \in DestIds \ {d} : EndsSpared(e) /\ TokenSpared(e)
        <3> SUFFICES ASSUME NEW e \in DestIds \ {d}
                     PROVE  EndsSpared(e) /\ TokenSpared(e)
            OBVIOUS
        <3>1. EndsSpared(e)
            BY <1>2, <2>1, <2>3, <2>5, <2>6 DEF EndsSpared, Queued
        <3>2. TokenSpared(e)
            BY <1>5, <2>1, <2>3, <2>5 DEF TokenSpared, TicksOf
        <3> QED
            BY <3>1, <3>2
    <2> QED
        BY <1>1, <1>2, <2>7, <2>8, <2>10, <2>11, <2>12, <2>13, OneDestStep
<1>9. CASE r.gen = link[d].gen /\ link[d].active /\ r.err # "no"
    <2>1. UNCHANGED <<rt, pumps, open>> /\ r.c = NoConn
        BY <1>0, <1>1, <1>9 DEF RedialResult, Known
    <2>2. ~beside => off[d] # "gone"
        BY <1>3, <1>9 DEF EndsAt
    <2>3. \A e \in DestIds : Queued(e) => Queued(e)'
        BY <1>2 DEF Queued
    <2>4. ~beside => Owned'
        <3> SUFFICES ASSUME ~beside, NEW c \in open
                     PROVE  (\E e \in DestIds : c = rt[e].conn) \/ \E q \in results' : c = q.c
            BY <2>1 DEF Owned
        <3>1. c # NoConn
            BY <1>0 DEF Known, NoConn, RecTypeOK
        <3> QED
            BY <1>0, <1>2, <2>1, <3>1 DEF Owned
    <2>5. CASE r.err = "again"
        <3>1. Scheduled(link[d], d) /\ off' = off
            BY <1>9, <2>5 DEF RedialResult
        <3>2. link[d] \in LinkRec
            BY <1>0, <1>1 DEF RecTypeOK
        <3>3. PICK k \in LinkRec :
                 /\ k.gen = link[d].gen /\ (k.active <=> link[d].active) /\ (k.parked <=> link[d].parked)
                 /\ link' = [link EXCEPT ![d] = k]
                 /\ ticks' = ticks \cup {[d |-> d, gen |-> k.gen, attempt |-> k.attempt]}
            BY <1>1, <3>1, <3>2, ScheduledTo
        <3>4. CASE link[d].parked
            <4>1. beside
                BY <1>4, <2>2, <3>4 DEF Ladder
            <4>2. [d |-> d, gen |-> k.gen, attempt |-> k.attempt] \in [d : DestIds, gen : Nat, attempt : Nat]
                BY <1>1, <3>3 DEF LinkRec
            <4>3. link' \in [DestIds -> LinkRec]
                BY <1>0, <1>1, <3>3 DEF RecTypeOK
            <4>4. RecTypeOK'
                BY <1>0, <1>2, <2>1, <3>1, <3>3, <4>2, <4>3 DEF RecTypeOK
            <4>5. Known'
                BY <1>0, <1>2, <2>1 DEF Known
            <4> QED
                BY <1>2, <4>1, <4>4, <4>5 DEF RecInv
        <3>5. CASE ~link[d].parked
            <4>1. /\ results' \subseteq results /\ \A q \in results \ results' : q.d = d /\ q.c = NoConn
                  /\ \A e \in DestIds \ {d} : off'[e] = off[e]
                  /\ off'[d] = "no" => off[d] = "no"
                  /\ ~beside => off'[d] # "gone"
                BY <1>2, <2>1, <2>2, <3>1
            <4>2. ~beside => TicksOf(d) = {} /\ DialsOf(d) = {} /\ ResultsOf(d)' = {}
                BY <1>4, <1>6, <2>2
            <4>3. inCh' \in Seq(DestIds) /\ off' \in [DestIds -> {"no", "retrying", "needs", "gone"}]
                BY <1>0, <1>2, <3>1 DEF RecTypeOK
            <4> QED
                BY <1>1, <1>2, <1>9, <2>1, <2>3, <3>3, <3>5, <4>1, <4>2, <4>3, ScheduleStep
        <3> QED
            BY <3>4, <3>5
    <2>6. CASE r.err # "again"
        <3>1. /\ link' = [link EXCEPT ![d] = [link[d] EXCEPT !.active = r.err = "permanent",
                                                             !.parked = r.err = "permanent"]]
              /\ off' = (IF r.err = "mismatch" /\ off[d] # "no" THEN [off EXCEPT ![d] = "needs"] ELSE off)
              /\ UNCHANGED ticks
            BY <1>9, <2>6 DEF RedialResult
        <3>2. PICK k \in LinkRec :
                 /\ (k.active <=> r.err = "permanent") /\ (k.parked <=> r.err = "permanent")
                 /\ link' = [link EXCEPT ![d] = k]
            <4> DEFINE k == [link[d] EXCEPT !.active = r.err = "permanent", !.parked = r.err = "permanent"]
            <4>0. link[d] \in LinkRec
                BY <1>0, <1>1 DEF RecTypeOK
            <4>1. k \in LinkRec
                BY <4>0 DEF LinkRec
            <4>2. k.active <=> r.err = "permanent"
                BY <4>0 DEF LinkRec
            <4>3. k.parked <=> r.err = "permanent"
                BY <4>0 DEF LinkRec
            <4>4. link' = [link EXCEPT ![d] = k]
                BY <3>1
            <4> HIDE DEF k
            <4> QED
                BY <4>1, <4>2, <4>3, <4>4
        <3>3. link' \in [DestIds -> LinkRec] /\ link'[d] = k /\ \A e \in DestIds \ {d} : link'[e] = link[e]
            BY <1>0, <1>1, <3>2 DEF RecTypeOK
        <3>4. /\ off' \in [DestIds -> {"no", "retrying", "needs", "gone"}]
              /\ \A e \in DestIds \ {d} : off'[e] = off[e]
              /\ off'[d] = "no" => off[d] = "no" /\ (~beside => r.err # "mismatch")
              /\ off'[d] = "gone" => off[d] = "gone"
            <4>1. off[d] = "no" /\ ~beside => r.err # "mismatch"
                BY <1>3, <1>4 DEF EndsAt
            <4> QED
                BY <1>0, <1>1, <3>1, <4>1 DEF RecTypeOK
        <3>5. RecTypeOK' /\ Known'
            BY <1>0, <1>2, <2>1, <3>1, <3>3, <3>4 DEF RecTypeOK, Known
        <3>6. ~beside => EndsAt(d)'
            BY <1>3, <1>2, <2>1, <2>2, <2>6, <3>2, <3>3, <3>4, <1>9, <1>1 DEF EndsAt
        <3>7. ~beside => OneToken(d)'
            <4>1. ~beside => TicksOf(d)' = {} /\ DialsOf(d)' = {} /\ ResultsOf(d)' = {}
                BY <1>4, <1>6, <3>1, <2>2 DEF TicksOf
            <4>2. ~Ladder(d)'
                BY <3>2, <3>3 DEF Ladder
            <4> QED
                BY <4>1, <4>2 DEF OneToken
        <3>8. \A e \in DestIds \ {d} : EndsSpared(e) /\ TokenSpared(e)
            BY <1>2, <1>5, <2>1, <2>3, <3>1, <3>3, <3>4 DEF EndsSpared, TokenSpared, TicksOf
        <3> QED
            BY <1>1, <1>2, <2>4, <3>5, <3>6, <3>7, <3>8, OneDestStep
    <2> QED
        BY <2>5, <2>6
<1> QED
    BY <1>7, <1>8, <1>9

\* The resume key restarts a parked ladder.
LEMMA ResumeStep ==
    ASSUME RecInv, NEW d \in DestIds, ResumeReconnect(d)
    PROVE  RecInv'
<1>0. RecTypeOK /\ Known /\ (~beside => EndsAt(d) /\ OneToken(d))
    BY DEF RecInv
<1> DEFINE l == [link[d] EXCEPT !.parked = FALSE]
<1>1. link[d] \in LinkRec /\ link[d].active /\ link[d].parked
    BY <1>0 DEF RecTypeOK, ResumeReconnect
<1>2. l \in LinkRec /\ l.gen = link[d].gen
    BY <1>1 DEF LinkRec
<1>3. l.active
    BY <1>1 DEF LinkRec
<1>4. ~l.parked
    BY <1>1 DEF LinkRec
<1>5. Scheduled(l, d) /\ UNCHANGED <<rt, pumps, inCh, redial, dials, results, off, opened, open, beside>>
    BY DEF ResumeReconnect, conv
<1> HIDE DEF l
<1>6. PICK k \in LinkRec :
         /\ k.gen = l.gen /\ (k.active <=> l.active) /\ (k.parked <=> l.parked)
         /\ link' = [link EXCEPT ![d] = k]
         /\ ticks' = ticks \cup {[d |-> d, gen |-> k.gen, attempt |-> k.attempt]}
    BY <1>2, <1>5, ScheduledTo
<1>7. ~beside => off[d] # "gone"
    BY <1>0, <1>1 DEF EndsAt
<1>8. ~beside => TicksOf(d) = {} /\ DialsOf(d) = {} /\ ResultsOf(d)' = {}
    BY <1>0, <1>1, <1>5, <1>7 DEF OneToken, Ladder, ResultsOf
<1>9. /\ results' \subseteq results /\ \A q \in results \ results' : q.d = d /\ q.c = NoConn
      /\ inCh' \in Seq(DestIds) /\ off' \in [DestIds -> {"no", "retrying", "needs", "gone"}]
      /\ \A e \in DestIds : Queued(e) => Queued(e)'
    BY <1>0, <1>5 DEF RecTypeOK, Queued
<1> QED
    BY <1>2, <1>3, <1>4, <1>5, <1>6, <1>7, <1>8, <1>9, ScheduleStep

\* The offline wake-up starts a ladder where none runs.
LEMMA WakeStep ==
    ASSUME RecInv, NEW d \in DestIds, WakeOffline(d)
    PROVE  RecInv'
<1>1. UNCHANGED <<rt, pumps, inCh, redial, dials, results, off, opened, open, beside>>
    BY DEF WakeOffline, conv
<1>2. CASE UNCHANGED <<link, ticks>>
    BY <1>1, <1>2, SameStep
<1>3. CASE BeginReconnect(d) /\ ~link[d].active
    <2>1. inCh' \in Seq(DestIds) /\ \A e \in DestIds : Queued(e) => Queued(e)'
        BY <1>1 DEF RecInv, RecTypeOK, Queued
    <2>2. off[d] # "gone"
        BY DEF WakeOffline
    <2> QED
        BY <1>1, <1>3, <2>1, <2>2, BeginStep
<1> QED
    BY <1>2, <1>3 DEF WakeOffline, BeginReconnect

\* A retry restarts the ladder of an offline host.
LEMMA RetryStep ==
    ASSUME RecInv, NEW d \in DestIds, RetryOffline(d)
    PROVE  RecInv'
<1>0. RecTypeOK /\ Known /\ (~beside => EndsAt(d) /\ OneToken(d))
    BY DEF RecInv
<1> DEFINE l == [link[d] EXCEPT !.active = TRUE, !.parked = FALSE, !.attempt = 0]
<1>1. link[d] \in LinkRec /\ ~link[d].active /\ off[d] \in {"retrying", "needs"}
    BY <1>0 DEF RecTypeOK, RetryOffline
<1>2. l \in LinkRec
    BY <1>1 DEF LinkRec
<1>3. l.gen = link[d].gen
    BY <1>1 DEF LinkRec
<1>4. l.active
    BY <1>1 DEF LinkRec
<1>5. ~l.parked
    BY <1>1 DEF LinkRec
<1>6. /\ Scheduled(l, d) /\ off' = [off EXCEPT ![d] = "retrying"]
      /\ UNCHANGED <<rt, pumps, inCh, redial, dials, results, opened, open, beside>>
    BY DEF RetryOffline, conv
<1> HIDE DEF l
<1>7. PICK k \in LinkRec :
         /\ k.gen = l.gen /\ (k.active <=> l.active) /\ (k.parked <=> l.parked)
         /\ link' = [link EXCEPT ![d] = k]
         /\ ticks' = ticks \cup {[d |-> d, gen |-> k.gen, attempt |-> k.attempt]}
    BY <1>2, <1>6, ScheduledTo
<1>8. ~beside => TicksOf(d) = {} /\ DialsOf(d) = {} /\ ResultsOf(d)' = {}
    BY <1>0, <1>1, <1>6 DEF OneToken, Ladder, ResultsOf
<1>9. /\ results' \subseteq results /\ \A q \in results \ results' : q.d = d /\ q.c = NoConn
      /\ inCh' \in Seq(DestIds) /\ \A e \in DestIds : Queued(e) => Queued(e)'
    BY <1>0, <1>6 DEF RecTypeOK, Queued
<1>10. /\ off' \in [DestIds -> {"no", "retrying", "needs", "gone"}] /\ off'[d] = "retrying"
       /\ \A e \in DestIds \ {d} : off'[e] = off[e]
    BY <1>0, <1>6 DEF RecTypeOK
<1> QED
    BY <1>3, <1>4, <1>5, <1>6, <1>7, <1>8, <1>9, <1>10, ScheduleStep

\* The first workspace state ends the offline rows of a connected host.
LEMMA ReachStep ==
    ASSUME RecInv, NEW d \in DestIds, StateReaches(d)
    PROVE  RecInv'
<1>0. RecTypeOK /\ Known /\ (~beside => Owned /\ EndsAt(d) /\ OneToken(d))
    BY DEF RecInv
<1>1. /\ off' = [off EXCEPT ![d] = "no"] /\ rt[d].stop # NoConn
      /\ UNCHANGED <<rt, pumps, inCh, link, redial, ticks, dials, results, opened, open, beside>>
    BY DEF StateReaches, conv
<1>2. /\ off' \in [DestIds -> {"no", "retrying", "needs", "gone"}] /\ off'[d] = "no"
      /\ \A e \in DestIds \ {d} : off'[e] = off[e]
    BY <1>0, <1>1 DEF RecTypeOK
<1>3. RecTypeOK' /\ Known' /\ (Owned => Owned')
    <2>1. RecTypeOK'
        BY <1>0, <1>1, <1>2 DEF RecTypeOK
    <2>2. Known'
        BY <1>0, <1>1 DEF Known
    <2> QED
        BY <1>1, <2>1, <2>2 DEF Owned
<1>4. \A e \in DestIds \ {d} : EndsSpared(e) /\ TokenSpared(e)
    BY <1>1, <1>2 DEF EndsSpared, TokenSpared, TicksOf, DialsOf, ResultsOf, Queued
<1>5. ~beside => off[d] # "gone"
    BY <1>0, <1>1 DEF EndsAt
<1>6. ~beside => EndsAt(d)'
    BY <1>0, <1>1, <1>2 DEF EndsAt, NoConn
<1>7. TicksOf(d)' = TicksOf(d) /\ DialsOf(d)' = DialsOf(d) /\ ResultsOf(d)' = ResultsOf(d)
    BY <1>1 DEF TicksOf, DialsOf, ResultsOf
<1>8. ~beside => OneToken(d)'
    BY <1>0, <1>1, <1>5, <1>7 DEF OneToken, Ladder, NoConn
<1> QED
    BY <1>0, <1>1, <1>3, <1>4, <1>6, <1>8, OneDestStep

\* The form's connection is adopted by a host that has nothing under way.
LEMMA DialedStep ==
    ASSUME RecInv, NEW d \in DestIds, DestDialed(d)
    PROVE  RecInv'
<1>0. RecTypeOK /\ Known /\ (~beside => Owned /\ EndsAt(d) /\ OneToken(d))
    BY DEF RecInv
<1> DEFINE c == opened + 1
<1>1. /\ opened' = c /\ open' = open \cup {c} /\ c \in Nat /\ c # NoConn
      /\ rt' = Added(rt, d, c) /\ redial' = redial \cup {d}
      /\ pumps' = (IF rt[d].stop # NoConn THEN pumps ELSE pumps \cup {[d |-> d, c |-> c]})
      /\ off' = (IF off[d] = "gone" THEN [off EXCEPT ![d] = "no"] ELSE off)
      /\ UNCHANGED <<inCh, link, ticks, dials, results>>
    BY <1>0 DEF DestDialed, RecTypeOK, NoConn
<1>2. ~beside' => ~beside /\ ~link[d].active /\ rt[d].conn = NoConn
                  /\ \A x \in ticks \cup dials \cup results : x.d # d
    BY DEF DestDialed
<1>3. c \notin open /\ \A e \in DestIds : rt[e].conn # c
    BY <1>0, <1>1 DEF Known, RecTypeOK
<1>4. /\ rt' \in [DestIds -> [conn : Nat, stop : Nat]] /\ \A e \in DestIds \ {d} : rt'[e] = rt[e]
      /\ rt'[d] = rt[d] \/ rt'[d] = [conn |-> c, stop |-> c]
      /\ rt[d].stop = NoConn => rt'[d] = [conn |-> c, stop |-> c]
    BY <1>0, <1>1 DEF RecTypeOK, Added
<1>5. off' \in [DestIds -> {"no", "retrying", "needs", "gone"}] /\ \A e \in DestIds \ {d} : off'[e] = off[e]
    BY <1>0, <1>1 DEF RecTypeOK
<1>6. off'[d] # "gone"
    BY <1>0, <1>1 DEF RecTypeOK
<1>7. RecTypeOK'
    <2>1. [d |-> d, c |-> c] \in [d : DestIds, c : Nat]
        BY <1>1
    <2> HIDE DEF c
    <2> QED
        BY <1>0, <1>1, <1>4, <1>5, <2>1 DEF RecTypeOK
<1>8. Known'
    <2>1. open' \subseteq 1 .. opened'
        BY <1>0, <1>1 DEF Known, RecTypeOK
    <2>2. \A e \in DestIds : rt'[e].conn <= opened'
        <3> SUFFICES ASSUME NEW e \in DestIds
                     PROVE  rt'[e].conn <= opened + 1
            BY <1>1
        <3>1. rt[e].conn \in Nat /\ opened \in Nat /\ rt[e].conn <= opened
            BY <1>0 DEF Known, RecTypeOK
        <3>2. rt'[e].conn = rt[e].conn \/ rt'[e].conn = opened + 1
            BY <1>4
        <3> QED
            BY <3>1, <3>2
    <2>3. \A r \in results : r.c <= opened' /\ (r.err = "no" <=> r.c # NoConn)
        BY <1>0, <1>1 DEF Known, RecTypeOK
    <2> QED
        BY <1>1, <2>1, <2>2, <2>3 DEF Known
<1>9. ASSUME ~beside'
      PROVE  Owned' /\ EndsAt(d)' /\ OneToken(d)'
    <2>1. rt[d].stop = NoConn /\ rt'[d].conn = c /\ rt'[d].stop = c
        BY <1>0, <1>2, <1>4, <1>9 DEF EndsAt, NoConn
    <2>2. [d |-> d, c |-> c] \in pumps'
        BY <1>1, <2>1
    <2>3. EndsAt(d)'
        BY <1>1, <1>6, <2>1, <2>2 DEF EndsAt
    <2>4. TicksOf(d)' = {} /\ DialsOf(d)' = {} /\ ResultsOf(d)' = {} /\ ~Ladder(d)'
        BY <1>1, <1>2, <1>9 DEF TicksOf, DialsOf, ResultsOf, Ladder
    <2>5. OneToken(d)'
        BY <2>4 DEF OneToken
    <2>6. Owned'
        <3> SUFFICES ASSUME NEW b \in open'
                     PROVE  (\E e \in DestIds : b = rt'[e].conn) \/ \E q \in results' : b = q.c
            BY DEF Owned
        <3>1. CASE b = c
            BY <2>1, <3>1
        <3>2. CASE b \in open
            <4>1. b # NoConn
                BY <1>0, <3>2 DEF Known, NoConn, RecTypeOK
            <4> QED
                BY <1>0, <1>1, <1>2, <1>4, <1>9, <3>2, <4>1 DEF Owned
        <3> QED
            BY <1>1, <3>1, <3>2
    <2> QED
        BY <2>3, <2>5, <2>6
<1>10. \A e \in DestIds \ {d} : EndsSpared(e) /\ TokenSpared(e)
    <2> SUFFICES ASSUME NEW e \in DestIds \ {d}
                 PROVE  EndsSpared(e) /\ TokenSpared(e)
        OBVIOUS
    <2>1. rt'[e] = rt[e] /\ off'[e] = off[e] /\ link'[e] = link[e] /\ (e \in redial' => e \in redial)
        BY <1>1, <1>4, <1>5
    <2>2. EndsSpared(e)
        BY <1>1, <2>1 DEF EndsSpared, Queued
    <2>3. rt[e].conn \notin open => rt[e].conn \notin open'
        BY <1>1, <1>3
    <2>4. TokenSpared(e)
        BY <1>1, <2>1, <2>3 DEF TokenSpared, TicksOf, DialsOf, ResultsOf
    <2> QED
        BY <2>2, <2>4
<1> QED
    BY <1>2, <1>7, <1>8, <1>9, <1>10, OneDestStep

\* disconnectDest leaves late answers with nothing to match.
LEMMA DisconnectStep ==
    ASSUME RecInv, NEW d \in DestIds, Disconnect(d)
    PROVE  RecInv'
<1>0. RecTypeOK /\ Known /\ (~beside => Owned /\ EndsAt(d) /\ OneToken(d))
    BY DEF RecInv
<1>1. /\ rt' = Removed(rt, d) /\ open' = open \ {rt[d].conn} /\ redial' = redial \ {d}
      /\ link' = [link EXCEPT ![d] = Fresh] /\ off' = [off EXCEPT ![d] = "gone"]
      /\ UNCHANGED <<pumps, inCh, ticks, dials, results, opened, beside>>
    BY DEF Disconnect
<1>2. Fresh \in LinkRec /\ ~Fresh.active
    BY DEF Fresh, LinkRec
<1>3. /\ rt' \in [DestIds -> [conn : Nat, stop : Nat]] /\ \A e \in DestIds \ {d} : rt'[e] = rt[e]
      /\ rt'[d].conn = NoConn /\ rt'[d].stop = NoConn
    BY <1>0, <1>1 DEF RecTypeOK, Removed, NoConn
<1>4. /\ link' \in [DestIds -> LinkRec] /\ link'[d] = Fresh /\ \A e \in DestIds \ {d} : link'[e] = link[e]
      /\ off' \in [DestIds -> {"no", "retrying", "needs", "gone"}] /\ off'[d] = "gone"
      /\ \A e \in DestIds \ {d} : off'[e] = off[e]
    BY <1>0, <1>1, <1>2 DEF RecTypeOK
<1>5. RecTypeOK'
    BY <1>0, <1>1, <1>3, <1>4 DEF RecTypeOK
<1>6. Known'
    <2>1. \A e \in DestIds : rt'[e].conn <= opened'
        <3> SUFFICES ASSUME NEW e \in DestIds
                     PROVE  rt'[e].conn <= opened
            BY <1>1
        <3>1. opened \in Nat /\ rt[e].conn <= opened
            BY <1>0 DEF Known, RecTypeOK
        <3>2. rt'[e].conn = rt[e].conn \/ rt'[e].conn = 0
            BY <1>3 DEF NoConn
        <3> QED
            BY <3>1, <3>2
    <2> QED
        BY <1>0, <1>1, <2>1 DEF Known
<1>7. Owned => Owned'
    BY <1>1, <1>3 DEF Owned
<1>8. EndsAt(d)' /\ OneToken(d)'
    BY <1>1, <1>2, <1>3, <1>4 DEF EndsAt, OneToken, Ladder
<1>9. \A e \in DestIds \ {d} : EndsSpared(e)
    BY <1>1, <1>3, <1>4 DEF EndsSpared, Queued
<1>10. \A e \in DestIds \ {d} : TokenSpared(e)
    BY <1>1, <1>3, <1>4 DEF TokenSpared, TicksOf, DialsOf, ResultsOf
<1> QED
    BY <1>0, <1>1, <1>5, <1>6, <1>7, <1>8, <1>9, <1>10, OneDestStep

\* The invariant at launch, whatever set of hosts is reachable.
LEMMA RecInitInv == RecInit => RecInv
<1> SUFFICES ASSUME RecInit
             PROVE  RecInv
    OBVIOUS
<1>1. PICK up \in SUBSET Hosts :
        LET n == Cardinality(up) + 1
        IN  /\ \E f \in [up \cup {Local} -> 1 .. n] :
                 /\ f[Local] = 1 /\ \A c \in 1 .. n : \E d \in DOMAIN f : f[d] = c
                 /\ rt = [d \in DestIds |-> IF d \in DOMAIN f THEN [conn |-> f[d], stop |-> f[d]]
                                            ELSE [conn |-> NoConn, stop |-> NoConn]]
            /\ pumps = {[d |-> d, c |-> rt[d].conn] : d \in up \cup {Local}}
            /\ opened = n /\ open = 1 .. n
            /\ \E k \in {"retrying", "needs"} :
                 off = [d \in DestIds |-> IF d \in up \cup {Local} THEN "no" ELSE k]
    BY DEF RecInit
<1> DEFINE n == Cardinality(up) + 1
           Up == up \cup {Local}
<1>2. n \in Nat \ {0}
    BY FS_Subset, FS_CardinalityType, ReconnectAssumption
<1>3. PICK f \in [Up -> 1 .. n] :
        /\ \A c \in 1 .. n : \E d \in Up : f[d] = c
        /\ rt = [d \in DestIds |-> IF d \in Up THEN [conn |-> f[d], stop |-> f[d]]
                                   ELSE [conn |-> NoConn, stop |-> NoConn]]
    BY <1>1
<1>4. /\ pumps = {[d |-> d, c |-> rt[d].conn] : d \in Up} /\ opened = n /\ open = 1 .. n
      /\ \E k \in {"retrying", "needs"} : off = [d \in DestIds |-> IF d \in Up THEN "no" ELSE k]
    BY <1>1
<1>5. /\ inCh = <<>> /\ ticks = {} /\ dials = {} /\ results = {} /\ redial = DestIds
      /\ link = [d \in DestIds |-> Fresh]
    BY DEF RecInit
<1>6. Up \subseteq DestIds
    BY DEF DestIds
<1> HIDE DEF n, Up
<1>7. \A d \in DestIds : IF d \in Up THEN rt[d].conn = f[d] /\ rt[d].stop = f[d] /\ f[d] \in 1 .. n
                                     ELSE rt[d].conn = NoConn /\ rt[d].stop = NoConn
    BY <1>3
<1>8. Fresh \in LinkRec /\ ~Fresh.active
    BY DEF Fresh, LinkRec
<1>9. RecTypeOK
    <2>1. rt \in [DestIds -> [conn : Nat, stop : Nat]]
        BY <1>2, <1>3 DEF NoConn
    <2>2. pumps \subseteq [d : DestIds, c : Nat]
        BY <1>2, <1>4, <1>6, <1>7
    <2>3. link \in [DestIds -> LinkRec]
        BY <1>5, <1>8
    <2>4. off \in [DestIds -> {"no", "retrying", "needs", "gone"}]
        BY <1>4
    <2>5. inCh \in Seq(DestIds)
        BY <1>5
    <2> QED
        BY <1>2, <1>4, <1>5, <2>1, <2>2, <2>3, <2>4, <2>5 DEF RecTypeOK
<1>10. Known
    BY <1>2, <1>4, <1>5, <1>7 DEF Known, NoConn
<1>11. Owned
    BY <1>3, <1>4, <1>6, <1>7 DEF Owned
<1>12. ASSUME NEW d \in DestIds
       PROVE  EndsAt(d) /\ OneToken(d)
    <2>1. off[d] # "gone" /\ (off[d] = "no" <=> d \in Up)
        BY <1>4
    <2>2. ~link[d].active
        BY <1>5, <1>8
    <2>3. d \in Up => rt[d].conn # NoConn /\ rt[d].stop = rt[d].conn /\ [d |-> d, c |-> rt[d].stop] \in pumps
        BY <1>2, <1>4, <1>7 DEF NoConn
    <2>4. d \notin Up => rt[d].stop = NoConn
        BY <1>7
    <2>5. EndsAt(d)
        BY <2>1, <2>2, <2>3, <2>4 DEF EndsAt
    <2>6. OneToken(d)
        BY <1>5, <2>2 DEF OneToken, Ladder, TicksOf, DialsOf, ResultsOf
    <2> QED
        BY <2>5, <2>6
<1> QED
    BY <1>9, <1>10, <1>11, <1>12 DEF RecInv

\* Every step keeps the invariant.
LEMMA RecStep ==
    ASSUME RecInv, [RecNext]_recVars
    PROVE  RecInv'
<1>1. CASE UNCHANGED recVars
    BY <1>1, SameStep DEF recVars
<1>2. CASE \E c \in 1 .. MaxConns : LinkDies(c)
    BY <1>2, SameStep DEF LinkDies, rest
<1>3. CASE \E p \in pumps : Pump(p)
    BY <1>3, PumpStep
<1>4. CASE LinkLost
    BY <1>4, LostStep
<1>5. CASE \E t \in ticks : RedialTick(t)
    BY <1>5, TickStep
<1>6. CASE \E x \in dials : Redial(x)
    BY <1>6, DialStep
<1>7. CASE \E r \in results : RedialResult(r)
    BY <1>7, ResultStep
<1>8. CASE \E d \in DestIds : ResumeReconnect(d)
    BY <1>8, ResumeStep
<1>9. ASSUME NEW d \in Hosts, WakeOffline(d) \/ RetryOffline(d) \/ StateReaches(d) \/ FormDials(d)
                              \/ DestDialed(d) \/ Disconnect(d)
      PROVE  RecInv'
    <2>0. d \in DestIds
        BY DEF DestIds
    <2>1. CASE FormDials(d)
        BY <2>1, SameStep DEF FormDials, conv
    <2> QED
        BY <1>9, <2>0, <2>1, WakeStep, RetryStep, ReachStep, DialedStep, DisconnectStep
<1> QED
    BY <1>1, <1>2, <1>3, <1>4, <1>5, <1>6, <1>7, <1>8, <1>9 DEF RecNext

\* The invariant is what LinksTended says, and more.
LEMMA RecInvTends == RecInv => LinksTended
<1> SUFFICES ASSUME RecInv, ~beside
             PROVE  /\ \A d \in DestIds : link[d].active /\ ~link[d].parked =>
                         \/ \E t \in ticks : t.d = d /\ t.gen = link[d].gen /\ t.attempt = link[d].attempt
                         \/ \E x \in dials \cup results : x.d = d /\ x.gen = link[d].gen
                    /\ \A d \in DestIds : off[d] = "no" /\ ~link[d].active =>
                         \/ rt[d].stop # NoConn /\ rt[d].stop = rt[d].conn /\ [d |-> d, c |-> rt[d].stop] \in pumps
                         \/ \E i \in DOMAIN inCh : inCh[i] = d
                    /\ open \subseteq {rt[d].conn : d \in DestIds} \cup {r.c : r \in results}
    BY DEF LinksTended
<1>1. Owned /\ \A d \in DestIds : EndsAt(d) /\ OneToken(d)
    BY DEF RecInv
<1>2. ASSUME NEW d \in DestIds, link[d].active, ~link[d].parked
      PROVE  \/ \E t \in ticks : t.d = d /\ t.gen = link[d].gen /\ t.attempt = link[d].attempt
             \/ \E x \in dials \cup results : x.d = d /\ x.gen = link[d].gen
    <2>1. off[d] # "gone" /\ OneToken(d) /\ Ladder(d)
        BY <1>1, <1>2 DEF EndsAt, Ladder
    <2>2. CASE \E t \in TicksOf(d) : TRUE
        BY <2>1, <2>2 DEF OneToken, TicksOf
    <2>3. CASE \E x \in DialsOf(d) : TRUE
        BY <2>1, <2>3 DEF OneToken, DialsOf
    <2>4. CASE \E r \in ResultsOf(d) : TRUE
        BY <2>1, <2>4 DEF OneToken, ResultsOf
    <2> QED
        BY <2>1, <2>2, <2>3, <2>4 DEF OneToken
<1>3. ASSUME NEW d \in DestIds, off[d] = "no", ~link[d].active
      PROVE  \/ rt[d].stop # NoConn /\ rt[d].stop = rt[d].conn /\ [d |-> d, c |-> rt[d].stop] \in pumps
             \/ \E i \in DOMAIN inCh : inCh[i] = d
    BY <1>1, <1>3 DEF EndsAt, Queued
<1> QED
    BY <1>1, <1>2, <1>3 DEF Owned

\* Whatever ticks, dials, results, losses, retries and disconnects cross, a link that
\* is down and not parked has its next step under way, a link that is up has its pump
\* or its loss queued, and no open connection is left without an owner, for any finite
\* set of hosts and any number of connections and failed dials.
THEOREM LinksAreTended == RecSpec => []LinksTended
<1>1. RecInit => RecInv
    BY RecInitInv
<1>2. RecInv /\ [RecNext]_recVars => RecInv'
    BY RecStep
<1>3. RecInv => LinksTended
    BY RecInvTends
<1> QED
    BY <1>1, <1>2, <1>3, PTL DEF RecSpec

-----------------------------------------------------------------------------
(* What a screen shows                                                       *)

\* The stages of a child's life, and of the restore snapshot.
ChildOK ==
    /\ DOMAIN pane = {"snap", "buf", "seeded", "gen", "pty", "alt", "restart", "wrote", "own", "key"}
    /\ pane.snap \in BOOLEAN /\ pane.seeded \in BOOLEAN /\ pane.pty \in BOOLEAN /\ pane.wrote \in BOOLEAN
    /\ pane.gen \in Nat /\ pane.buf \in Seq(Nat)
    /\ pane.restart \in {"none", "closed", "reset"}
    /\ pane.pty => pane.restart = "none" /\ pane.gen > 0
    /\ pane.wrote => ~pane.seeded /\ pane.gen > 0
    /\ snapTaken \in Nat /\ (snapTaken > 0 => ~pane.snap)

\* Whose bytes the buffer holds.
Held == ToSet(pane.buf)
BufferOK ==
    /\ pane.seeded => Held \subseteq {Previous}
    /\ ~pane.seeded => Held \subseteq {pane.gen}
    /\ ~pane.seeded /\ ~pane.pty /\ pane.restart # "closed" => Held = {}

\* Frames on their way: a late replay has nothing of the previous session.
Lives == {f \in [kind : {"live"}, gens : SUBSET Nat, late : {FALSE}, conn : Nat] :
             \E g \in Nat : g > 0 /\ f.gens = {g}}
Ghosts == {f \in [kind : {"ghost"}, gens : SUBSET Nat, late : BOOLEAN, conn : Nat] :
             f.late => Previous \notin f.gens}
Replays == {r \in [viewer : Viewers, conn : Nat, gens : SUBSET Nat, out : BOOLEAN, late : BOOLEAN] :
             r.late => Previous \notin r.gens}
FramesOK ==
    /\ replays \subseteq Replays
    /\ DOMAIN lanes = Viewers
    /\ \A v \in Viewers : lanes[v] \in [crit : Seq(Ghosts), out : Seq(Lives)]

\* A screen: its live bytes of this connection are of the child the client is
\* at, and until the reset is performed no replay of this connection is on it.
ViewRec == [up : BOOLEAN, conn : {1, 2}, gen : Nat, reset : BOOLEAN, ghost : BOOLEAN, top : Nat,
            screen : SUBSET [gen : Nat, kind : {"live", "ghost"}, late : BOOLEAN, conn : {1, 2}]]
ScreenOK(e) ==
    /\ e.top = e.gen
    /\ ~e.up => e.conn = 1
    /\ \A b \in e.screen :
         /\ b.conn <= e.conn
         /\ b.late => b.gen # Previous
         /\ b.kind = "live" => b.gen > 0
         /\ b.kind = "live" /\ b.conn = e.conn => b.gen = e.gen
         /\ ~e.reset => b.conn = e.conn
         /\ e.reset /\ b.conn = e.conn => b.kind = "live"
ViewsOK ==
    /\ DOMAIN view = Viewers
    /\ \A v \in Viewers : view[v] \in ViewRec /\ ScreenOK(view[v])

\* The inductive invariant.
ReplayInv == ChildOK /\ BufferOK /\ FramesOK /\ ViewsOK

\* A screen whose live bytes of this connection are child g's.
OneChildOn(n, g) ==
    \A b \in n.screen :
      /\ b.conn <= n.conn /\ (b.late => b.gen # Previous) /\ (b.kind = "live" => b.gen > 0)
      /\ b.kind = "live" /\ b.conn = n.conn => b.gen = g
      /\ ~n.reset => b.conn = n.conn
      /\ n.reset /\ b.conn = n.conn => b.kind = "live"

\* One more live byte, of the child the screen is at.
LEMMA LiveOnTop ==
  ASSUME NEW n \in ViewRec, NEW g \in Nat, g > 0, n.gen = g, n.top <= g, ~n.up => n.conn = 1,
         OneChildOn(n, g),
         NEW new, new = {[gen |-> g, kind |-> "live", late |-> FALSE, conn |-> n.conn]},
         NEW e, e = [n EXCEPT !.ghost = FALSE, !.top = IF g > @ THEN g ELSE @, !.screen = @ \cup new]
  PROVE  e \in ViewRec /\ ScreenOK(e)
  <1>1. new \subseteq [gen : Nat, kind : {"live", "ghost"}, late : BOOLEAN, conn : {1, 2}]
    BY DEF ViewRec
  <1>2. n.top \in Nat /\ n.screen \in SUBSET [gen : Nat, kind : {"live", "ghost"}, late : BOOLEAN, conn : {1, 2}]
    BY DEF ViewRec
  <1>3. PICK t, shown : t = (IF g > n.top THEN g ELSE n.top) /\ shown = n.screen \cup new
    OBVIOUS
  <1>4. t = g
    BY <1>2, <1>3
  <1>5. shown \in SUBSET [gen : Nat, kind : {"live", "ghost"}, late : BOOLEAN, conn : {1, 2}]
    BY <1>1, <1>2, <1>3
  <1>6. e = [n EXCEPT !.ghost = FALSE, !.top = t, !.screen = shown]
    BY <1>3 DEF ViewRec
  <1>7. e \in ViewRec
    BY <1>4, <1>5, <1>6 DEF ViewRec
  <1>8. e.top = g /\ e.gen = g /\ e.up = n.up /\ e.conn = n.conn /\ e.reset = n.reset /\ e.screen = shown
    BY <1>4, <1>6 DEF ViewRec
  <1>9. n.conn \in Nat
    BY DEF ViewRec
  <1>10. ASSUME NEW b \in shown
         PROVE  /\ b.conn <= n.conn /\ (b.late => b.gen # Previous) /\ (b.kind = "live" => b.gen > 0)
                /\ b.kind = "live" /\ b.conn = n.conn => b.gen = g
                /\ ~n.reset => b.conn = n.conn
                /\ n.reset /\ b.conn = n.conn => b.kind = "live"
    <2>1. CASE b \in n.screen
      BY <2>1 DEF OneChildOn
    <2>2. CASE b = [gen |-> g, kind |-> "live", late |-> FALSE, conn |-> n.conn]
      BY <1>9, <2>2
    <2> QED BY <1>3, <2>1, <2>2
  <1> QED BY <1>7, <1>8, <1>10 DEF ScreenOK

\* What a client draws keeps its screen.
LEMMA LiveDrawn ==
  ASSUME NEW v \in Viewers, view[v] \in ViewRec, ScreenOK(view[v]), view[v].up,
         NEW f \in Lives, NEW e, e = handlePaneOutput(v, f)
  PROVE  e \in ViewRec /\ ScreenOK(e)
  <1>1. PICK d : d = view[v]
    OBVIOUS
  <1>2. PICK g \in Nat : g > 0 /\ f.gens = {g}
    BY DEF Lives
  <1>3. f.kind = "live" /\ f.late = FALSE /\ (CHOOSE x \in f.gens : TRUE) = g
    BY <1>2 DEF Lives
  <1>4. d \in ViewRec /\ ScreenOK(d) /\ d.up
    BY <1>1
  <1>5. CASE ~(g >= d.gen)
    <2>1. e = d
      BY <1>1, <1>3, <1>5 DEF handlePaneOutput, acceptOutputGeneration
    <2> QED BY <1>4, <2>1
  <1>6. CASE g >= d.gen
    <2>1. PICK new : new = Drawn(v, f)
      OBVIOUS
    <2>2. new = {[gen |-> g, kind |-> "live", late |-> FALSE, conn |-> d.conn]}
      BY <1>1, <1>2, <1>3, <2>1 DEF Drawn
    <2>3. d.top = d.gen /\ d.gen \in Nat
      BY <1>4 DEF ViewRec, ScreenOK
    <2>4. CASE d.gen # 0 /\ g # d.gen
      <3>1. PICK n : n = newGeneration(view[v], CHOOSE x \in f.gens : TRUE)
        OBVIOUS
      <3>2. n = [d EXCEPT !.screen = {}, !.ghost = FALSE, !.reset = FALSE, !.gen = g]
        BY <1>1, <1>3, <1>4, <2>4, <3>1 DEF newGeneration, resetForReattach, ViewRec
      <3>3. e = [n EXCEPT !.ghost = FALSE, !.top = IF g > @ THEN g ELSE @, !.screen = @ \cup new]
        <4>1. acceptOutputGeneration(view[v], CHOOSE x \in f.gens : TRUE)
          BY <1>1, <1>3, <1>6 DEF acceptOutputGeneration
        <4>2. e = [newGeneration(view[v], CHOOSE x \in f.gens : TRUE) EXCEPT
                     !.ghost = FALSE, !.top = IF (CHOOSE x \in f.gens : TRUE) > @ THEN CHOOSE x \in f.gens : TRUE ELSE @,
                     !.screen = @ \cup Drawn(v, f)]
          BY <1>3, <4>1 DEF handlePaneOutput
        <4> QED BY <1>3, <2>1, <3>1, <4>2
      <3>4. n \in ViewRec /\ n.gen = g /\ n.top = d.top /\ n.screen = {} /\ n.reset = FALSE /\ n.conn = d.conn /\ n.up = d.up
        BY <1>4, <3>2 DEF ViewRec
      <3>5. OneChildOn(n, g)
        BY <3>4 DEF OneChildOn
      <3>6. (~n.up => n.conn = 1) /\ n.top <= g
        BY <1>4, <1>6, <2>3, <3>4 DEF ScreenOK
      <3> QED BY <1>2, <2>2, <3>3, <3>4, <3>5, <3>6, LiveOnTop
    <2>5. CASE d.gen = 0 \/ g = d.gen
      <3>1. PICK n : n = newGeneration(view[v], CHOOSE x \in f.gens : TRUE)
        OBVIOUS
      <3>2. n = [d EXCEPT !.gen = g]
        BY <1>1, <1>3, <1>4, <2>5, <3>1 DEF newGeneration, ViewRec
      <3>3. e = [n EXCEPT !.ghost = FALSE, !.top = IF g > @ THEN g ELSE @, !.screen = @ \cup new]
        <4>1. acceptOutputGeneration(view[v], CHOOSE x \in f.gens : TRUE)
          BY <1>1, <1>3, <1>6 DEF acceptOutputGeneration
        <4>2. e = [newGeneration(view[v], CHOOSE x \in f.gens : TRUE) EXCEPT
                     !.ghost = FALSE, !.top = IF (CHOOSE x \in f.gens : TRUE) > @ THEN CHOOSE x \in f.gens : TRUE ELSE @,
                     !.screen = @ \cup Drawn(v, f)]
          BY <1>3, <4>1 DEF handlePaneOutput
        <4> QED BY <1>3, <2>1, <3>1, <4>2
      <3>4. n \in ViewRec /\ n.gen = g /\ n.top = d.top /\ n.screen = d.screen /\ n.reset = d.reset /\ n.conn = d.conn /\ n.up = d.up
        BY <1>4, <3>2 DEF ViewRec
      <3>5. \A b \in d.screen : b.kind = "live" /\ b.conn = d.conn => b.gen = g
        BY <1>4, <2>5 DEF ScreenOK
      <3>6. OneChildOn(n, g)
        BY <1>4, <3>4, <3>5 DEF ScreenOK, OneChildOn
      <3>7. (~n.up => n.conn = 1) /\ n.top <= g
        BY <1>4, <1>6, <2>3, <3>4 DEF ScreenOK
      <3>8. new = {[gen |-> g, kind |-> "live", late |-> FALSE, conn |-> n.conn]}
        BY <2>2, <3>4
      <3>9. n \in ViewRec /\ n.gen = g
        BY <3>4
      <3> QED BY <1>2, <3>3, <3>6, <3>7, <3>8, <3>9, LiveOnTop
    <2> QED BY <2>4, <2>5
  <1> QED BY <1>5, <1>6

\* ... and so does what it replays.
LEMMA GhostDrawn ==
  ASSUME NEW v \in Viewers, view[v] \in ViewRec, ScreenOK(view[v]), view[v].up,
         NEW f \in Ghosts, NEW e, e = handlePaneOutput(v, f)
  PROVE  e \in ViewRec /\ ScreenOK(e)
  <1>1. PICK d, new : d = view[v] /\ new = Drawn(v, f)
    OBVIOUS
  <1>2. f.kind = "ghost" /\ f.gens \subseteq Nat /\ f.late \in BOOLEAN /\ (f.late => Previous \notin f.gens)
    BY DEF Ghosts
  <1>3. d \in ViewRec /\ ScreenOK(d) /\ d.up
    BY <1>1
  <1>4. /\ new \subseteq [gen : Nat, kind : {"live", "ghost"}, late : BOOLEAN, conn : {1, 2}]
        /\ \A b \in new : b.kind = "ghost" /\ b.conn = d.conn /\ (b.late => b.gen # Previous)
    BY <1>1, <1>2, <1>3 DEF Drawn, ViewRec
  <1>5. e = [d EXCEPT !.reset = FALSE, !.ghost = TRUE, !.screen = (IF d.reset THEN {} ELSE d.screen) \cup new]
    BY <1>1, <1>2, <1>3 DEF handlePaneOutput, resetForReattach, ViewRec
  <1>6. PICK shown : shown = (IF d.reset THEN {} ELSE d.screen) \cup new
    OBVIOUS
  <1>7. shown \in SUBSET [gen : Nat, kind : {"live", "ghost"}, late : BOOLEAN, conn : {1, 2}]
    BY <1>3, <1>4, <1>6 DEF ViewRec
  <1>8. e = [d EXCEPT !.reset = FALSE, !.ghost = TRUE, !.screen = shown]
    BY <1>5, <1>6
  <1>9. e \in ViewRec
    BY <1>3, <1>7, <1>8 DEF ViewRec
  <1>10. e.top = d.top /\ e.gen = d.gen /\ e.up = d.up /\ e.conn = d.conn /\ e.reset = FALSE /\ e.screen = shown
    BY <1>3, <1>8 DEF ViewRec
  <1>11. d.conn \in Nat
    BY <1>3 DEF ViewRec
  <1>12. ASSUME NEW b \in shown
         PROVE  /\ b.conn = d.conn /\ (b.late => b.gen # Previous) /\ (b.kind = "live" => b.gen > 0)
                /\ b.kind = "live" /\ b.conn = d.conn => b.gen = d.gen
    <2>1. CASE b \in new
      BY <1>4, <2>1
    <2>2. CASE b \in d.screen /\ ~d.reset
      BY <1>3, <2>2 DEF ScreenOK
    <2> QED BY <1>6, <2>1, <2>2
  <1>13. d.top = d.gen /\ (~d.up => d.conn = 1)
    BY <1>3 DEF ScreenOK
  <1> QED BY <1>9, <1>10, <1>11, <1>12, <1>13 DEF ScreenOK

\* The daemon's side: its pane and what an attach takes from it.
LEMMA BufferKept ==
  ASSUME ReplayInv, ReplayNext
  PROVE  ChildOK' /\ BufferOK'
  <1> USE DEF ReplayInv, ChildOK
  <1>1. CASE SpawnChild
    <2>1. pane' = [pane EXCEPT !.pty = TRUE, !.gen = pane.gen + 1, !.restart = "none", !.wrote = FALSE, !.alt = FALSE]
      BY <1>1 DEF SpawnChild
    <2>2. /\ pane'.buf = pane.buf /\ pane'.seeded = pane.seeded /\ pane'.wrote = FALSE /\ pane'.gen = pane.gen + 1
          /\ pane'.pty = TRUE /\ pane'.restart = "none" /\ pane'.snap = pane.snap /\ DOMAIN pane' = DOMAIN pane
      BY <2>1
    <2>3. ~pane.pty /\ pane.restart # "closed" /\ snapTaken' = snapTaken
      BY <1>1 DEF SpawnChild
    <2>4. ChildOK'
      <3>1. pane.gen \in Nat /\ pane.gen + 1 \in Nat /\ pane.gen + 1 > 0
        OBVIOUS
      <3>2. /\ pane'.snap \in BOOLEAN /\ pane'.seeded \in BOOLEAN /\ pane'.buf \in Seq(Nat)
            /\ DOMAIN pane' = {"snap", "buf", "seeded", "gen", "pty", "alt", "restart", "wrote", "own", "key"}
            /\ snapTaken' \in Nat /\ (snapTaken' > 0 => ~pane'.snap)
        BY <2>2, <2>3
      <3>3. /\ pane'.pty \in BOOLEAN /\ pane'.wrote \in BOOLEAN /\ ~pane'.wrote
            /\ pane'.restart = "none" /\ pane'.gen \in Nat /\ pane'.gen > 0
        BY <2>2, <3>1
      <3> QED BY <3>2, <3>3
    <2>5. BufferOK'
      BY <2>2, <2>3 DEF BufferOK, Held
    <2> QED BY <2>4, <2>5
  <1>2. CASE RestartPane
    <2>1. /\ pane'.buf = pane.buf /\ pane'.seeded = pane.seeded /\ pane'.wrote = pane.wrote
          /\ pane'.gen = pane.gen /\ pane'.pty = FALSE /\ pane'.restart = "closed"
          /\ pane'.snap = pane.snap /\ DOMAIN pane' = DOMAIN pane /\ snapTaken' = snapTaken
      BY <1>2 DEF RestartPane
    <2>2. ChildOK'
      BY <2>1
    <2>3. BufferOK'
      BY <2>1 DEF BufferOK, Held
    <2> QED BY <2>2, <2>3
  <1>3. CASE RestartClearsBuffer
    BY <1>3 DEF RestartClearsBuffer, BufferOK, Held, ToSet
  <1>4. CASE AltScreen
    BY <1>4 DEF AltScreen, BufferOK, Held, ToSet
  <1>5. ASSUME NEW g \in Children, FlushToBuffer(g) PROVE ChildOK' /\ BufferOK'
    <2>1. CASE UNCHANGED <<pane, snapTaken>>
      BY <2>1 DEF BufferOK, Held
    <2>2. CASE g = pane.gen /\ pane.pty
      <3>1. PICK s, t : s = pane.buf /\ t = IF pane.seeded THEN <<g>> ELSE Append(s, g)
        OBVIOUS
      <3>2. s \in Seq(Nat) /\ g \in Nat /\ g > 0
        BY <2>2, <3>1
      <3>3. pane' = [pane EXCEPT !.buf = t, !.seeded = FALSE, !.wrote = TRUE] /\ snapTaken' = snapTaken
        BY <1>5, <2>2, <3>1 DEF FlushToBuffer
      <3>4. t \in Seq(Nat) /\ ToSet(t) \subseteq {g}
        <4>1. CASE pane.seeded
          <5>1. t = <<g>>
            BY <3>1, <4>1
          <5> QED BY <3>2, <5>1 DEF ToSet
        <4>2. CASE ~pane.seeded
          <5>1. t = Append(s, g) /\ ToSet(s) \subseteq {g}
            BY <2>2, <3>1, <4>2 DEF BufferOK, Held
          <5>2. t \in Seq(Nat)
            BY <3>2, <5>1
          <5>3. \A i \in 1 .. Len(t) : t[i] = g
            <6>1. Len(t) = Len(s) + 1 /\ t[Len(s) + 1] = g /\ \A i \in 1 .. Len(s) : t[i] = s[i]
              BY <3>2, <5>1
            <6>2. \A i \in 1 .. Len(s) : s[i] = g
              <7>1. DOMAIN s = 1 .. Len(s)
                BY <3>2
              <7>2. \A i \in DOMAIN s : s[i] \in ToSet(s)
                BY DEF ToSet
              <7> QED BY <5>1, <7>1, <7>2
            <6>3. Len(s) \in Nat
              BY <3>2
            <6> QED BY <6>1, <6>2, <6>3
          <5> QED BY <5>2, <5>3 DEF ToSet
        <4> QED BY <4>1, <4>2
      <3>5. /\ pane'.buf = t /\ pane'.seeded = FALSE /\ pane'.wrote = TRUE /\ pane'.gen = g
            /\ pane'.pty = TRUE /\ pane'.restart = pane.restart /\ pane'.snap = pane.snap /\ DOMAIN pane' = DOMAIN pane
        BY <2>2, <3>3
      <3>6. ChildOK'
        BY <2>2, <3>2, <3>3, <3>4, <3>5
      <3>7. BufferOK'
        BY <3>4, <3>5 DEF BufferOK, Held
      <3> QED BY <3>6, <3>7
    <2> QED BY <1>5, <2>1, <2>2 DEF FlushToBuffer
  <1>6. ASSUME NEW v \in Viewers, HandleAttach(v) PROVE ChildOK' /\ BufferOK'
    BY <1>6 DEF HandleAttach, SnapAfter, BufferOK, Held
  <1>7. CASE UNCHANGED <<pane, snapTaken>>
    BY <1>7 DEF BufferOK, Held
  <1>8. ASSUME NEW g \in Children, StreamReads(g) \/ FlushBroadcasts(g) PROVE UNCHANGED <<pane, snapTaken>>
    BY <1>8 DEF StreamReads, FlushBroadcasts
  <1>9. ASSUME NEW v \in Viewers, Receive(v) \/ ReplayLinkLost(v) \/ armReattachReset(v)
        PROVE  UNCHANGED <<pane, snapTaken>>
    BY <1>9 DEF Receive, ReplayLinkLost, armReattachReset
  <1>10. ASSUME NEW r \in replays, SendGhostChunked(r) PROVE UNCHANGED <<pane, snapTaken>>
    BY <1>10 DEF SendGhostChunked
  <1> QED BY <1>1, <1>2, <1>3, <1>4, <1>5, <1>6, <1>7, <1>8, <1>9, <1>10 DEF ReplayNext

\* What is on its way.
LEMMA FramesKept ==
  ASSUME ReplayInv, ReplayNext
  PROVE  FramesOK'
  <1>1. CASE UNCHANGED <<replays, lanes>>
    BY <1>1 DEF ReplayInv, FramesOK
  <1>2. ASSUME NEW g \in Children, FlushBroadcasts(g) PROVE FramesOK'
    <2>1. g \in Nat /\ g > 0
      BY ReplayAssumption DEF Children
    <2>2. ASSUME NEW v \in Viewers PROVE lanes'[v] \in [crit : Seq(Ghosts), out : Seq(Lives)]
      <3>1. PICK f : f = Frame(v, "live", {g}, FALSE)
        OBVIOUS
      <3>2. view[v].conn \in Nat
        BY DEF ReplayInv, ViewsOK, ViewRec
      <3>3. f \in Lives
        BY <2>1, <3>1, <3>2 DEF Frame, Lives
      <3>4. lanes[v] \in [crit : Seq(Ghosts), out : Seq(Lives)]
        BY DEF ReplayInv, FramesOK
      <3>5. lanes'[v] = lanes[v] \/ lanes'[v] = [lanes[v] EXCEPT !.out = Append(lanes[v].out, f)]
        BY <1>2, <3>1 DEF FlushBroadcasts
      <3>6. Append(lanes[v].out, f) \in Seq(Lives)
        BY <3>3, <3>4
      <3> QED BY <3>4, <3>5, <3>6
    <2> QED BY <1>2, <2>2 DEF FlushBroadcasts, ReplayInv, FramesOK
  <1>3. ASSUME NEW v \in Viewers, HandleAttach(v) PROVE FramesOK'
    <2>1. PICK gens, src : gens = ReplayBytes /\ src = ReplaySource
      OBVIOUS
    <2>2. PICK r : r = [viewer |-> v, conn |-> view[v].conn, gens |-> gens, out |-> src = "ghostsnap",
                        late |-> snapTaken > 0 /\ pane.wrote]
      OBVIOUS
    <2>3. replays' \subseteq replays \cup {r} /\ lanes' = lanes
      BY <1>3, <2>1, <2>2 DEF HandleAttach
    <2>4. gens \subseteq Nat
      <3>1. Held \subseteq Nat
        BY DEF ReplayInv, ChildOK, Held, ToSet
      <3>2. gens = {} \/ gens = Held \/ gens = {Previous}
        BY <2>1 DEF ReplayBytes, ReplaySource, Held, ReplayInv, ChildOK
      <3>3. Previous \in Nat
        BY DEF Previous
      <3> QED BY <3>1, <3>2, <3>3
    <2>5. snapTaken > 0 /\ pane.wrote => Previous \notin gens
      <3>1. SUFFICES ASSUME snapTaken > 0, pane.wrote PROVE Previous \notin gens
        OBVIOUS
      <3>2. ~pane.snap /\ ~pane.seeded /\ pane.gen > 0
        BY <3>1 DEF ReplayInv, ChildOK
      <3>3. Held \subseteq {pane.gen}
        BY <3>2 DEF ReplayInv, BufferOK
      <3>4. gens = {} \/ gens = Held
        BY <2>1, <3>2 DEF ReplayBytes, ReplaySource, Held
      <3> QED BY <3>2, <3>3, <3>4 DEF Previous
    <2>6. r \in Replays
      <3>1. view[v].conn \in Nat /\ pane.wrote \in BOOLEAN /\ snapTaken \in Nat
        BY DEF ReplayInv, ViewsOK, ViewRec, ChildOK
      <3> QED BY <2>2, <2>4, <2>5, <3>1 DEF Replays
    <2> QED BY <2>3, <2>6 DEF ReplayInv, FramesOK
  <1>4. ASSUME NEW r \in replays, SendGhostChunked(r) PROVE FramesOK'
    <2>1. PICK v : v = r.viewer
      OBVIOUS
    <2>2. PICK f, w : f = Frame(v, "ghost", r.gens, r.late) /\ w = Frame(v, "ghost", {}, FALSE)
      OBVIOUS
    <2>3. r \in Replays
      BY DEF ReplayInv, FramesOK
    <2>4. v \in Viewers /\ view[v].conn \in Nat
      BY <2>1, <2>3 DEF Replays, ReplayInv, ViewsOK, ViewRec
    <2>5. f \in Ghosts /\ w \in Ghosts
      BY <2>2, <2>3, <2>4 DEF Frame, Ghosts, Replays
    <2>6. PICK more : more = <<f>> \o (IF r.out THEN <<w>> ELSE <<>>)
      OBVIOUS
    <2>7. more \in Seq(Ghosts)
      BY <2>5, <2>6
    <2>8. PICK q : q = lanes[v].crit \o more
      OBVIOUS
    <2>9. lanes[v] \in [crit : Seq(Ghosts), out : Seq(Lives)]
      BY <2>4 DEF ReplayInv, FramesOK
    <2>10. q \in Seq(Ghosts)
      BY <2>7, <2>8, <2>9
    <2>11. replays' \subseteq replays /\ (lanes' = lanes \/ lanes' = [lanes EXCEPT ![v].crit = q])
      <3>1. lanes[v].crit \o <<f>> \o (IF r.out THEN <<w>> ELSE <<>>) = q
        <4>1. PICK c, a, b : c = lanes[v].crit /\ a = <<f>> /\ b = IF r.out THEN <<w>> ELSE <<>>
          OBVIOUS
        <4>2. c \in Seq(Ghosts) /\ a \in Seq(Ghosts) /\ b \in Seq(Ghosts)
          BY <2>5, <2>9, <4>1
        <4>3. (c \o a) \o b = c \o (a \o b)
          BY <4>2, ConcatAssociative
        <4> QED BY <2>6, <2>8, <4>1, <4>3
      <3> QED BY <1>4, <2>1, <2>2, <3>1 DEF SendGhostChunked
    <2> QED BY <2>4, <2>9, <2>10, <2>11 DEF ReplayInv, FramesOK
  <1>5. ASSUME NEW v \in Viewers, Receive(v) PROVE FramesOK'
    <2>1. lanes[v] \in [crit : Seq(Ghosts), out : Seq(Lives)] /\ DOMAIN lanes = Viewers
      BY DEF ReplayInv, FramesOK
    <2>2. PICK c, o : c = Tail(lanes[v].crit) /\ o = Tail(lanes[v].out)
      OBVIOUS
    <2>3. (lanes[v].crit # <<>> => c \in Seq(Ghosts)) /\ (lanes[v].out # <<>> => o \in Seq(Lives))
      BY <2>1, <2>2
    <2>4. \/ lanes[v].crit # <<>> /\ lanes' = [lanes EXCEPT ![v].crit = c]
          \/ lanes[v].out # <<>> /\ lanes' = [lanes EXCEPT ![v].out = o]
      BY <1>5, <2>2 DEF Receive
    <2>5. lanes'[v] \in [crit : Seq(Ghosts), out : Seq(Lives)]
      BY <2>1, <2>3, <2>4
    <2> QED BY <1>5, <2>1, <2>4, <2>5 DEF Receive, ReplayInv, FramesOK
  <1>6. ASSUME NEW v \in Viewers, ReplayLinkLost(v) PROVE FramesOK'
    BY <1>6 DEF ReplayLinkLost, ReplayInv, FramesOK
  <1>7. CASE SpawnChild \/ RestartPane \/ RestartClearsBuffer \/ AltScreen
    BY <1>1, <1>7 DEF SpawnChild, RestartPane, RestartClearsBuffer, AltScreen
  <1>8. ASSUME NEW g \in Children, StreamReads(g) \/ FlushToBuffer(g) PROVE FramesOK'
    BY <1>1, <1>8 DEF StreamReads, FlushToBuffer
  <1>9. ASSUME NEW v \in Viewers, armReattachReset(v) PROVE FramesOK'
    BY <1>1, <1>9 DEF armReattachReset
  <1> QED BY <1>2, <1>3, <1>4, <1>5, <1>6, <1>7, <1>8, <1>9 DEF ReplayNext

\* The screens.
LEMMA ViewsKept ==
  ASSUME ReplayInv, ReplayNext
  PROVE  ViewsOK'
  <1>1. CASE UNCHANGED view
    BY <1>1 DEF ReplayInv, ViewsOK
  <1>2. ASSUME NEW v \in Viewers, NEW e \in ViewRec, ScreenOK(e), view' = [view EXCEPT ![v] = e]
        PROVE  ViewsOK'
    <2>1. ASSUME NEW x \in Viewers PROVE view'[x] \in ViewRec /\ ScreenOK(view'[x])
      <3>1. CASE x = v
        <4>1. view'[x] = e
          BY <1>2, <3>1 DEF ReplayInv, ViewsOK
        <4> QED BY <1>2, <4>1
      <3>2. CASE x # v
        <4>1. view'[x] = view[x]
          BY <1>2, <3>2 DEF ReplayInv, ViewsOK
        <4> QED BY <4>1 DEF ReplayInv, ViewsOK
      <3> QED BY <3>1, <3>2
    <2> QED BY <1>2, <2>1 DEF ReplayInv, ViewsOK
  <1>3. \A v \in Viewers : /\ view[v] \in ViewRec /\ ScreenOK(view[v])
                           /\ lanes[v] \in [crit : Seq(Ghosts), out : Seq(Lives)]
    BY DEF ReplayInv, ViewsOK, FramesOK
  <1>4. ASSUME NEW v \in Viewers, Receive(v) PROVE ViewsOK'
    <2>1. PICK f : /\ f \in Ghosts \/ f \in Lives
                   /\ view[v].up /\ view' = [view EXCEPT ![v] = handlePaneOutput(v, f)]
      <3>1. CASE /\ view[v].up /\ lanes[v].crit # <<>>
                 /\ view' = [view EXCEPT ![v] = handlePaneOutput(v, Head(lanes[v].crit))]
        <4>1. Head(lanes[v].crit) \in Ghosts
          BY <1>3, <3>1
        <4> QED BY <3>1, <4>1
      <3>2. CASE /\ view[v].up /\ lanes[v].out # <<>>
                 /\ view' = [view EXCEPT ![v] = handlePaneOutput(v, Head(lanes[v].out))]
        <4>1. Head(lanes[v].out) \in Lives
          BY <1>3, <3>2
        <4> QED BY <3>2, <4>1
      <3> QED BY <1>4, <3>1, <3>2 DEF Receive
    <2>2. PICK e : e = handlePaneOutput(v, f)
      OBVIOUS
    <2>3. e \in ViewRec /\ ScreenOK(e)
      BY <1>3, <2>1, <2>2, LiveDrawn, GhostDrawn
    <2> QED BY <1>2, <2>1, <2>2, <2>3
  <1>5. ASSUME NEW v \in Viewers, ReplayLinkLost(v) PROVE ViewsOK'
    <2>1. PICK d, e : d = view[v] /\ e = [d EXCEPT !.up = FALSE]
      OBVIOUS
    <2>2. d \in ViewRec /\ ScreenOK(d) /\ d.conn = 1 /\ view' = [view EXCEPT ![v] = e]
      BY <1>3, <1>5, <2>1 DEF ReplayLinkLost
    <2>3. e \in ViewRec
      BY <2>1, <2>2 DEF ViewRec
    <2>4. /\ e.conn = 1 /\ e.conn = d.conn /\ e.top = d.top /\ e.gen = d.gen /\ e.reset = d.reset
          /\ e.screen = d.screen
      BY <2>1, <2>2 DEF ViewRec
    <2>5. ScreenOK(e)
      BY <2>2, <2>4 DEF ScreenOK
    <2> QED BY <1>2, <2>2, <2>3, <2>5
  <1>6. ASSUME NEW v \in Viewers, armReattachReset(v) PROVE ViewsOK'
    <2>1. PICK d, e : /\ d = view[v]
                      /\ e = [d EXCEPT !.up = TRUE, !.conn = 2, !.reset = TRUE, !.gen = 0, !.top = 0]
      OBVIOUS
    <2>2. d \in ViewRec /\ ScreenOK(d) /\ ~d.up /\ view' = [view EXCEPT ![v] = e]
      BY <1>3, <1>6, <2>1 DEF armReattachReset
    <2>3. e \in ViewRec
      BY <2>1, <2>2 DEF ViewRec
    <2>4. e.conn = 2 /\ e.top = 0 /\ e.gen = 0 /\ e.reset = TRUE /\ e.up = TRUE /\ e.screen = d.screen
      BY <2>1, <2>2 DEF ViewRec
    <2>5. \A b \in d.screen : b.conn \in {1, 2} /\ b.conn <= 1 /\ (b.late => b.gen # Previous)
                              /\ (b.kind = "live" => b.gen > 0)
      BY <2>2 DEF ScreenOK, ViewRec
    <2>6. ScreenOK(e)
      BY <2>4, <2>5 DEF ScreenOK
    <2> QED BY <1>2, <2>2, <2>3, <2>6
  <1>7. CASE SpawnChild \/ RestartPane \/ RestartClearsBuffer \/ AltScreen
    BY <1>1, <1>7 DEF SpawnChild, RestartPane, RestartClearsBuffer, AltScreen
  <1>8. ASSUME NEW g \in Children, StreamReads(g) \/ FlushToBuffer(g) \/ FlushBroadcasts(g) PROVE ViewsOK'
    BY <1>1, <1>8 DEF StreamReads, FlushToBuffer, FlushBroadcasts
  <1>9. ASSUME NEW v \in Viewers, HandleAttach(v) PROVE ViewsOK'
    BY <1>1, <1>9 DEF HandleAttach
  <1>10. ASSUME NEW r \in replays, SendGhostChunked(r) PROVE ViewsOK'
    BY <1>1, <1>10 DEF SendGhostChunked
  <1> QED BY <1>4, <1>5, <1>6, <1>7, <1>8, <1>9, <1>10 DEF ReplayNext

\* The daemon starts with its snapshot, the clients with empty screens.
LEMMA ReplayStarts == ReplayInit => ReplayInv
  <1> SUFFICES ASSUME ReplayInit PROVE ReplayInv
    OBVIOUS
  <1>1. ChildOK /\ BufferOK
    BY DEF ReplayInit, ChildOK, BufferOK, Held, ToSet, Previous
  <1>2. FramesOK
    <2>1. PICK e : e = <<>>
      OBVIOUS
    <2>2. e \in Seq(Ghosts) /\ e \in Seq(Lives)
      BY <2>1
    <2>3. replays = {} /\ lanes = [v \in Viewers |-> [crit |-> e, out |-> e]]
      BY <2>1 DEF ReplayInit
    <2> QED BY <2>2, <2>3 DEF FramesOK
  <1>3. ViewsOK
    BY DEF ReplayInit, ViewsOK, ViewRec, ScreenOK
  <1> QED BY <1>1, <1>2, <1>3 DEF ReplayInv

\* Steps that change nothing keep it.
LEMMA ReplayStutters == ReplayInv /\ UNCHANGED replayVars => ReplayInv'
  BY DEF ReplayInv, replayVars, ChildOK, BufferOK, Held, FramesOK, ViewsOK

\* What the property asks of the buffer and of each screen.
LEMMA InvShowsOne == ReplayInv => OneChildPerScreen
  <1> SUFFICES ASSUME ReplayInv PROVE OneChildPerScreen
    OBVIOUS
  <1>1. Cardinality(ToSet(pane.buf)) <= 1
    <2>1. PICK x : Held \subseteq {x}
      BY DEF ReplayInv, ChildOK, BufferOK
    <2>2. IsFiniteSet({x}) /\ Cardinality({x}) = 1
      BY FS_Singleton
    <2>3. Cardinality(Held) <= Cardinality({x})
      BY <2>1, <2>2, FS_Subset
    <2> QED BY <2>2, <2>3 DEF Held
  <1>2. ~pane.seeded => ToSet(pane.buf) \subseteq {pane.gen}
    BY DEF ReplayInv, BufferOK, Held
  <1>3. ASSUME NEW v \in Viewers, NEW shown, shown = view[v].screen,
               NEW here, here = {b \in shown : b.conn = view[v].conn}
        PROVE  /\ \A b \in here : b.kind = "live" => b.gen = view[v].top
               /\ (\E b \in here : b.kind = "ghost") => \A b \in shown : b.conn = view[v].conn
               /\ ~\E b \in shown : b.late /\ b.gen = Previous
    BY <1>3 DEF ReplayInv, ViewsOK, ScreenOK
  <1>4. \A v \in Viewers :
          LET shown == view[v].screen
              here == {b \in shown : b.conn = view[v].conn}
          IN /\ \A b \in here : b.kind = "live" => b.gen = view[v].top
             /\ (\E b \in here : b.kind = "ghost") => \A b \in shown : b.conn = view[v].conn
             /\ ~\E b \in shown : b.late /\ b.gen = Previous
    <2>1. TAKE v \in Viewers
    <2>2. PICK shown, here : shown = view[v].screen /\ here = {b \in shown : b.conn = view[v].conn}
      OBVIOUS
    <2> QED BY <1>3, <2>2
  <1> QED BY <1>1, <1>2, <1>4 DEF OneChildPerScreen

\* The buffer and every screen show one child, however restarts, late readers,
\* attaches and outages interleave.
THEOREM ScreensShowOneChild == ReplaySpec => []OneChildPerScreen
  <1>1. ReplayInv /\ [ReplayNext]_replayVars => ReplayInv'
    BY BufferKept, FramesKept, ViewsKept, ReplayStutters DEF ReplayInv
  <1> QED BY ReplayStarts, <1>1, InvShowsOne, PTL DEF ReplaySpec

-----------------------------------------------------------------------------
(* What the user is told                                                     *)

\* The work state of a pane, and the whole a message works on.
Marks == [turn : BOOLEAN, subs : Nat, over : BOOLEAN, blocked : BOOLEAN, unseen : BOOLEAN,
          seed : BOOLEAN, muted : BOOLEAN]
Wholes == [marks : [APanes -> Marks], toast : [APanes -> {"none", "blocked", "done"}],
           cooling : SUBSET APanes, excused : SUBSET APanes, stored : [APanes -> BOOLEAN],
           seen : APanes \cup {NoFocus}, ok : BOOLEAN]
AttTypeOK ==
  /\ \A ok \in BOOLEAN : AttNow(ok) \in Wholes
  /\ focusOn \in BOOLEAN /\ activeP \in APanes /\ linkUp \in BOOLEAN

\* Who wants the user and is not watched has a toast or an excuse; the daemon
\* has every mark.
Raised(n) ==
  \A q \in APanes : ~userIsWatching(q) /\ q \notin n.excused /\ Wants(n.marks[q]) => n.toast[q] # "none"
Told(n) == linkUp => \A q \in APanes : n.stored[q] = n.marks[q].unseen

\* The inductive invariant.
AttInv == AttTypeOK /\ AttentionRaised

\* One pane's marks replaced.
Marked(n, q, r, e) ==
  /\ e \in Wholes /\ e.marks[q] = r /\ \A o \in APanes : o # q => e.marks[o] = n.marks[o]
  /\ e.toast = n.toast /\ e.cooling = n.cooling /\ e.excused = n.excused /\ e.stored = n.stored
  /\ e.seen = n.seen /\ e.ok = n.ok

\* Setting one pane's marks does just that.
LEMMA MarksSet ==
  ASSUME NEW n \in Wholes, NEW q \in APanes, NEW r \in Marks
  PROVE  Marked(n, q, r, [n EXCEPT !.marks[q] = r])
  <1> DEFINE e == [n EXCEPT !.marks[q] = r]
  <1>1. PICK t : t = [n.marks EXCEPT ![q] = r]
    OBVIOUS
  <1>2. t \in [APanes -> Marks] /\ t[q] = r /\ \A o \in APanes : o # q => t[o] = n.marks[o]
    BY <1>1 DEF Wholes
  <1>3. e = [n EXCEPT !.marks = t]
    BY <1>1 DEF Wholes
  <1>4. /\ e.marks = t /\ e.toast = n.toast /\ e.cooling = n.cooling /\ e.excused = n.excused /\ e.stored = n.stored
        /\ e.seen = n.seen /\ e.ok = n.ok
    BY <1>3 DEF Wholes
  <1>5. e \in Wholes
    BY <1>2, <1>3 DEF Wholes
  <1> QED BY <1>2, <1>4, <1>5 DEF Marked

\* Reporting a mark tells the daemon that one.
LEMMA ReportTells ==
  ASSUME NEW n \in Wholes, NEW q \in APanes, NEW e, e = reportUnseen(n, q),
         linkUp => \A o \in APanes : o # q => n.stored[o] = n.marks[o].unseen
  PROVE  /\ e \in Wholes /\ Told(e)
         /\ e.marks = n.marks /\ e.toast = n.toast /\ e.excused = n.excused /\ e.seen = n.seen /\ e.ok = n.ok
  <1>1. CASE ~linkUp
    BY <1>1 DEF reportUnseen, Told
  <1>2. CASE linkUp
    <2>1. PICK t : t = [n.stored EXCEPT ![q] = n.marks[q].unseen]
      OBVIOUS
    <2>2. n.marks[q].unseen \in BOOLEAN
      BY DEF Wholes, Marks
    <2>3. t \in [APanes -> BOOLEAN] /\ t[q] = n.marks[q].unseen /\ \A o \in APanes : o # q => t[o] = n.stored[o]
      BY <2>1, <2>2 DEF Wholes
    <2>4. e = [n EXCEPT !.stored = t]
      BY <1>2, <2>1 DEF reportUnseen, Wholes
    <2>5. e.stored = t /\ e.marks = n.marks /\ e.toast = n.toast /\ e.excused = n.excused /\ e.seen = n.seen /\ e.ok = n.ok
      BY <2>4 DEF Wholes
    <2>6. e \in Wholes
      BY <2>3, <2>4 DEF Wholes
    <2>7. \A o \in APanes : t[o] = n.marks[o].unseen
      BY <1>2, <2>3
    <2> QED BY <2>5, <2>6, <2>7 DEF Told
  <1> QED BY <1>1, <1>2

\* Acknowledging touches the watched pane only.
LEMMA AckKeeps ==
  ASSUME activeP \in APanes, NEW n \in Wholes, Told(n), NEW e, e = ackFocusedPane(n)
  PROVE  /\ e \in Wholes /\ Told(e)
         /\ \A o \in APanes : ~userIsWatching(o) => e.marks[o] = n.marks[o]
         /\ e.toast = n.toast /\ e.excused = n.excused /\ e.seen = n.seen /\ e.ok = n.ok
  <1>1. CASE ~(focusOn /\ n.marks[activeP].unseen)
    BY <1>1 DEF ackFocusedPane
  <1>2. CASE focusOn /\ n.marks[activeP].unseen
    <2>1. PICK r, m : r = [n.marks[activeP] EXCEPT !.unseen = FALSE] /\ m = [n EXCEPT !.marks[activeP].unseen = FALSE]
      OBVIOUS
    <2>2. r \in Marks
      <3>1. n.marks[activeP] \in Marks
        BY DEF Wholes
      <3> QED BY <2>1, <3>1 DEF Marks
    <2>3. m = [n EXCEPT !.marks[activeP] = r]
      BY <2>1
    <2>4. /\ m \in Wholes /\ \A o \in APanes : o # activeP => m.marks[o] = n.marks[o]
          /\ m.toast = n.toast /\ m.excused = n.excused /\ m.stored = n.stored /\ m.seen = n.seen /\ m.ok = n.ok
      <3>1. Marked(n, activeP, r, [n EXCEPT !.marks[activeP] = r])
        BY <2>2, MarksSet
      <3>2. Marked(n, activeP, r, m)
        BY <2>3, <3>1
      <3> QED BY <3>2 DEF Marked
    <2>5. e = reportUnseen(m, activeP)
      BY <1>2, <2>1 DEF ackFocusedPane
    <2>6. linkUp => \A o \in APanes : o # activeP => m.stored[o] = m.marks[o].unseen
      BY <2>4 DEF Told
    <2>7. /\ e \in Wholes /\ Told(e)
          /\ e.marks = m.marks /\ e.toast = m.toast /\ e.excused = m.excused /\ e.seen = m.seen /\ e.ok = m.ok
      BY <2>4, <2>5, <2>6, ReportTells
    <2> QED BY <1>2, <2>4, <2>7 DEF userIsWatching
  <1> QED BY <1>1, <1>2

\* A toast withdrawn leaves an excuse behind.
LEMMA SweepKeeps ==
  ASSUME NEW n \in Wholes, NEW e, e = sweepOutstandingToasts(n)
  PROVE  /\ e \in Wholes /\ e.marks = n.marks /\ e.stored = n.stored /\ e.seen = n.seen /\ e.ok = n.ok
         /\ Raised(n) => Raised(e)
  <1>1. PICK stale : stale = {q \in APanes : n.toast[q] # "none" /\ ~liveNow(n.toast[q], n.marks[q])}
    OBVIOUS
  <1>2. PICK t, x : /\ t = [q \in APanes |-> IF q \in stale \/ userIsWatching(q) THEN "none" ELSE n.toast[q]]
                    /\ x = n.excused \cup {q \in stale : Wants(n.marks[q]) /\ ~userIsWatching(q)}
    OBVIOUS
  <1>3. e = [n EXCEPT !.toast = t, !.excused = x]
    BY <1>1, <1>2 DEF sweepOutstandingToasts, Wholes
  <1>4. t \in [APanes -> {"none", "blocked", "done"}] /\ x \in SUBSET APanes
    BY <1>1, <1>2 DEF Wholes
  <1>5. e \in Wholes
    BY <1>3, <1>4 DEF Wholes
  <1>6. e.toast = t /\ e.excused = x /\ e.marks = n.marks /\ e.stored = n.stored /\ e.seen = n.seen /\ e.ok = n.ok
    BY <1>3 DEF Wholes
  <1>7. ASSUME Raised(n), NEW q \in APanes, ~userIsWatching(q), q \notin x, Wants(n.marks[q]) PROVE t[q] # "none"
    <2>1. q \notin n.excused /\ n.toast[q] # "none"
      BY <1>2, <1>7 DEF Raised
    <2>2. q \notin stale
      BY <1>2, <1>7
    <2> QED BY <1>2, <1>7, <2>1, <2>2
  <1> QED BY <1>5, <1>6, <1>7 DEF Raised

\* Toasts for a set of panes that want one: shown, or refused to those in R.
ShowAll(n, D, R) ==
  [n EXCEPT !.toast = [q \in APanes |-> IF q \in D \ R
                                        THEN IF n.marks[q].blocked THEN "blocked" ELSE "done"
                                        ELSE n.toast[q]],
            !.cooling = n.cooling \cup (D \ R),
            !.excused = (n.excused \ (D \ R)) \cup R]

Answered(n, D, e) ==
  /\ e \in Wholes /\ e.marks = n.marks /\ e.stored = n.stored /\ e.seen = n.seen /\ e.ok = n.ok
  /\ \A q \in D : q \in e.excused \/ e.toast[q] # "none"
  /\ \A q \in APanes : q \notin e.excused /\ n.toast[q] # "none" => e.toast[q] # "none"

\* ShowAll answers every pane of D.
LEMMA ShowsOrRefuses ==
  ASSUME NEW n \in Wholes, NEW D, D \subseteq APanes, NEW R, R \subseteq D,
         NEW e, e = ShowAll(n, D, R)
  PROVE  Answered(n, D, e)
  <1>1. PICK t, c, x : /\ t = [q \in APanes |-> IF q \in D \ R
                                               THEN IF n.marks[q].blocked THEN "blocked" ELSE "done"
                                               ELSE n.toast[q]]
                       /\ c = n.cooling \cup (D \ R) /\ x = (n.excused \ (D \ R)) \cup R
    OBVIOUS
  <1>2. t \in [APanes -> {"none", "blocked", "done"}] /\ c \in SUBSET APanes /\ x \in SUBSET APanes
    BY <1>1 DEF Wholes
  <1>3. e = [n EXCEPT !.toast = t, !.cooling = c, !.excused = x]
    BY <1>1 DEF ShowAll
  <1>4. e \in Wholes
    BY <1>2, <1>3 DEF Wholes
  <1>5. e.toast = t /\ e.excused = x /\ e.marks = n.marks /\ e.stored = n.stored /\ e.seen = n.seen /\ e.ok = n.ok
    BY <1>3 DEF Wholes
  <1>6. \A q \in D : q \in x \/ t[q] # "none"
    BY <1>1
  <1>7. \A q \in APanes : q \notin x /\ n.toast[q] # "none" => t[q] # "none"
    BY <1>1
  <1> QED BY <1>4, <1>5, <1>6, <1>7 DEF Answered

\* When the focus has moved, every pane that was held back is looked at again.
LEMMA DeferredRaised ==
  ASSUME NEW n \in Wholes, NEW e, e = raiseDeferredToasts(n)
  PROVE  e \in Wholes /\ Raised(e) /\ e.marks = n.marks /\ e.stored = n.stored /\ e.seen = n.seen /\ e.ok = n.ok
  <1>1. PICK D : D = Deferred(n)
    OBVIOUS
  <1>2. PICK R : R = {q \in D : n.marks[q].muted \/ q \in n.cooling \/ ~n.ok}
    OBVIOUS
  <1>3. D \subseteq APanes /\ R \subseteq D
    BY <1>1, <1>2 DEF Deferred
  <1>4. e = ShowAll(n, D, R)
    BY <1>1, <1>2 DEF raiseDeferredToasts, ShowAll
  <1>5. /\ e \in Wholes /\ e.marks = n.marks /\ e.stored = n.stored /\ e.seen = n.seen /\ e.ok = n.ok
        /\ \A q \in D : q \in e.excused \/ e.toast[q] # "none"
        /\ \A q \in APanes : q \notin e.excused /\ n.toast[q] # "none" => e.toast[q] # "none"
    <2>1. Answered(n, D, e)
      BY <1>3, <1>4, ShowsOrRefuses
    <2> QED BY <2>1 DEF Answered
  <1>6. ASSUME NEW q \in APanes, ~userIsWatching(q), Wants(n.marks[q]), n.toast[q] = "none" PROVE q \in D
    BY <1>1, <1>6 DEF Deferred, Wants
  <1> QED BY <1>5, <1>6 DEF Raised

\* What every message does first.
LEMMA PrologueKeeps ==
  ASSUME AttInv, NEW ok \in BOOLEAN, NEW e, e = AttPrologue(ok)
  PROVE  e \in Wholes /\ Raised(e) /\ Told(e) /\ e.seen = FocusedPaneID /\ e.ok = ok
  <1>1. PICK n : n = AttNow(ok)
    OBVIOUS
  <1>2. n \in Wholes /\ activeP \in APanes /\ focusOn \in BOOLEAN
    BY <1>1 DEF AttInv, AttTypeOK
  <1>3. /\ n.marks = marks /\ n.toast = toast /\ n.excused = excused /\ n.stored = stored /\ n.seen = lastFocused
        /\ n.ok = ok
    BY <1>1 DEF AttNow
  <1>4. Told(n)
    BY <1>3 DEF Told, AttInv, AttentionRaised
  <1>5. lastFocused = FocusedPaneID => Raised(n)
    BY <1>2, <1>3 DEF Raised, AttInv, AttentionRaised, userIsWatching
  <1>6. PICK a : a = ackFocusedPane(n)
    OBVIOUS
  <1>7. /\ a \in Wholes /\ Told(a)
        /\ \A o \in APanes : ~userIsWatching(o) => a.marks[o] = n.marks[o]
        /\ a.toast = n.toast /\ a.excused = n.excused /\ a.seen = n.seen /\ a.ok = n.ok
    BY <1>2, <1>4, <1>6, AckKeeps
  <1>8. Raised(n) => Raised(a)
    BY <1>7 DEF Raised
  <1>9. PICK s : s = sweepOutstandingToasts(a)
    OBVIOUS
  <1>10. /\ s \in Wholes /\ s.marks = a.marks /\ s.stored = a.stored /\ s.seen = a.seen /\ s.ok = a.ok
         /\ Raised(a) => Raised(s)
    BY <1>7, <1>9, SweepKeeps
  <1>11. Told(s)
    BY <1>7, <1>10 DEF Told
  <1>12. e = IF lastFocused = FocusedPaneID THEN s ELSE raiseDeferredToasts([s EXCEPT !.seen = FocusedPaneID])
    BY <1>1, <1>6, <1>9 DEF AttPrologue
  <1>13. CASE lastFocused = FocusedPaneID
    BY <1>3, <1>5, <1>7, <1>8, <1>10, <1>11, <1>12, <1>13
  <1>14. CASE lastFocused # FocusedPaneID
    <2>1. PICK m : m = [s EXCEPT !.seen = FocusedPaneID]
      OBVIOUS
    <2>2. FocusedPaneID \in APanes \cup {NoFocus}
      BY <1>2 DEF FocusedPaneID
    <2>3. m \in Wholes /\ m.marks = s.marks /\ m.stored = s.stored /\ m.seen = FocusedPaneID /\ m.ok = s.ok
      BY <1>10, <2>1, <2>2 DEF Wholes
    <2>4. e = raiseDeferredToasts(m)
      BY <1>12, <1>14, <2>1
    <2>5. e \in Wholes /\ Raised(e) /\ e.marks = m.marks /\ e.stored = m.stored /\ e.seen = m.seen /\ e.ok = m.ok
      BY <2>3, <2>4, DeferredRaised
    <2> QED BY <1>3, <1>7, <1>10, <1>11, <2>3, <2>5 DEF Told
  <1> QED BY <1>13, <1>14

\* One toast emitted: shown or refused, whatever else the pane shows.
Emitted(n, q, e) ==
  /\ e \in Wholes /\ e.marks = n.marks /\ e.stored = n.stored /\ e.seen = n.seen /\ e.ok = n.ok
  /\ q \in e.excused \/ e.toast[q] # "none"
  /\ \A o \in APanes : o # q => e.toast[o] = n.toast[o] /\ (o \in n.excused => o \in e.excused)

\* emitToast shows or refuses.
LEMMA EmitShows ==
  ASSUME NEW n \in Wholes, NEW q \in APanes, NEW kind \in {"blocked", "done"}, NEW e, e = emitToast(n, q, kind)
  PROVE  Emitted(n, q, e)
  <1>1. CASE n.marks[q].muted \/ q \in n.cooling \/ ~n.ok
    <2>1. PICK x : x = n.excused \cup {q}
      OBVIOUS
    <2>2. e = [n EXCEPT !.excused = x] /\ x \in SUBSET APanes
      BY <1>1, <2>1 DEF emitToast, Wholes
    <2>3. /\ e \in Wholes /\ e.marks = n.marks /\ e.stored = n.stored /\ e.seen = n.seen /\ e.ok = n.ok
          /\ e.excused = x /\ e.toast = n.toast
      BY <2>2 DEF Wholes
    <2> QED BY <2>1, <2>3 DEF Emitted
  <1>2. CASE ~(n.marks[q].muted \/ q \in n.cooling \/ ~n.ok)
    <2>1. PICK t, c, x : t = [n.toast EXCEPT ![q] = kind] /\ c = n.cooling \cup {q} /\ x = n.excused \ {q}
      OBVIOUS
    <2>2. /\ t \in [APanes -> {"none", "blocked", "done"}] /\ c \in SUBSET APanes /\ x \in SUBSET APanes
          /\ t[q] = kind /\ \A o \in APanes : o # q => t[o] = n.toast[o]
      BY <2>1 DEF Wholes
    <2>3. e = [n EXCEPT !.toast = t, !.cooling = c, !.excused = x]
      BY <1>2, <2>1 DEF emitToast, Wholes
    <2>4. e \in Wholes
      BY <2>2, <2>3 DEF Wholes
    <2>5. e.marks = n.marks /\ e.stored = n.stored /\ e.seen = n.seen /\ e.ok = n.ok /\ e.excused = x /\ e.toast = t
      BY <2>3 DEF Wholes
    <2> QED BY <2>1, <2>2, <2>4, <2>5 DEF Emitted
  <1> QED BY <1>1, <1>2

\* A transition moves the work state and may block or unblock.
LEMMA TransitionTyped ==
  ASSUME NEW r \in Marks, NEW kind, NEW m, m = Transition(r, kind)
  PROVE  m \in Marks /\ m.unseen = r.unseen /\ m.seed = r.seed
  <1>1. PICK b \in BOOLEAN, t \in BOOLEAN, s \in Nat, o \in BOOLEAN :
          m = [r EXCEPT !.turn = t, !.subs = s, !.over = o, !.blocked = b]
    <2>1. r.turn \in BOOLEAN /\ r.subs \in Nat /\ r.over \in BOOLEAN /\ r.blocked \in BOOLEAN
      BY DEF Marks
    <2>2. CASE kind \in {"start", "heartbeat"}
      <3>1. m = [r EXCEPT !.turn = TRUE, !.subs = r.subs, !.over = r.over, !.blocked = FALSE]
        BY <2>2 DEF Transition, Marks
      <3> QED BY <2>1, <3>1
    <2>3. CASE kind = "subStart"
      <3>1. m = [r EXCEPT !.turn = r.turn, !.subs = IF r.subs = SubCap THEN r.subs ELSE r.subs + 1,
                          !.over = IF r.subs = SubCap THEN TRUE ELSE r.over, !.blocked = r.blocked]
        BY <2>3 DEF Transition, Marks
      <3>2. r.subs + 1 \in Nat
        BY <2>1
      <3>3. PICK s, o : s = (IF r.subs = SubCap THEN r.subs ELSE r.subs + 1)
                        /\ o = IF r.subs = SubCap THEN TRUE ELSE r.over
        OBVIOUS
      <3>4. s \in Nat /\ o \in BOOLEAN
        BY <2>1, <3>2, <3>3
      <3> QED BY <2>1, <3>1, <3>3, <3>4
    <2>4. CASE kind = "subStop"
      <3>1. m = [r EXCEPT !.turn = r.turn, !.subs = IF r.subs > 0 THEN r.subs - 1 ELSE 0,
                          !.over = r.over, !.blocked = r.blocked]
        BY <2>4 DEF Transition, Marks
      <3>2. (IF r.subs > 0 THEN r.subs - 1 ELSE 0) \in Nat
        BY <2>1
      <3> QED BY <2>1, <3>1, <3>2
    <2>5. CASE kind = "stop"
      <3>1. m = [r EXCEPT !.turn = FALSE, !.subs = r.subs, !.over = r.over, !.blocked = FALSE]
        BY <2>5 DEF Transition, Marks
      <3> QED BY <2>1, <3>1
    <2>6. CASE kind = "park"
      <3>1. m = [r EXCEPT !.turn = r.turn, !.subs = r.subs, !.over = r.over, !.blocked = TRUE]
        BY <2>6 DEF Transition, Marks
      <3> QED BY <2>1, <3>1
    <2>7. CASE kind = "idleNote"
      <3>1. m = [r EXCEPT !.turn = r.turn, !.subs = r.subs, !.over = r.over, !.blocked = r.blocked \/ r.turn]
        BY <2>7 DEF Transition, Marks
      <3> QED BY <2>1, <3>1
    <2>8. CASE kind \notin {"start", "heartbeat", "subStart", "subStop", "stop", "park", "idleNote"}
      <3>1. m = [r EXCEPT !.turn = FALSE, !.subs = 0, !.over = FALSE, !.blocked = FALSE]
        BY <2>8 DEF Transition, Marks
      <3> QED BY <3>1
    <2> QED BY <2>2, <2>3, <2>4, <2>5, <2>6, <2>7, <2>8
  <1> QED BY <1>1 DEF Marks

\* The work state of one pane moves; if that makes it want the user, it is
\* announced, excused or watched.
LEMMA WorkMoves ==
  ASSUME NEW n \in Wholes, Raised(n), Told(n), NEW q \in APanes, NEW kind,
         NEW e, e = applyWorkTransition(n, q, kind)
  PROVE  e \in Wholes /\ Raised(e) /\ Told(e) /\ e.seen = n.seen
  <1>1. PICK r, m : r = n.marks[q] /\ m = Transition(r, kind)
    OBVIOUS
  <1>2. r \in Marks
    BY <1>1 DEF Wholes
  <1>3. m \in Marks /\ m.unseen = r.unseen /\ m.seed = r.seed
    BY <1>1, <1>2, TransitionTyped
  <1>4. PICK begins, ends : /\ begins = (working(m) /\ ~working(r))
                            /\ ends = (~working(m) /\ working(r) /\ kind # "abort")
    OBVIOUS
  <1>5. PICK r2 : r2 = CASE begins /\ kind # "heartbeat" -> [m EXCEPT !.unseen = FALSE]
                         [] ends /\ ~userIsWatching(q) -> [m EXCEPT !.unseen = TRUE, !.seed = FALSE]
                         [] OTHER -> m
    OBVIOUS
  <1>6. ~(begins /\ kind # "heartbeat" /\ ends /\ ~userIsWatching(q))
    BY <1>4
  <1>7. \/ r2 = [m EXCEPT !.unseen = FALSE]
        \/ r2 = [m EXCEPT !.unseen = TRUE, !.seed = FALSE]
        \/ r2 = m
    BY <1>5, <1>6
  <1>8. r2 \in Marks
    BY <1>3, <1>7 DEF Marks
  <1>9. r2.seed => r.seed
    BY <1>3, <1>7 DEF Marks
  <1>10. PICK quiet : quiet = IF r.seed /\ ~r2.seed /\ r.unseen THEN {q} ELSE {}
    OBVIOUS
  <1>11. Wants(r2) /\ q \notin quiet => Wants(r) \/ (r2.blocked /\ ~r.blocked) \/ (r2.unseen /\ ~r.unseen)
    BY <1>9, <1>10 DEF Wants
  <1>12. PICK n1 : n1 = [n EXCEPT !.marks[q] = r2, !.excused = n.excused \cup quiet]
    OBVIOUS
  <1>13. PICK n2 : n2 = raiseAttentionToast(n1, q, r.blocked, r.unseen)
    OBVIOUS
  <1>14. e = IF r2.unseen # r.unseen THEN reportUnseen(n2, q) ELSE n2
    BY <1>1, <1>4, <1>5, <1>10, <1>12, <1>13 DEF applyWorkTransition
  <1>15. /\ n1 \in Wholes /\ n1.marks[q] = r2 /\ (\A o \in APanes : o # q => n1.marks[o] = n.marks[o])
         /\ n1.toast = n.toast /\ n1.excused = n.excused \cup quiet /\ n1.stored = n.stored /\ n1.seen = n.seen
    <2>1. PICK w : w = [n EXCEPT !.marks[q] = r2]
      OBVIOUS
    <2>2. /\ w \in Wholes /\ w.marks[q] = r2 /\ \A o \in APanes : o # q => w.marks[o] = n.marks[o]
          /\ w.toast = n.toast /\ w.excused = n.excused /\ w.stored = n.stored /\ w.seen = n.seen
      <3>1. Marked(n, q, r2, [n EXCEPT !.marks[q] = r2])
        BY <1>8, MarksSet
      <3>2. Marked(n, q, r2, w)
        BY <2>1, <3>1
      <3> QED BY <3>2 DEF Marked
    <2>3. PICK x : x = n.excused \cup quiet
      OBVIOUS
    <2>4. x \in SUBSET APanes
      BY <1>10, <2>3 DEF Wholes
    <2>5. n1 = [w EXCEPT !.excused = x]
      BY <1>12, <2>1, <2>3
    <2>6. n1 \in Wholes
      BY <2>2, <2>4, <2>5 DEF Wholes
    <2>7. /\ n1.marks = w.marks /\ n1.toast = w.toast /\ n1.excused = x /\ n1.stored = w.stored /\ n1.seen = w.seen
      BY <2>2, <2>5 DEF Wholes
    <2> QED BY <2>2, <2>3, <2>6, <2>7
  <1>16. ASSUME NEW o \in APanes, ~userIsWatching(o), o \notin n1.excused, Wants(n1.marks[o]), n1.toast[o] = "none"
         PROVE  o = q /\ ((r2.blocked /\ ~r.blocked) \/ (r2.unseen /\ ~r.unseen))
    <2>1. o \notin n.excused /\ o \notin quiet /\ n.toast[o] = "none"
      BY <1>15, <1>16
    <2>2. ~Wants(n.marks[o])
      BY <1>16, <2>1 DEF Raised
    <2>3. o = q
      <3>1. SUFFICES ASSUME o # q PROVE FALSE
        OBVIOUS
      <3>2. n1.marks[o] = n.marks[o]
        BY <1>15, <3>1
      <3> QED BY <1>16, <2>2, <3>2
    <2>4. Wants(r2) /\ ~Wants(r)
      BY <1>1, <1>15, <1>16, <2>2, <2>3
    <2> QED BY <1>11, <2>1, <2>3, <2>4
  <1>17. n2 \in Wholes /\ Raised(n2) /\ n2.marks = n1.marks /\ n2.stored = n1.stored /\ n2.seen = n1.seen
    <2>1. CASE n2 = n1 /\ (userIsWatching(q) \/ ~((r2.blocked /\ ~r.blocked) \/ (r2.unseen /\ ~r.unseen)))
      BY <1>15, <1>16, <2>1 DEF Raised
    <2>2. ASSUME NEW k \in {"blocked", "done"}, n2 = emitToast(n1, q, k)
          PROVE  n2 \in Wholes /\ Raised(n2) /\ n2.marks = n1.marks /\ n2.stored = n1.stored /\ n2.seen = n1.seen
      <3>1. /\ n2 \in Wholes /\ n2.marks = n1.marks /\ n2.stored = n1.stored /\ n2.seen = n1.seen /\ n2.ok = n1.ok
            /\ q \in n2.excused \/ n2.toast[q] # "none"
            /\ \A o \in APanes : o # q => n2.toast[o] = n1.toast[o] /\ (o \in n1.excused => o \in n2.excused)
        <4>1. Emitted(n1, q, n2)
          BY <1>15, <2>2, EmitShows
        <4> QED BY <4>1 DEF Emitted
      <3>2. ASSUME NEW o \in APanes, ~userIsWatching(o), o \notin n2.excused, Wants(n2.marks[o]), n2.toast[o] = "none"
            PROVE  FALSE
        <4>1. o # q
          BY <3>1, <3>2
        <4>2. n1.toast[o] = "none" /\ o \notin n1.excused /\ Wants(n1.marks[o])
          BY <3>1, <3>2, <4>1
        <4> QED BY <1>16, <3>2, <4>1, <4>2
      <3> QED BY <3>1, <3>2 DEF Raised
    <2>3. \/ n2 = n1 /\ (userIsWatching(q) \/ ~((r2.blocked /\ ~r.blocked) \/ (r2.unseen /\ ~r.unseen)))
          \/ n2 = emitToast(n1, q, "blocked")
          \/ n2 = emitToast(n1, q, "done")
      <3>1. n1.marks[q] = r2
        BY <1>15
      <3>2. CASE userIsWatching(q)
        BY <1>13, <3>2 DEF raiseAttentionToast
      <3>3. CASE ~userIsWatching(q) /\ r2.blocked /\ ~r.blocked
        BY <1>13, <3>1, <3>3 DEF raiseAttentionToast
      <3>4. CASE ~userIsWatching(q) /\ ~(r2.blocked /\ ~r.blocked) /\ r2.unseen /\ ~r.unseen
        BY <1>13, <3>1, <3>4 DEF raiseAttentionToast
      <3>5. CASE ~userIsWatching(q) /\ ~(r2.blocked /\ ~r.blocked) /\ ~(r2.unseen /\ ~r.unseen)
        BY <1>13, <3>1, <3>5 DEF raiseAttentionToast
      <3> QED BY <3>2, <3>3, <3>4, <3>5
    <2> QED BY <2>1, <2>2, <2>3
  <1>18. linkUp => \A o \in APanes : o # q => n2.stored[o] = n2.marks[o].unseen
    BY <1>15, <1>17 DEF Told
  <1>19. CASE r2.unseen # r.unseen
    <2>1. e = reportUnseen(n2, q)
      BY <1>14, <1>19
    <2>2. /\ e \in Wholes /\ Told(e)
          /\ e.marks = n2.marks /\ e.toast = n2.toast /\ e.excused = n2.excused /\ e.seen = n2.seen
      BY <1>17, <1>18, <2>1, ReportTells
    <2>3. Raised(e)
      BY <1>17, <2>2 DEF Raised
    <2> QED BY <1>15, <1>17, <2>2, <2>3
  <1>20. CASE r2.unseen = r.unseen
    <2>1. e = n2
      BY <1>14, <1>20
    <2>2. linkUp => n2.stored[q] = n2.marks[q].unseen
      BY <1>1, <1>15, <1>17, <1>20 DEF Told
    <2>3. Told(e)
      BY <1>18, <2>1, <2>2 DEF Told
    <2> QED BY <1>15, <1>17, <2>1, <2>3
  <1> QED BY <1>19, <1>20

\* The state a message leaves behind.
LEMMA FocusLeaves ==
  ASSUME NEW n \in Wholes, Became(n), focusOn' \in BOOLEAN, activeP' \in APanes, linkUp' \in BOOLEAN
  PROVE  /\ AttTypeOK'
         /\ marks' = n.marks /\ toast' = n.toast /\ stored' = n.stored /\ lastFocused' = n.seen
         /\ \A q \in APanes : q \notin excused' /\ Wants(n.marks[q]) => q \notin n.excused
  <1>1. /\ marks' = n.marks /\ toast' = n.toast /\ cooling' = n.cooling /\ stored' = n.stored
        /\ excused' = {q \in n.excused : n.marks[q].blocked \/ n.marks[q].unseen} /\ lastFocused' = n.seen
    BY DEF Became
  <1>2. ASSUME NEW ok \in BOOLEAN PROVE AttNow(ok)' \in Wholes
    BY <1>1 DEF AttNow, Wholes
  <1>3. \A q \in APanes : q \notin excused' /\ Wants(n.marks[q]) => q \notin n.excused
    BY <1>1 DEF Wants
  <1> QED BY <1>1, <1>2, <1>3 DEF AttTypeOK

\* ... keeps the invariant when it is in order and the focus stays.
LEMMA BecameKeeps ==
  ASSUME AttInv, NEW n \in Wholes, Raised(n), Told(n), n.seen = FocusedPaneID, Became(n),
         UNCHANGED <<focusOn, activeP, linkUp>>
  PROVE  AttInv'
  <1>1. focusOn' \in BOOLEAN /\ activeP' \in APanes /\ linkUp' \in BOOLEAN
    BY DEF AttInv, AttTypeOK
  <1>2. /\ AttTypeOK'
        /\ marks' = n.marks /\ toast' = n.toast /\ stored' = n.stored /\ lastFocused' = n.seen
        /\ \A q \in APanes : q \notin excused' /\ Wants(n.marks[q]) => q \notin n.excused
    BY <1>1, FocusLeaves
  <1>3. AttentionRaised'
    BY <1>2 DEF AttentionRaised, Raised, Told, userIsWatching
  <1> QED BY <1>2, <1>3 DEF AttInv

\* One pane's marks changed in a way that gives nobody a new reason.
LEMMA PatchKeeps ==
  ASSUME NEW n \in Wholes, Raised(n), Told(n), NEW q \in APanes, NEW r \in Marks,
         r.unseen = n.marks[q].unseen, userIsWatching(q) \/ (Wants(r) => Wants(n.marks[q])),
         NEW e, e = [n EXCEPT !.marks[q] = r]
  PROVE  e \in Wholes /\ Raised(e) /\ Told(e) /\ e.seen = n.seen
  <1>1. Marked(n, q, r, [n EXCEPT !.marks[q] = r])
    BY MarksSet
  <1>2. Marked(n, q, r, e)
    BY <1>1
  <1>3. /\ e \in Wholes /\ e.marks[q] = r /\ \A o \in APanes : o # q => e.marks[o] = n.marks[o]
        /\ e.toast = n.toast /\ e.excused = n.excused /\ e.stored = n.stored /\ e.seen = n.seen
    BY <1>2 DEF Marked
  <1>4. Raised(e)
    <2>1. SUFFICES ASSUME NEW o \in APanes, ~userIsWatching(o), o \notin n.excused, Wants(e.marks[o])
                   PROVE  n.toast[o] # "none"
      BY <1>3 DEF Raised
    <2>2. CASE o = q
      <3>1. Wants(n.marks[o])
        BY <1>3, <2>1, <2>2
      <3> QED BY <2>1, <3>1 DEF Raised
    <2>3. CASE o # q
      <3>1. e.marks[o] = n.marks[o]
        BY <1>3, <2>3
      <3> QED BY <2>1, <3>1 DEF Raised
    <2> QED BY <2>2, <2>3
  <1>5. Told(e)
    BY <1>3 DEF Told
  <1> QED BY <1>3, <1>4, <1>5

\* Every step keeps the invariant.
LEMMA AttKept ==
  ASSUME AttInv, [AttNext]_attVars
  PROVE  AttInv'
  <1>0. /\ focusOn \in BOOLEAN /\ activeP \in APanes /\ linkUp \in BOOLEAN
        /\ marks \in [APanes -> Marks] /\ toast \in [APanes -> {"none", "blocked", "done"}]
        /\ cooling \in SUBSET APanes /\ excused \in SUBSET APanes /\ stored \in [APanes -> BOOLEAN]
        /\ lastFocused \in APanes \cup {NoFocus}
    <2>1. AttNow(TRUE) \in Wholes /\ focusOn \in BOOLEAN /\ activeP \in APanes /\ linkUp \in BOOLEAN
      BY DEF AttInv, AttTypeOK
    <2> QED BY <2>1 DEF AttNow, Wholes
  <1>00. activeP # NoFocus /\ AgentPanes \subseteq APanes
    BY <1>0, AttentionAssumption DEF NoFocus
  <1>1. ASSUME NEW ok \in BOOLEAN, NEW q \in AgentPanes, NEW k \in WorkEvents, PaneEvent(q, k, ok) PROVE AttInv'
    <2>1. PICK n, e : n = AttPrologue(ok) /\ e = applyWorkTransition(n, q, k)
      OBVIOUS
    <2>2. n \in Wholes /\ Raised(n) /\ Told(n) /\ n.seen = FocusedPaneID
      BY <2>1, PrologueKeeps
    <2>3. q \in APanes
      BY <1>00
    <2>4. e \in Wholes /\ Raised(e) /\ Told(e) /\ e.seen = FocusedPaneID
      BY <2>1, <2>2, <2>3, WorkMoves
    <2>5. Became(e) /\ UNCHANGED <<focusOn, activeP, linkUp>>
      BY <1>1, <2>1 DEF PaneEvent
    <2> QED BY <2>4, <2>5, BecameKeeps
  <1>2. ASSUME NEW ok \in BOOLEAN, answerBlockedByInput(ok) PROVE AttInv'
    <2>1. PICK n, r : n = AttPrologue(ok) /\ r = [n.marks[activeP] EXCEPT !.blocked = FALSE]
      OBVIOUS
    <2>2. n \in Wholes /\ Raised(n) /\ Told(n) /\ n.seen = FocusedPaneID
      BY <2>1, PrologueKeeps
    <2>3. n.marks[activeP] \in Marks
      BY <1>0, <2>2 DEF Wholes
    <2>4. r \in Marks /\ r.unseen = n.marks[activeP].unseen
      BY <2>1, <2>3 DEF Marks
    <2>5. PICK e : e = [n EXCEPT !.marks[activeP] = r]
      OBVIOUS
    <2>6. userIsWatching(activeP)
      BY <1>2 DEF answerBlockedByInput, userIsWatching
    <2>7. e \in Wholes /\ Raised(e) /\ Told(e) /\ e.seen = n.seen
      BY <1>0, <2>2, <2>4, <2>5, <2>6, PatchKeeps
    <2>8. Became(e) /\ UNCHANGED <<focusOn, activeP, linkUp>>
      <3>1. e = [n EXCEPT !.marks[activeP].blocked = FALSE]
        BY <2>1, <2>5
      <3> QED BY <1>2, <2>1, <3>1 DEF answerBlockedByInput
    <2> QED BY <2>2, <2>7, <2>8, BecameKeeps
  <1>3. ASSUME NEW ok \in BOOLEAN, interruptWorkingPane(ok) PROVE AttInv'
    <2>1. PICK n, e : n = AttPrologue(ok) /\ e = applyWorkTransition(n, activeP, "stop")
      OBVIOUS
    <2>2. n \in Wholes /\ Raised(n) /\ Told(n) /\ n.seen = FocusedPaneID
      BY <2>1, PrologueKeeps
    <2>3. e \in Wholes /\ Raised(e) /\ Told(e) /\ e.seen = FocusedPaneID
      BY <1>0, <2>1, <2>2, WorkMoves
    <2>4. Became(e) /\ UNCHANGED <<focusOn, activeP, linkUp>>
      BY <1>3, <2>1 DEF interruptWorkingPane
    <2> QED BY <2>3, <2>4, BecameKeeps
  <1>4. ASSUME NEW ok \in BOOLEAN, AnyMessage(ok) PROVE AttInv'
    <2>1. PICK n : n = AttPrologue(ok)
      OBVIOUS
    <2>2. n \in Wholes /\ Raised(n) /\ Told(n) /\ n.seen = FocusedPaneID
      BY <2>1, PrologueKeeps
    <2>3. Became(n) /\ UNCHANGED <<focusOn, activeP, linkUp>>
      BY <1>4, <2>1 DEF AnyMessage
    <2> QED BY <2>2, <2>3, BecameKeeps
  <1>5. ASSUME NEW ok \in BOOLEAN, FocusMsg(ok) PROVE AttInv'
    <2>1. PICK n : n = AttPrologue(ok)
      OBVIOUS
    <2>2. n \in Wholes /\ Told(n) /\ n.seen = NoFocus
      BY <1>5, <2>1, PrologueKeeps DEF FocusMsg, FocusedPaneID
    <2>3. Became(n) /\ focusOn' = TRUE /\ activeP' = activeP /\ linkUp' = linkUp
      BY <1>5, <2>1 DEF FocusMsg
    <2>4. AttTypeOK' /\ marks' = n.marks /\ stored' = n.stored /\ lastFocused' = n.seen
      BY <1>0, <2>2, <2>3, FocusLeaves
    <2>5. lastFocused' # FocusedPaneID'
      BY <1>00, <2>2, <2>3, <2>4 DEF FocusedPaneID
    <2>6. linkUp' => \A q \in APanes : stored'[q] = marks'[q].unseen
      BY <2>2, <2>3, <2>4 DEF Told
    <2> QED BY <2>4, <2>5, <2>6 DEF AttInv, AttentionRaised
  <1>6. ASSUME NEW ok \in BOOLEAN, BlurMsg(ok) PROVE AttInv'
    <2>1. PICK n : n = AttPrologue(ok)
      OBVIOUS
    <2>2. n \in Wholes /\ Told(n) /\ n.seen = activeP
      BY <1>6, <2>1, PrologueKeeps DEF BlurMsg, FocusedPaneID
    <2>3. PICK D : D = {q \in APanes : /\ n.toast[q] = "none"
                                       /\ n.marks[q].blocked \/ (n.marks[q].unseen /\ ~n.marks[q].seed)}
      OBVIOUS
    <2>4. PICK R : R = {q \in D : n.marks[q].muted \/ q \in n.cooling \/ ~ok}
      OBVIOUS
    <2>5. PICK e : e = ShowAll(n, D, R)
      OBVIOUS
    <2>6. D \subseteq APanes /\ R \subseteq D
      BY <2>3, <2>4
    <2>7. Answered(n, D, e)
      BY <2>2, <2>5, <2>6, ShowsOrRefuses
    <2>8. e \in Wholes /\ e.marks = n.marks /\ e.stored = n.stored /\ e.seen = n.seen
      BY <2>7 DEF Answered
    <2>9. Became(e) /\ focusOn' = FALSE /\ activeP' = activeP /\ linkUp' = linkUp
      BY <1>6, <2>1, <2>3, <2>4, <2>5 DEF BlurMsg, ShowAll
    <2>10. AttTypeOK' /\ marks' = e.marks /\ stored' = e.stored /\ lastFocused' = e.seen
      BY <1>0, <2>8, <2>9, FocusLeaves
    <2>11. lastFocused' # FocusedPaneID'
      BY <1>00, <2>2, <2>8, <2>9, <2>10 DEF FocusedPaneID
    <2>12. linkUp' => \A q \in APanes : stored'[q] = marks'[q].unseen
      BY <2>2, <2>8, <2>9, <2>10 DEF Told
    <2> QED BY <2>10, <2>11, <2>12 DEF AttInv, AttentionRaised
  <1>7. ASSUME NEW ok \in BOOLEAN, Reattached(ok) PROVE AttInv'
    <2>1. PICK n : n = AttPrologue(ok)
      OBVIOUS
    <2>2. n \in Wholes /\ Raised(n) /\ n.seen = FocusedPaneID
      BY <2>1, PrologueKeeps
    <2>3. PICK t, d : t = resetWorkState(n) /\ d = [q \in APanes |-> n.marks[q].unseen]
      OBVIOUS
    <2>4. PICK e : e = [n EXCEPT !.marks = t, !.stored = d]
      OBVIOUS
    <2>5. ASSUME NEW q \in APanes
          PROVE  t[q] \in Marks /\ d[q] \in BOOLEAN /\ d[q] = t[q].unseen /\ (Wants(t[q]) => Wants(n.marks[q]))
      <3>1. PICK m : m = n.marks[q]
        OBVIOUS
      <3>2. m \in Marks
        BY <2>2, <3>1 DEF Wholes
      <3>3. t[q] = [m EXCEPT !.turn = FALSE, !.subs = 0, !.over = FALSE] /\ d[q] = m.unseen
        BY <2>3, <3>1 DEF resetWorkState
      <3>4. t[q].blocked = m.blocked /\ t[q].unseen = m.unseen /\ t[q].seed = m.seed
        <4>1. PICK w : w = t[q]
          OBVIOUS
        <4>2. w = [m EXCEPT !.turn = FALSE, !.subs = 0, !.over = FALSE]
          BY <3>3, <4>1
        <4>3. w.blocked = m.blocked /\ w.unseen = m.unseen /\ w.seed = m.seed
          BY <3>2, <4>2 DEF Marks
        <4> QED BY <4>1, <4>3
      <3>5. t[q] \in Marks /\ m.unseen \in BOOLEAN
        <4>1. m.unseen \in BOOLEAN
          BY <3>2 DEF Marks
        <4>2. [m EXCEPT !.turn = FALSE, !.subs = 0, !.over = FALSE] \in Marks
          BY <3>2 DEF Marks
        <4> QED BY <3>3, <4>1, <4>2
      <3> QED BY <3>1, <3>3, <3>4, <3>5 DEF Wants
    <2>6. t \in [APanes -> Marks] /\ d \in [APanes -> BOOLEAN]
      <3>1. DOMAIN t = APanes /\ t = [q \in APanes |-> t[q]]
        BY <2>3 DEF resetWorkState
      <3>2. DOMAIN d = APanes /\ d = [q \in APanes |-> d[q]]
        BY <2>3
      <3> QED BY <2>5, <3>1, <3>2
    <2>7. e \in Wholes
      BY <2>2, <2>4, <2>6 DEF Wholes
    <2>8. e.marks = t /\ e.stored = d /\ e.toast = n.toast /\ e.excused = n.excused /\ e.seen = n.seen
      BY <2>2, <2>4 DEF Wholes
    <2>9. Became(e) /\ focusOn' = focusOn /\ activeP' = activeP /\ linkUp' = TRUE
      <3>1. /\ Became([n EXCEPT !.marks = resetWorkState(n), !.stored = [q \in APanes |-> n.marks[q].unseen]])
            /\ focusOn' = focusOn /\ activeP' = activeP /\ linkUp' = TRUE
        BY <1>7, <2>1 DEF Reattached
      <3>2. e = [n EXCEPT !.marks = resetWorkState(n), !.stored = [q \in APanes |-> n.marks[q].unseen]]
        BY <2>3, <2>4
      <3> QED BY <3>1, <3>2
    <2>10. /\ AttTypeOK'
           /\ marks' = e.marks /\ toast' = e.toast /\ stored' = e.stored /\ lastFocused' = e.seen
           /\ \A q \in APanes : q \notin excused' /\ Wants(e.marks[q]) => q \notin e.excused
      BY <1>0, <2>7, <2>9, FocusLeaves
    <2>11. ASSUME NEW q \in APanes, ~(focusOn' /\ q = activeP'), q \notin excused', Wants(t[q]) PROVE n.toast[q] # "none"
      <3>1. q \notin n.excused /\ ~userIsWatching(q) /\ Wants(n.marks[q])
        BY <2>5, <2>8, <2>9, <2>10, <2>11 DEF userIsWatching
      <3> QED BY <2>2, <3>1 DEF Raised
    <2>12. \A q \in APanes : ~(focusOn' /\ q = activeP') /\ q \notin excused' /\ Wants(marks'[q]) => toast'[q] # "none"
      BY <2>8, <2>10, <2>11
    <2>13. \A q \in APanes : stored'[q] = marks'[q].unseen
      BY <2>5, <2>8, <2>10
    <2> QED BY <2>10, <2>12, <2>13 DEF AttInv, AttentionRaised, Wants
  <1>8. ASSUME NEW ok \in BOOLEAN, NEW q \in APanes, attJumpToPane(q, ok) PROVE AttInv'
    <2>1. PICK n : n = AttPrologue(ok)
      OBVIOUS
    <2>2. n \in Wholes /\ Raised(n) /\ Told(n) /\ n.seen = FocusedPaneID
      BY <2>1, PrologueKeeps
    <2>3. Became(n) /\ activeP' = q /\ focusOn' = focusOn /\ linkUp' = linkUp /\ q # activeP
      BY <1>8, <2>1 DEF attJumpToPane
    <2>4. /\ AttTypeOK'
          /\ marks' = n.marks /\ toast' = n.toast /\ stored' = n.stored /\ lastFocused' = n.seen
          /\ \A o \in APanes : o \notin excused' /\ Wants(n.marks[o]) => o \notin n.excused
      BY <1>0, <2>2, <2>3, FocusLeaves
    <2>5. linkUp' => \A o \in APanes : stored'[o] = marks'[o].unseen
      BY <2>2, <2>3, <2>4 DEF Told
    <2>6. CASE focusOn
      <3>1. lastFocused' # FocusedPaneID'
        BY <2>2, <2>3, <2>4, <2>6 DEF FocusedPaneID
      <3> QED BY <2>4, <2>5, <3>1 DEF AttInv, AttentionRaised
    <2>7. CASE ~focusOn
      <3>1. \A o \in APanes : ~userIsWatching(o)
        BY <2>7 DEF userIsWatching
      <3>2. \A o \in APanes : o \notin excused' /\ Wants(marks'[o]) => toast'[o] # "none"
        BY <2>2, <2>4, <3>1 DEF Raised
      <3> QED BY <2>4, <2>5, <3>2 DEF AttInv, AttentionRaised, Wants
    <2> QED BY <1>0, <2>6, <2>7
  <1>9. ASSUME NEW ok \in BOOLEAN, NEW q \in AgentPanes, ToggleMuted(q, ok) PROVE AttInv'
    <2>1. PICK n, r : n = AttPrologue(ok) /\ r = [n.marks[q] EXCEPT !.muted = ~n.marks[q].muted]
      OBVIOUS
    <2>2. n \in Wholes /\ Raised(n) /\ Told(n) /\ n.seen = FocusedPaneID
      BY <2>1, PrologueKeeps
    <2>3. q \in APanes /\ n.marks[q] \in Marks
      BY <1>00, <2>2 DEF Wholes
    <2>4. r \in Marks /\ r.unseen = n.marks[q].unseen /\ (Wants(r) => Wants(n.marks[q]))
      BY <2>1, <2>3 DEF Marks, Wants
    <2>5. PICK e : e = [n EXCEPT !.marks[q] = r]
      OBVIOUS
    <2>6. e \in Wholes /\ Raised(e) /\ Told(e) /\ e.seen = n.seen
      BY <2>2, <2>3, <2>4, <2>5, PatchKeeps
    <2>7. Became(e) /\ UNCHANGED <<focusOn, activeP, linkUp>>
      <3>1. e = [n EXCEPT !.marks[q].muted = ~@]
        BY <2>1, <2>5
      <3> QED BY <1>9, <2>1, <3>1 DEF ToggleMuted
    <2> QED BY <2>2, <2>6, <2>7, BecameKeeps
  <1>10. ASSUME NEW q \in APanes, CooldownPasses(q) PROVE AttInv'
    <2>1. /\ cooling' = cooling \ {q}
          /\ UNCHANGED <<marks, toast, excused, stored, focusOn, activeP, lastFocused, linkUp>>
      BY <1>10 DEF CooldownPasses
    <2>2. AttTypeOK'
      BY <1>0, <2>1 DEF AttTypeOK, AttNow, Wholes
    <2>3. AttentionRaised'
      BY <2>1 DEF AttInv, AttentionRaised, FocusedPaneID, Wants
    <2> QED BY <2>2, <2>3 DEF AttInv
  <1>11. CASE LinkDrops
    <2>1. /\ linkUp' = FALSE
          /\ UNCHANGED <<marks, toast, cooling, excused, stored, focusOn, activeP, lastFocused>>
      BY <1>11 DEF LinkDrops
    <2>2. AttTypeOK'
      BY <1>0, <2>1 DEF AttTypeOK, AttNow, Wholes
    <2>3. AttentionRaised'
      BY <2>1 DEF AttInv, AttentionRaised, FocusedPaneID, Wants
    <2> QED BY <2>2, <2>3 DEF AttInv
  <1>12. CASE ClientRestarts
    <2>1. /\ marks' = [q \in APanes |-> [Rested EXCEPT !.unseen = stored[q], !.seed = stored[q], !.muted = marks[q].muted]]
          /\ toast' = [q \in APanes |-> "none"]
          /\ cooling' = {} /\ excused' = {} /\ lastFocused' = NoFocus /\ focusOn' = TRUE
          /\ UNCHANGED <<stored, activeP, linkUp>>
      BY <1>12 DEF ClientRestarts
    <2>2. ASSUME NEW q \in APanes
          PROVE  marks'[q] \in Marks /\ marks'[q].unseen = stored[q]
      <3>1. stored[q] \in BOOLEAN /\ marks[q].muted \in BOOLEAN
        BY <1>0 DEF Marks
      <3>2. marks'[q] = [Rested EXCEPT !.unseen = stored[q], !.seed = stored[q], !.muted = marks[q].muted]
        BY <2>1
      <3>3. PICK x, m : x = stored[q] /\ m = marks[q].muted
        OBVIOUS
      <3>4. marks'[q] = [turn |-> FALSE, subs |-> 0, over |-> FALSE, blocked |-> FALSE, unseen |-> x,
                     seed |-> x, muted |-> m]
        BY <3>2, <3>3 DEF Rested
      <3> QED BY <3>1, <3>3, <3>4 DEF Marks
    <2>3. marks' \in [APanes -> Marks] /\ toast' \in [APanes -> {"none", "blocked", "done"}]
      <3>1. DOMAIN marks' = APanes /\ marks' = [q \in APanes |-> marks'[q]]
        BY <2>1
      <3> QED BY <2>1, <2>2, <3>1
    <2>4. AttTypeOK'
      BY <1>0, <2>1, <2>3 DEF AttTypeOK, AttNow, Wholes, NoFocus
    <2>5. lastFocused' # FocusedPaneID'
      BY <1>00, <2>1 DEF FocusedPaneID
    <2>6. \A q \in APanes : stored'[q] = marks'[q].unseen
      BY <2>1, <2>2
    <2> QED BY <2>4, <2>5, <2>6 DEF AttInv, AttentionRaised
  <1>13. CASE UNCHANGED attVars
    <2>1. AttTypeOK'
      BY <1>0, <1>13 DEF AttTypeOK, AttNow, Wholes, attVars
    <2>2. AttentionRaised'
      BY <1>13 DEF AttInv, AttentionRaised, FocusedPaneID, Wants, attVars
    <2> QED BY <2>1, <2>2 DEF AttInv
  <1> QED BY <1>1, <1>2, <1>3, <1>4, <1>5, <1>6, <1>7, <1>8, <1>9, <1>10, <1>11, <1>12, <1>13 DEF AttNext

\* At the start nobody wants anything.
LEMMA AttStarts == AttInit => AttInv
  <1> SUFFICES ASSUME AttInit PROVE AttInv
    OBVIOUS
  <1>1. /\ marks \in [APanes -> Marks] /\ toast \in [APanes -> {"none", "blocked", "done"}]
        /\ stored \in [APanes -> BOOLEAN] /\ cooling = {} /\ excused = {} /\ lastFocused = NoFocus
    BY DEF AttInit, Marks, Rested
  <1>2. AttTypeOK
    BY <1>1 DEF AttInit, AttTypeOK, AttNow, Wholes
  <1>3. AttentionRaised
    BY DEF AttInit, AttentionRaised, Wants, Rested
  <1> QED BY <1>2, <1>3 DEF AttInv

\* A pane that waits for its user, or finished a turn nobody saw, has a toast or
\* a stated reason for having none, and the daemon stores the marks the client
\* shows, however events, focus, cooldowns, outages and restarts interleave.
THEOREM AttentionIsRaised == AttSpec => []AttentionRaised
  <1>1. AttInv => AttentionRaised
    BY DEF AttInv
  <1> QED BY AttStarts, AttKept, <1>1, PTL DEF AttSpec

-----------------------------------------------------------------------------
(* How large a pane is                                                       *)

\* The client's and the daemon's side of one pane.
TuiOK(t) ==
  /\ DOMAIN t = {"sized", "width", "pending", "seq", "box", "once", "up", "fullscreen", "heard"}
  /\ t.width \in Nat /\ t.pending \in Nat /\ t.box \in Nat
  /\ t.sized \in BOOLEAN /\ t.once \in BOOLEAN /\ t.up \in BOOLEAN /\ t.heard \in BOOLEAN
ProcOK(c) ==
  /\ DOMAIN c = {"pty", "real", "applied", "stored", "boot", "spawns", "pending", "raced", "asked"}
  /\ c.real \in Nat /\ c.applied \in Nat /\ c.stored \in Nat \ {0} /\ c.boot \in Nat /\ c.spawns \in Nat
  /\ c.pty \in BOOLEAN /\ c.pending \in BOOLEAN /\ c.raced \in BOOLEAN /\ c.asked \in BOOLEAN
  /\ c.applied = 0 \/ c.applied = c.stored
  /\ c.boot # 0 => ~c.pty /\ c.spawns > 0
  /\ c.pty => ~c.pending
  /\ c.spawns = 0 => c.pending
  /\ c.boot # 0 /\ c.spawns = 1 => c.pending
Handlers == [size : Nat \ {0}, gen : Nat, at : {"resize", "record"}, now : BOOLEAN, crossed : BOOLEAN]
SizeTypeOK ==
  /\ win \in Nat /\ TuiOK(tui) /\ ProcOK(proc)
  /\ sends \subseteq Nat /\ kicks \subseteq Nat /\ toDaemon \in Seq(Nat)
  /\ resizing \subseteq Handlers
  /\ reports \in Seq([size : Nat, pending : BOOLEAN])

\* A handler that has resized the present child and not recorded it yet.
Live(h) == h.at = "record" /\ h.gen = proc.spawns

\* Handlers are of this child or of one before, and of none that is starting.
HandlersOK == \A h \in resizing : h.gen <= proc.spawns /\ (proc.boot # 0 => h.gen # proc.spawns)

\* The child runs at the daemon's size, or at that of a handler nothing crossed,
\* and starts at the daemon's, unless something crossed a resize.
KicksOK == proc.pty /\ ~proc.raced /\ (\A h \in resizing : ~Live(h)) => proc.real = proc.stored /\ kicks \subseteq {proc.stored}
UncrossedOK == \A h \in resizing : Live(h) /\ ~h.crossed => proc.real = h.size /\ kicks \subseteq {h.size}
BootOK == proc.boot # 0 => kicks = {} /\ (proc.raced \/ proc.boot = proc.stored)
ChildInv == HandlersOK /\ KicksOK /\ UncrossedOK /\ BootOK

\* A size on its way to the daemon, and to the child.
Sending(s) == s \in sends \/ \E i \in 1 .. Len(toDaemon) : toDaemon[i] = s
SizeOnWay(s) == Sending(s) \/ \E h \in resizing : h.size = s

\* Reports come over the link, and of a child once the first has been started.
ReportsOK ==
  /\ ~tui.up => reports = <<>> /\ ~tui.heard
  /\ \A i \in 1 .. Len(reports) : ~reports[i].pending => ~proc.pending
  /\ tui.once => ~proc.pending

\* Once the client has heard the daemon's present size, that is the window's or
\* the window's is on its way; and the first child's first resize is on its way
\* or has arrived.
HeardOK ==
  tui.heard => /\ win # 0
               /\ proc.pty => tui.once /\ (proc.stored = win \/ SizeOnWay(win))
AskedOK ==
  tui.up /\ tui.once /\ proc.pty /\ proc.spawns = 1 => proc.asked \/ \E s \in Nat \ {0} : Sending(s)

\* The inductive invariant.
SizeInv == SizeTypeOK /\ ChildInv /\ ReportsOK /\ HeardOK /\ AskedOK

\* A size sent is on its way, and one that is taken leaves the others there.
LEMMA SizeSent ==
  ASSUME NEW q \in Seq(Nat), NEW s \in Nat
  PROVE  /\ Append(q, s) \in Seq(Nat) /\ Append(q, s) # <<>>
         /\ \E i \in 1 .. Len(Append(q, s)) : Append(q, s)[i] = s
         /\ \A x : (\E i \in 1 .. Len(q) : q[i] = x) => \E i \in 1 .. Len(Append(q, s)) : Append(q, s)[i] = x
  <1>1. Append(q, s) \in Seq(Nat) /\ Len(Append(q, s)) = Len(q) + 1 /\ Append(q, s)[Len(q) + 1] = s
    OBVIOUS
  <1>2. \A i \in 1 .. Len(q) : Append(q, s)[i] = q[i]
    OBVIOUS
  <1>3. Len(q) \in Nat
    OBVIOUS
  <1>4. Append(q, s) # <<>>
    <2>1. Len(Append(q, s)) # 0
      BY <1>1, <1>3
    <2> QED BY <2>1
  <1>5. Len(q) + 1 \in 1 .. Len(Append(q, s))
    BY <1>1, <1>3
  <1>6. \A i \in 1 .. Len(q) : i \in 1 .. Len(Append(q, s))
    BY <1>1, <1>3
  <1> QED BY <1>1, <1>2, <1>4, <1>5, <1>6

\* A size taken off the queue leaves the others on their way.
LEMMA SizeTaken ==
  ASSUME NEW q \in Seq(Nat), q # <<>>
  PROVE  /\ Tail(q) \in Seq(Nat) /\ Head(q) \in Nat
         /\ \A x : (\E i \in 1 .. Len(q) : q[i] = x) => Head(q) = x \/ \E i \in 1 .. Len(Tail(q)) : Tail(q)[i] = x
  <1>1. /\ Tail(q) \in Seq(Nat) /\ Head(q) = q[1] /\ Len(Tail(q)) = Len(q) - 1 /\ Len(q) \in Nat
        /\ Len(q) # 0 /\ q[1] \in Nat
    OBVIOUS
  <1>2. \A i \in 1 .. Len(Tail(q)) : Tail(q)[i] = q[i + 1]
    OBVIOUS
  <1>3. ASSUME NEW x, NEW i \in 1 .. Len(q), q[i] = x, i # 1 PROVE \E j \in 1 .. Len(Tail(q)) : Tail(q)[j] = x
    <2>1. i - 1 \in 1 .. Len(Tail(q))
      BY <1>1, <1>3
    <2>2. Tail(q)[i - 1] = x
      <3>1. (i - 1) + 1 = i
        OBVIOUS
      <3> QED BY <1>2, <1>3, <2>1, <3>1
    <2> QED BY <2>1, <2>2
  <1> QED BY <1>1, <1>3

\* At the start nothing is on its way.
LEMMA SizeStarts == SizeInit => SizeInv
  <1> SUFFICES ASSUME SizeInit PROVE SizeInv
    OBVIOUS
  <1>1. win \in Nat /\ proc.stored \in Nat \ {0}
    BY SizeAssumption DEF SizeInit, Windows
  <1>2. PICK e : e = <<>>
    OBVIOUS
  <1>3. e \in Seq(Nat) /\ e \in Seq([size : Nat, pending : BOOLEAN]) /\ Len(e) = 0
    BY <1>2
  <1>4. toDaemon = e /\ reports = e
    BY <1>2 DEF SizeInit
  <1>5. SizeTypeOK
    BY <1>1, <1>3, <1>4 DEF SizeInit, SizeTypeOK, TuiOK, ProcOK
  <1>6. ReportsOK
    BY <1>3, <1>4 DEF SizeInit, ReportsOK
  <1>7. ChildInv /\ HeardOK /\ AskedOK
    BY DEF SizeInit, ChildInv, HandlersOK, KicksOK, UncrossedOK, BootOK, HeardOK, AskedOK
  <1> QED BY <1>5, <1>6, <1>7 DEF SizeInv

\* What the child's size rests on is the daemon's alone.
LEMMA ChildAlone ==
  ASSUME ChildInv, UNCHANGED <<kicks, resizing>>,
         proc'.pty = proc.pty, proc'.real = proc.real, proc'.stored = proc.stored, proc'.boot = proc.boot,
         proc'.spawns = proc.spawns, proc'.raced = proc.raced
  PROVE  ChildInv'
  BY DEF ChildInv, HandlersOK, KicksOK, UncrossedOK, BootOK, Live

\* A step of the client that leaves the pane, the link and what it has heard
\* alone, and may add a resize.
LEMMA ClientMoves ==
  ASSUME SizeInv, win' = win, TuiOK(tui'), sends' \subseteq Nat, sends \subseteq sends',
         UNCHANGED <<toDaemon, resizing, proc, kicks, reports>>,
         tui'.up = tui.up, tui'.once = tui.once, tui'.heard = tui.heard
  PROVE  SizeInv'
  <1>1. SizeTypeOK'
    BY DEF SizeInv, SizeTypeOK
  <1>2. ChildInv' /\ ReportsOK'
    BY ChildAlone DEF SizeInv, ReportsOK
  <1>3. HeardOK' /\ AskedOK'
    BY DEF SizeInv, HeardOK, AskedOK, SizeOnWay, Sending
  <1> QED BY <1>1, <1>2, <1>3 DEF SizeInv

\* A broadcast the client applies.
LEMMA ReportApplied ==
  ASSUME SizeInv, ApplyReport
  PROVE  SizeInv'
  <1>0. /\ win \in Nat /\ TuiOK(tui) /\ ProcOK(proc) /\ sends \subseteq Nat /\ toDaemon \in Seq(Nat) /\ kicks \subseteq Nat
        /\ reports \in Seq([size : Nat, pending : BOOLEAN])
        /\ resizing \subseteq Handlers /\ ChildInv /\ ReportsOK /\ HeardOK /\ AskedOK
    BY DEF SizeInv, SizeTypeOK
  <1>1. PICK r, q, t : r = Head(reports) /\ q = Tail(reports) /\ t = [tui EXCEPT !.box = tui.width]
    OBVIOUS
  <1>2. TuiOK(t) /\ t.box = tui.width /\ t.width = tui.width /\ t.up = tui.up /\ t.once = tui.once
    BY <1>0, <1>1 DEF TuiOK
  <1>3. PICK due, h : /\ due = ResizeDue(t, r)
                      /\ h = (/\ terminalPaintable(tui.width) /\ tui.width = win
                              /\ r = [size |-> proc.stored, pending |-> proc.pending])
    OBVIOUS
  <1>4. /\ reports # <<>> /\ reports' = q /\ UNCHANGED <<win, toDaemon, resizing, proc, kicks>>
        /\ sends' = sends \cup (IF due THEN {t.box} ELSE {})
        /\ tui' = [t EXCEPT !.once = t.once \/ due, !.heard = h]
    <2>1. resizeTabs(tui) = t
      BY <1>1 DEF resizeTabs
    <2>2. PICK d : d = diffResizes(t, r)
      OBVIOUS
    <2>3. d.tui = [t EXCEPT !.once = t.once \/ due] /\ d.sends = IF due THEN {t.box} ELSE {}
      BY <1>3, <2>2 DEF diffResizes
    <2>4. /\ reports # <<>> /\ reports' = q /\ UNCHANGED <<win, toDaemon, resizing, proc, kicks>>
          /\ tui' = [d.tui EXCEPT !.heard = h] /\ sends' = sends \cup d.sends
      BY <1>1, <1>3, <2>1, <2>2 DEF ApplyReport
    <2> QED BY <2>3, <2>4
  <1>5. /\ q \in Seq([size : Nat, pending : BOOLEAN]) /\ Len(q) = Len(reports) - 1 /\ Len(reports) \in Nat
        /\ Len(reports) # 0 /\ r = reports[1] /\ r \in [size : Nat, pending : BOOLEAN]
        /\ \A i \in 1 .. Len(q) : q[i] = reports[i + 1]
    <2>1. reports \in Seq([size : Nat, pending : BOOLEAN]) /\ reports # <<>>
      BY <1>0, <1>4
    <2>2. /\ Tail(reports) \in Seq([size : Nat, pending : BOOLEAN]) /\ Len(Tail(reports)) = Len(reports) - 1
          /\ Len(reports) \in Nat /\ Len(reports) # 0
      BY <2>1
    <2>3. \A i \in 1 .. Len(Tail(reports)) : Tail(reports)[i] = reports[i + 1]
      BY <2>1
    <2>4. Head(reports) = reports[1]
      BY <2>1
    <2>5. reports[1] \in [size : Nat, pending : BOOLEAN]
      <3>1. PICK R : R = [size : Nat, pending : BOOLEAN]
        OBVIOUS
      <3>2. reports \in Seq(R) /\ 1 \in 1 .. Len(reports)
        BY <2>1, <2>2, <3>1
      <3>3. reports[1] \in R
        BY <3>2
      <3> QED BY <3>1, <3>3
    <2> QED BY <1>1, <2>2, <2>3, <2>4, <2>5
  <1>6. due \in BOOLEAN /\ h \in BOOLEAN
    BY <1>3 DEF ResizeDue, terminalPaintable
  <1>7. TuiOK(tui') /\ tui'.up = tui.up /\ tui'.once = (tui.once \/ due) /\ tui'.heard = h
    <2>1. (t.once \/ due) \in BOOLEAN
      OBVIOUS
    <2> QED BY <1>2, <1>4, <1>6, <2>1 DEF TuiOK
  <1>8. tui.up
    BY <1>0, <1>4 DEF ReportsOK, TuiOK
  <1>9. ~r.pending => ~proc.pending
    BY <1>0, <1>5 DEF ReportsOK
  <1>10. due => tui.width # 0 /\ ~r.pending
    BY <1>2, <1>3 DEF ResizeDue, terminalPaintable
  <1>11. SizeTypeOK'
    <2>1. sends' \subseteq Nat
      BY <1>0, <1>2, <1>4 DEF TuiOK
    <2> QED BY <1>0, <1>4, <1>5, <1>7, <2>1 DEF SizeTypeOK
  <1>12. ChildInv'
    BY <1>0, <1>4, ChildAlone
  <1>13. ReportsOK'
    <2>1. \A i \in 1 .. Len(q) : ~q[i].pending => ~proc.pending
      <3>1. \A i \in 1 .. Len(q) : i + 1 \in 1 .. Len(reports)
        BY <1>5
      <3> QED BY <1>0, <1>5, <3>1 DEF ReportsOK
    <2>2. tui'.once => ~proc.pending
      BY <1>0, <1>7, <1>9, <1>10 DEF ReportsOK
    <2> QED BY <1>4, <1>7, <1>8, <2>1, <2>2 DEF ReportsOK
  <1>14. HeardOK'
    <2>1. SUFFICES ASSUME h PROVE win # 0 /\ (proc.pty => tui'.once /\ (proc.stored = win \/ win \in sends'))
      BY <1>4, <1>7 DEF HeardOK, SizeOnWay, Sending
    <2>2. tui.width = win /\ win # 0 /\ r.size = proc.stored /\ r.pending = proc.pending
      <3>1. /\ terminalPaintable(tui.width) /\ tui.width = win
            /\ r = [size |-> proc.stored, pending |-> proc.pending]
        BY <1>3, <2>1
      <3>2. r.size = proc.stored /\ r.pending = proc.pending
        BY <3>1
      <3>3. win # 0
        BY <3>1 DEF terminalPaintable
      <3> QED BY <3>1, <3>2, <3>3
    <2>3. CASE due
      BY <1>2, <1>4, <1>7, <2>2, <2>3
    <2>4. CASE proc.pty /\ ~due
      <3>1. tui.once /\ proc.stored = win
        BY <1>0, <1>2, <1>3, <2>2, <2>4 DEF ResizeDue, terminalPaintable, ProcOK
      <3> QED BY <1>7, <2>2, <3>1
    <2> QED BY <2>2, <2>3, <2>4
  <1>15. AskedOK'
    <2>1. CASE due
      <3>1. t.box \in Nat \ {0} /\ t.box \in sends'
        BY <1>0, <1>2, <1>4, <1>10, <2>1 DEF TuiOK
      <3> QED BY <3>1 DEF AskedOK, Sending
    <2>2. CASE ~due
      BY <1>0, <1>4, <1>7, <1>8, <2>2 DEF AskedOK, Sending
    <2> QED BY <2>1, <2>2
  <1> QED BY <1>11, <1>12, <1>13, <1>14, <1>15 DEF SizeInv

\* Handlers that differ only in the connection they answer to.
SameHandler(h, k) == k.size = h.size /\ k.gen = h.gen /\ k.at = h.at /\ k.crossed = h.crossed

\* Which connection a handler answers to does not matter to the child.
LEMMA HandlersMove ==
  ASSUME ChildInv, kicks' = kicks,
         proc'.pty = proc.pty, proc'.real = proc.real, proc'.stored = proc.stored, proc'.boot = proc.boot,
         proc'.spawns = proc.spawns, proc'.raced = proc.raced,
         \A k \in resizing' : \E h \in resizing : SameHandler(h, k),
         \A h \in resizing : \E k \in resizing' : SameHandler(h, k)
  PROVE  ChildInv'
  <1>1. HandlersOK' /\ BootOK'
    BY DEF ChildInv, HandlersOK, BootOK, SameHandler
  <1>2. KicksOK'
    <2>1. SUFFICES ASSUME \A k \in resizing' : ~Live(k)' PROVE \A h \in resizing : ~Live(h)
      BY DEF ChildInv, KicksOK
    <2> QED BY <2>1 DEF Live, SameHandler
  <1>3. UncrossedOK'
    BY DEF ChildInv, UncrossedOK, Live, SameHandler
  <1> QED BY <1>1, <1>2, <1>3 DEF ChildInv

\* What crossing does to one handler, and to all, or to all but the one that crosses.
CrossedFrom(g, x, gen, s) ==
  /\ x.size = g.size /\ x.gen = g.gen /\ x.at = g.at
  /\ x.crossed <=> g.crossed \/ (g.at = "record" /\ g.gen = gen /\ g.size # s)

\* Crossing leaves the handlers what they are but for the mark.
LEMMA CrossedAll ==
  ASSUME NEW hs, hs \subseteq Handlers, NEW gen, NEW s
  PROVE  /\ Crossed(hs, gen, s) \subseteq Handlers
         /\ \A x \in Crossed(hs, gen, s) : \E g \in hs : CrossedFrom(g, x, gen, s)
         /\ \A g \in hs : \E x \in Crossed(hs, gen, s) : CrossedFrom(g, x, gen, s)
  <1>1. ASSUME NEW g \in hs
        PROVE  LET x == [g EXCEPT !.crossed = g.crossed \/ (g.at = "record" /\ g.gen = gen /\ g.size # s)]
               IN x \in Handlers /\ CrossedFrom(g, x, gen, s)
    <2>1. PICK c : c = (g.crossed \/ (g.at = "record" /\ g.gen = gen /\ g.size # s))
      OBVIOUS
    <2>2. c \in BOOLEAN /\ g \in Handlers
      BY <2>1
    <2>3. PICK x : x = [g EXCEPT !.crossed = c]
      OBVIOUS
    <2>4. x \in Handlers /\ x.size = g.size /\ x.gen = g.gen /\ x.at = g.at /\ x.crossed = c
      BY <2>2, <2>3 DEF Handlers
    <2> QED BY <2>1, <2>3, <2>4 DEF CrossedFrom
  <1> QED BY <1>1 DEF Crossed

\* The same of all the handlers but the one that crosses them.
LEMMA CrossedHandlers ==
  ASSUME NEW hs, hs \subseteq Handlers, NEW h, NEW gen, NEW s
  PROVE  /\ Crossed(hs \ {h}, gen, s) \subseteq Handlers
         /\ \A x \in Crossed(hs \ {h}, gen, s) : \E g \in hs : CrossedFrom(g, x, gen, s)
         /\ \A g \in hs : g # h => \E x \in Crossed(hs \ {h}, gen, s) : CrossedFrom(g, x, gen, s)
  BY CrossedAll
\* Every step keeps the invariant.
LEMMA SizeKept ==
  ASSUME SizeInv, [SizeNext]_sizeVars
  PROVE  SizeInv'
  <1>0. /\ win \in Nat /\ TuiOK(tui) /\ ProcOK(proc) /\ sends \subseteq Nat /\ toDaemon \in Seq(Nat) /\ kicks \subseteq Nat
        /\ reports \in Seq([size : Nat, pending : BOOLEAN])
        /\ resizing \subseteq Handlers /\ ChildInv /\ ReportsOK /\ HeardOK /\ AskedOK
    BY DEF SizeInv, SizeTypeOK
  <1>1. CASE WindowChanges
    <2>1. PICK s \in Windows : win' = s
      BY <1>1 DEF WindowChanges
    <2>2. s \in Nat
      BY SizeAssumption DEF Windows
    <2>3. tui' = [tui EXCEPT !.heard = FALSE] /\ UNCHANGED <<sends, toDaemon, resizing, proc, kicks, reports>>
      BY <1>1 DEF WindowChanges
    <2>4. TuiOK(tui') /\ tui'.heard = FALSE /\ tui'.up = tui.up /\ tui'.once = tui.once
      BY <1>0, <2>3 DEF TuiOK
    <2>5. SizeTypeOK'
      BY <1>0, <2>1, <2>2, <2>3, <2>4 DEF SizeTypeOK
    <2>6. ChildInv' /\ ReportsOK'
      BY <1>0, <2>3, <2>4, ChildAlone DEF ReportsOK
    <2>7. HeardOK' /\ AskedOK'
      BY <1>0, <2>3, <2>4 DEF HeardOK, AskedOK, Sending
    <2> QED BY <2>5, <2>6, <2>7 DEF SizeInv
  <1>2. CASE WindowSize
    <2>1. PICK t : t = [tui EXCEPT !.pending = win, !.seq = tui.seq + 1]
      OBVIOUS
    <2>2. TuiOK(t) /\ t.up = tui.up /\ t.once = tui.once /\ t.heard = tui.heard
      BY <1>0, <2>1 DEF TuiOK
    <2>3. PICK a, b : a = [t EXCEPT !.sized = TRUE, !.width = win, !.box = win] /\ b = [t EXCEPT !.width = win]
      OBVIOUS
    <2>4. /\ TuiOK(a) /\ a.up = t.up /\ a.once = t.once /\ a.heard = t.heard
          /\ TuiOK(b) /\ b.up = t.up /\ b.once = t.once /\ b.heard = t.heard
      BY <1>0, <2>2, <2>3 DEF TuiOK
    <2>5. UNCHANGED <<win, toDaemon, resizing, proc, kicks, reports>>
      BY <1>2 DEF WindowSize
    <2>6. /\ tui' \in {t, a, b}
          /\ sends \subseteq sends' /\ sends' \subseteq sends \cup {AtRunTime}
      <3>1. resizeTabs([t EXCEPT !.sized = TRUE, !.width = win]) = a
        BY <1>0, <2>2, <2>3 DEF resizeTabs, TuiOK
      <3> QED BY <1>2, <2>1, <2>3, <3>1 DEF WindowSize, resizeAllPanes
    <2>7. TuiOK(tui') /\ tui'.up = tui.up /\ tui'.once = tui.once /\ tui'.heard = tui.heard
      BY <2>2, <2>4, <2>6
    <2>8. sends' \subseteq Nat
      BY <1>0, <2>6 DEF AtRunTime
    <2> QED BY <2>5, <2>6, <2>7, <2>8, ClientMoves
  <1>3. ASSUME NEW s \in sizeTicks, ResizeTick(s) PROVE SizeInv'
    <2>1. PICK t : t = [tui EXCEPT !.width = tui.pending, !.box = tui.pending]
      OBVIOUS
    <2>2. TuiOK(t) /\ t.up = tui.up /\ t.once = tui.once /\ t.heard = tui.heard
      BY <1>0, <2>1 DEF TuiOK
    <2>3. UNCHANGED <<win, toDaemon, resizing, proc, kicks, reports>>
      BY <1>3 DEF ResizeTick
    <2>4. /\ tui' \in {t, tui}
          /\ sends \subseteq sends' /\ sends' \subseteq sends \cup {AtRunTime}
      <3>1. resizeTabs([tui EXCEPT !.width = tui.pending]) = t
        BY <1>0, <2>1 DEF resizeTabs, TuiOK
      <3> QED BY <1>3, <3>1 DEF ResizeTick, resizeAllPanes
    <2>5. TuiOK(tui') /\ tui'.up = tui.up /\ tui'.once = tui.once /\ tui'.heard = tui.heard
      BY <1>0, <2>2, <2>4
    <2>6. sends' \subseteq Nat
      BY <1>0, <2>4 DEF AtRunTime
    <2> QED BY <2>3, <2>4, <2>5, <2>6, ClientMoves
  <1>4. CASE FullscreenDialog
    <2>1. tui' = [tui EXCEPT !.fullscreen = ~@] /\ UNCHANGED <<win, sends, toDaemon, resizing, proc, kicks, reports>>
      BY <1>4 DEF FullscreenDialog
    <2>2. TuiOK(tui') /\ tui'.up = tui.up /\ tui'.once = tui.once /\ tui'.heard = tui.heard
      BY <1>0, <2>1 DEF TuiOK
    <2> QED BY <1>0, <2>1, <2>2, ClientMoves
  <1>5. CASE ApplyReport
    BY <1>5, ReportApplied
  <1>6. ASSUME NEW s \in sends, RunSend(s) PROVE SizeInv'
    <2>1. PICK x : x = IF s = AtRunTime THEN tui.box ELSE s
      OBVIOUS
    <2>2. x \in Nat
      BY <1>0, <2>1 DEF TuiOK
    <2>3. /\ sends' = sends \ {s} /\ toDaemon' = IF tui.up THEN Append(toDaemon, x) ELSE toDaemon
          /\ UNCHANGED <<win, tui, resizing, proc, kicks, reports>>
      BY <1>6, <2>1 DEF RunSend
    <2>4. /\ Append(toDaemon, x) \in Seq(Nat) /\ Append(toDaemon, x) # <<>>
          /\ \E i \in 1 .. Len(Append(toDaemon, x)) : Append(toDaemon, x)[i] = x
          /\ \A y : (\E i \in 1 .. Len(toDaemon) : toDaemon[i] = y)
                    => \E i \in 1 .. Len(Append(toDaemon, x)) : Append(toDaemon, x)[i] = y
      BY <1>0, <2>2, SizeSent
    <2>5. SizeTypeOK' /\ ChildInv' /\ ReportsOK'
      BY <1>0, <2>3, <2>4, ChildAlone DEF SizeTypeOK, ReportsOK
    <2>6. HeardOK'
      <3>1. SUFFICES ASSUME tui.heard, proc.pty, SizeOnWay(win) PROVE SizeOnWay(win)'
        BY <1>0, <2>3 DEF HeardOK
      <3>2. tui.up /\ win # 0
        BY <1>0, <3>1 DEF ReportsOK, HeardOK, TuiOK
      <3>3. CASE win = s
        <4>1. x = win
          BY <2>1, <3>2, <3>3 DEF AtRunTime
        <4> QED BY <2>3, <2>4, <3>2, <4>1 DEF SizeOnWay, Sending
      <3>4. CASE win # s
        BY <2>3, <2>4, <3>1, <3>2, <3>4 DEF SizeOnWay, Sending
      <3> QED BY <3>3, <3>4
    <2>7. AskedOK'
      <3>1. SUFFICES ASSUME tui.up, NEW y \in Nat \ {0}, Sending(y) PROVE Sending(y)'
        BY <1>0, <2>3 DEF AskedOK
      <3>2. CASE y = s
        <4>1. x = y
          BY <2>1, <3>2 DEF AtRunTime
        <4> QED BY <2>3, <2>4, <3>1, <4>1 DEF Sending
      <3>3. CASE y # s
        BY <2>3, <2>4, <3>1, <3>3 DEF Sending
      <3> QED BY <3>2, <3>3
    <2> QED BY <2>5, <2>6, <2>7 DEF SizeInv
  <1>7. CASE SizeLinkCut
    <2>1. PICK e : e = <<>>
      OBVIOUS
    <2>2. e \in Seq(Nat) /\ e \in Seq([size : Nat, pending : BOOLEAN]) /\ Len(e) = 0
      BY <2>1
    <2>3. /\ tui' = [tui EXCEPT !.up = FALSE, !.heard = FALSE] /\ proc' = [proc EXCEPT !.asked = FALSE]
          /\ toDaemon' = e /\ reports' = e /\ UNCHANGED <<win, sends, kicks>>
          /\ resizing' = {[h EXCEPT !.now = FALSE] : h \in resizing}
      BY <1>7, <2>1 DEF SizeLinkCut
    <2>4. TuiOK(tui') /\ tui'.up = FALSE /\ tui'.heard = FALSE /\ tui'.once = tui.once
      BY <1>0, <2>3 DEF TuiOK
    <2>5. /\ ProcOK(proc') /\ proc'.pty = proc.pty /\ proc'.raced = proc.raced /\ proc'.real = proc.real
          /\ proc'.stored = proc.stored /\ proc'.boot = proc.boot /\ proc'.spawns = proc.spawns
          /\ proc'.pending = proc.pending
      BY <1>0, <2>3 DEF ProcOK
    <2>6. /\ resizing' \subseteq Handlers
          /\ \A k \in resizing' : \E h \in resizing : SameHandler(h, k)
          /\ \A h \in resizing : \E k \in resizing' : SameHandler(h, k)
      <3>1. ASSUME NEW h \in resizing PROVE [h EXCEPT !.now = FALSE] \in Handlers /\ SameHandler(h, [h EXCEPT !.now = FALSE])
        <4>1. h \in Handlers
          BY <1>0
        <4> QED BY <4>1 DEF Handlers, SameHandler
      <3> QED BY <2>3, <3>1
    <2>7. SizeTypeOK'
      BY <1>0, <2>2, <2>3, <2>4, <2>5, <2>6 DEF SizeTypeOK
    <2>8. ChildInv'
      BY <1>0, <2>3, <2>5, <2>6, HandlersMove
    <2>9. ReportsOK' /\ HeardOK' /\ AskedOK'
      BY <1>0, <2>1, <2>2, <2>3, <2>4, <2>5 DEF ReportsOK, HeardOK, AskedOK
    <2> QED BY <2>7, <2>8, <2>9 DEF SizeInv
  <1>8. CASE LinkBack
    <2>1. ~tui.up /\ tui' = [tui EXCEPT !.up = TRUE, !.once = FALSE] /\ UNCHANGED <<win, sends, toDaemon, resizing, proc, kicks, reports>>
      BY <1>8 DEF LinkBack
    <2>2. TuiOK(tui') /\ tui'.up = TRUE /\ tui'.heard = tui.heard /\ tui'.once = FALSE
      BY <1>0, <2>1 DEF TuiOK
    <2>3. ~tui.heard
      BY <1>0, <2>1 DEF ReportsOK
    <2>4. SizeTypeOK'
      BY <1>0, <2>1, <2>2 DEF SizeTypeOK
    <2>5. ChildInv' /\ ReportsOK' /\ HeardOK' /\ AskedOK'
      BY <1>0, <2>1, <2>2, <2>3, ChildAlone DEF ReportsOK, HeardOK, AskedOK
    <2> QED BY <2>4, <2>5 DEF SizeInv
  <1>9. CASE BroadcastSize
    <2>1. PICK r, q : r = [size |-> proc.stored, pending |-> proc.pending] /\ q = Append(reports, r)
      OBVIOUS
    <2>2. tui.up /\ reports' = q /\ UNCHANGED <<win, tui, sends, toDaemon, resizing, proc, kicks>>
      BY <1>9, <2>1 DEF BroadcastSize
    <2>3. r \in [size : Nat, pending : BOOLEAN] /\ (~r.pending => ~proc.pending)
      BY <1>0, <2>1 DEF ProcOK
    <2>4. /\ q \in Seq([size : Nat, pending : BOOLEAN]) /\ Len(q) = Len(reports) + 1 /\ q[Len(reports) + 1] = r
          /\ \A i \in 1 .. Len(reports) : q[i] = reports[i]
      BY <1>0, <2>1, <2>3
    <2>5. Len(reports) \in Nat
      BY <1>0
    <2>6. \A i \in 1 .. Len(q) : ~q[i].pending => ~proc.pending
      <3>1. \A i \in 1 .. Len(q) : i \in 1 .. Len(reports) \/ i = Len(reports) + 1
        BY <2>4, <2>5
      <3> QED BY <1>0, <2>3, <2>4, <3>1 DEF ReportsOK
    <2>7. SizeTypeOK'
      BY <1>0, <2>2, <2>4 DEF SizeTypeOK
    <2>8. ChildInv' /\ ReportsOK'
      BY <1>0, <2>2, <2>6, ChildAlone DEF ReportsOK
    <2>9. HeardOK' /\ AskedOK'
      BY <1>0, <2>2 DEF HeardOK, AskedOK, SizeOnWay, Sending
    <2> QED BY <2>7, <2>8, <2>9 DEF SizeInv
  <1>10. CASE HandleResizePane
    <2>1. PICK s, q, take : s = Head(toDaemon) /\ q = Tail(toDaemon) /\ take = (proc.pty /\ ~degenerateSize(s))
      OBVIOUS
    <2>2. PICK k : k = [size |-> s, gen |-> proc.spawns, at |-> "resize", now |-> TRUE, crossed |-> FALSE]
      OBVIOUS
    <2>3. /\ toDaemon # <<>> /\ toDaemon' = q /\ UNCHANGED <<win, tui, sends, kicks, reports>>
          /\ proc' = [proc EXCEPT !.asked = proc.asked \/ take]
          /\ resizing' = IF ~take \/ s = proc.applied THEN resizing ELSE resizing \cup {k}
      BY <1>10, <2>1, <2>2 DEF HandleResizePane
    <2>4. /\ q \in Seq(Nat) /\ s \in Nat
          /\ \A x : (\E i \in 1 .. Len(toDaemon) : toDaemon[i] = x) => s = x \/ \E i \in 1 .. Len(q) : q[i] = x
      BY <1>0, <2>1, <2>3, SizeTaken
    <2>5. take \in BOOLEAN /\ (take <=> proc.pty /\ s # 0)
      BY <1>0, <2>1 DEF degenerateSize, ProcOK
    <2>6. /\ ProcOK(proc') /\ proc'.pty = proc.pty /\ proc'.real = proc.real /\ proc'.stored = proc.stored
          /\ proc'.boot = proc.boot /\ proc'.spawns = proc.spawns /\ proc'.raced = proc.raced
          /\ proc'.pending = proc.pending /\ proc'.asked = (proc.asked \/ take)
      <3>1. (proc.asked \/ take) \in BOOLEAN
        OBVIOUS
      <3> QED BY <1>0, <2>3, <3>1 DEF ProcOK
    <2>7. k.size = s /\ k.gen = proc.spawns /\ k.at = "resize"
      BY <2>2
    <2>8. SizeTypeOK'
      <3>1. s # 0 => k \in Handlers
        BY <1>0, <2>2, <2>4 DEF Handlers, ProcOK
      <3>2. resizing' \subseteq Handlers
        BY <1>0, <2>3, <2>5, <3>1
      <3> QED BY <1>0, <2>3, <2>4, <2>6, <3>2 DEF SizeTypeOK
    <2>9. ChildInv'
      <3>1. CASE resizing' = resizing
        BY <1>0, <2>3, <2>6, <3>1, ChildAlone
      <3>2. CASE resizing' = resizing \cup {k} /\ proc.pty
        <4>1. proc.boot = 0 /\ proc.spawns \in Nat
          BY <1>0, <3>2 DEF ProcOK
        <4>2. ~Live(k) /\ ~Live(k)'
          BY <2>7 DEF Live
        <4>3. \A h : Live(h)' <=> Live(h)
          BY <2>6 DEF Live
        <4>4. HandlersOK' /\ BootOK'
          BY <1>0, <2>3, <2>6, <2>7, <3>2, <4>1 DEF ChildInv, HandlersOK, BootOK
        <4>5. KicksOK' /\ UncrossedOK'
          BY <1>0, <2>3, <2>6, <3>2, <4>2, <4>3 DEF ChildInv, KicksOK, UncrossedOK
        <4> QED BY <4>4, <4>5 DEF ChildInv
      <3> QED BY <2>3, <2>5, <3>1, <3>2
    <2>10. ReportsOK'
      BY <1>0, <2>3, <2>6 DEF ReportsOK
    <2>11. HeardOK'
      <3>1. SUFFICES ASSUME tui.heard, proc.pty PROVE proc.stored = win \/ SizeOnWay(win)'
        BY <1>0, <2>3, <2>6 DEF HeardOK
      <3>2. win # 0 /\ (proc.stored = win \/ SizeOnWay(win))
        BY <1>0, <3>1 DEF HeardOK
      <3>3. CASE s = win
        <4>1. take
          BY <2>5, <3>1, <3>2, <3>3
        <4>2. CASE s = proc.applied
          BY <1>0, <3>2, <3>3, <4>2 DEF ProcOK
        <4>3. CASE s # proc.applied
          <5>1. k \in resizing'
            BY <2>3, <4>1, <4>3
          <5>2. win' = win
            BY <2>3
          <5> QED BY <2>7, <3>3, <5>1, <5>2 DEF SizeOnWay
        <4> QED BY <4>2, <4>3
      <3>4. CASE s # win
        <4>1. resizing \subseteq resizing'
          BY <2>3
        <4> QED BY <2>3, <2>4, <3>2, <3>4, <4>1 DEF SizeOnWay, Sending
      <3> QED BY <3>3, <3>4
    <2>12. AskedOK'
      <3>1. SUFFICES ASSUME proc.pty, ~take, NEW y \in Nat \ {0}, Sending(y) PROVE Sending(y)'
        BY <1>0, <2>3, <2>6 DEF AskedOK
      <3>2. s # y
        BY <2>5, <3>1
      <3> QED BY <2>3, <2>4, <3>1, <3>2 DEF Sending
    <2> QED BY <2>8, <2>9, <2>10, <2>11, <2>12 DEF SizeInv
  <1>11. ASSUME NEW h \in resizing, ResizeChild(h) PROVE SizeInv'
    <2>0. h \in Handlers /\ h.at = "resize" /\ UNCHANGED <<win, sends, toDaemon, kicks, reports>>
      BY <1>0, <1>11 DEF ResizeChild
    <2>1. CASE resizing' = resizing \ {h} /\ tui' = [tui EXCEPT !.heard = FALSE] /\ UNCHANGED proc
      <3>1. TuiOK(tui') /\ tui'.up = tui.up /\ tui'.once = tui.once /\ tui'.heard = FALSE
        BY <1>0, <2>1 DEF TuiOK
      <3>2. SizeTypeOK'
        BY <1>0, <2>0, <2>1, <3>1 DEF SizeTypeOK
      <3>3. ChildInv'
        BY <1>0, <2>0, <2>1 DEF ChildInv, HandlersOK, KicksOK, UncrossedOK, BootOK, Live
      <3>4. ReportsOK' /\ HeardOK' /\ AskedOK'
        BY <1>0, <2>0, <2>1, <3>1 DEF ReportsOK, HeardOK, AskedOK, Sending
      <3> QED BY <3>2, <3>3, <3>4 DEF SizeInv
    <2>2. CASE /\ resizing' = Crossed(resizing \ {h}, h.gen, h.size)
                              \cup {[h EXCEPT !.at = "record", !.crossed = kicks \ {h.size} # {}]}
               /\ proc' = IF h.gen = proc.spawns THEN [proc EXCEPT !.real = h.size] ELSE proc
               /\ UNCHANGED tui
      <3>1. PICK k : k = [h EXCEPT !.at = "record", !.crossed = kicks \ {h.size} # {}]
        OBVIOUS
      <3>2. /\ k \in Handlers /\ k.size = h.size /\ k.gen = h.gen /\ k.at = "record"
            /\ k.crossed <=> kicks \ {h.size} # {}
        <4>1. (kicks \ {h.size} # {}) \in BOOLEAN
          OBVIOUS
        <4> QED BY <2>0, <3>1, <4>1 DEF Handlers
      <3>3. PICK R : R = Crossed(resizing \ {h}, h.gen, h.size)
        OBVIOUS
      <3>4. resizing' = R \cup {k}
        BY <2>2, <3>1, <3>3
      <3>5. /\ R \subseteq Handlers
            /\ \A x \in R : \E g \in resizing : CrossedFrom(g, x, h.gen, h.size)
            /\ \A g \in resizing : g # h => \E x \in R : CrossedFrom(g, x, h.gen, h.size)
        BY <1>0, <3>3, CrossedHandlers
      <3>6. /\ ProcOK(proc') /\ proc'.pty = proc.pty /\ proc'.stored = proc.stored /\ proc'.boot = proc.boot
            /\ proc'.spawns = proc.spawns /\ proc'.raced = proc.raced /\ proc'.asked = proc.asked
            /\ proc'.pending = proc.pending
            /\ proc'.real = IF h.gen = proc.spawns THEN h.size ELSE proc.real
        BY <1>0, <2>0, <2>2 DEF ProcOK, Handlers
      <3>7. SizeTypeOK'
        BY <1>0, <2>0, <2>2, <3>2, <3>4, <3>5, <3>6 DEF SizeTypeOK
      <3>8. HandlersOK' /\ BootOK'
        <4>1. h.gen <= proc.spawns /\ (proc.boot # 0 => h.gen # proc.spawns)
          BY <1>0 DEF ChildInv, HandlersOK
        <4>2. \A x \in R : x.gen <= proc.spawns /\ (proc.boot # 0 => x.gen # proc.spawns)
          BY <1>0, <3>5 DEF ChildInv, HandlersOK, CrossedFrom
        <4>3. HandlersOK'
          BY <3>2, <3>4, <3>6, <4>1, <4>2 DEF HandlersOK
        <4>4. BootOK'
          BY <1>0, <2>0, <3>6 DEF ChildInv, BootOK
        <4> QED BY <4>3, <4>4
      <3>9. KicksOK'
        <4>1. SUFFICES ASSUME proc.pty, ~proc.raced, h.gen # proc.spawns, \A x \in R : ~Live(x)'
                       PROVE  proc.real = proc.stored /\ kicks \subseteq {proc.stored}
          <5>1. Live(k)' <=> h.gen = proc.spawns
            BY <3>2, <3>6 DEF Live
          <5> QED BY <2>0, <3>4, <3>6, <5>1 DEF KicksOK
        <4>2. ~Live(h)
          BY <2>0 DEF Live
        <4>3. \A g \in resizing : ~Live(g)
          BY <3>5, <3>6, <4>1, <4>2 DEF Live, CrossedFrom
        <4> QED BY <1>0, <4>1, <4>3 DEF ChildInv, KicksOK
      <3>10. UncrossedOK'
        <4>1. SUFFICES ASSUME NEW x \in resizing', Live(x)', ~x.crossed
                       PROVE  proc'.real = x.size /\ kicks \subseteq {x.size}
          BY <2>0 DEF UncrossedOK
        <4>2. CASE x = k
          BY <3>2, <3>6, <4>1, <4>2 DEF Live
        <4>3. CASE x \in R
          <5>1. PICK g \in resizing : CrossedFrom(g, x, h.gen, h.size)
            BY <3>5, <4>3
          <5>2. Live(g) /\ ~g.crossed /\ g.size = x.size /\ (h.gen = proc.spawns => g.size = h.size)
            BY <3>6, <4>1, <5>1 DEF Live, CrossedFrom
          <5>3. proc.real = g.size /\ kicks \subseteq {g.size}
            BY <1>0, <5>2 DEF ChildInv, UncrossedOK
          <5> QED BY <3>6, <5>2, <5>3
        <4> QED BY <3>4, <4>1, <4>2, <4>3
      <3>11. ReportsOK'
        BY <1>0, <2>0, <2>2, <3>6 DEF ReportsOK
      <3>12. HeardOK'
        <4>1. SUFFICES ASSUME tui.heard, proc.pty, SizeOnWay(win) PROVE SizeOnWay(win)'
          BY <1>0, <2>0, <2>2, <3>6 DEF HeardOK
        <4>2. win' = win /\ (Sending(win) => Sending(win)')
          BY <2>0 DEF Sending
        <4>3. ASSUME NEW g \in resizing PROVE \E x \in resizing' : x.size = g.size
          <5>1. CASE g = h
            BY <3>2, <3>4, <5>1
          <5>2. CASE g # h
            BY <3>4, <3>5, <5>2 DEF CrossedFrom
          <5> QED BY <5>1, <5>2
        <4> QED BY <4>1, <4>2, <4>3 DEF SizeOnWay
      <3>13. AskedOK'
        BY <1>0, <2>0, <2>2, <3>6 DEF AskedOK, Sending
      <3> QED BY <3>7, <3>8, <3>9, <3>10, <3>11, <3>12, <3>13 DEF SizeInv, ChildInv
    <2> QED BY <1>11, <2>1, <2>2 DEF ResizeChild
  <1>12. ASSUME NEW h \in resizing, RecordSize(h) PROVE SizeInv'
    <2>0. /\ h \in Handlers /\ h.at = "record" /\ resizing' = resizing \ {h}
          /\ UNCHANGED <<win, sends, toDaemon, kicks, reports>>
      BY <1>0, <1>12 DEF RecordSize
    <2>1. PICK r : r = IF h.gen = proc.spawns THEN h.crossed ELSE proc.raced \/ h.size # proc.stored
      OBVIOUS
    <2>2. /\ proc' = [proc EXCEPT !.applied = h.size, !.stored = h.size, !.raced = r]
          /\ tui' = IF h.size = proc.stored THEN tui ELSE [tui EXCEPT !.heard = FALSE]
      BY <1>12, <2>1 DEF RecordSize
    <2>3. r \in BOOLEAN /\ h.size \in Nat \ {0}
      <3>1. (proc.raced \/ h.size # proc.stored) \in BOOLEAN
        OBVIOUS
      <3> QED BY <2>0, <2>1, <3>1 DEF Handlers
    <2>4. /\ ProcOK(proc') /\ proc'.pty = proc.pty /\ proc'.stored = h.size /\ proc'.boot = proc.boot
          /\ proc'.spawns = proc.spawns /\ proc'.raced = r /\ proc'.asked = proc.asked
          /\ proc'.pending = proc.pending /\ proc'.real = proc.real
      BY <1>0, <2>2, <2>3 DEF ProcOK
    <2>5. /\ TuiOK(tui') /\ tui'.up = tui.up /\ tui'.once = tui.once
          /\ tui'.heard => tui.heard /\ h.size = proc.stored
      BY <1>0, <2>2 DEF TuiOK
    <2>6. SizeTypeOK'
      BY <1>0, <2>0, <2>4, <2>5 DEF SizeTypeOK
    <2>7. HandlersOK'
      BY <1>0, <2>0, <2>4 DEF ChildInv, HandlersOK
    <2>8. BootOK'
      <3>1. SUFFICES ASSUME proc.boot # 0 PROVE kicks = {} /\ (r \/ proc.boot = h.size)
        BY <2>0, <2>4 DEF BootOK
      <3>2. kicks = {} /\ (proc.raced \/ proc.boot = proc.stored) /\ h.gen # proc.spawns
        BY <1>0, <3>1 DEF ChildInv, BootOK, HandlersOK
      <3> QED BY <2>1, <3>2
    <2>9. KicksOK'
      <3>1. SUFFICES ASSUME proc.pty, ~r, \A g \in resizing \ {h} : ~Live(g)
                     PROVE  proc.real = h.size /\ kicks \subseteq {h.size}
        BY <2>0, <2>4 DEF KicksOK, Live
      <3>2. CASE h.gen = proc.spawns
        <4>1. Live(h) /\ ~h.crossed
          BY <2>0, <2>1, <3>1, <3>2 DEF Live
        <4> QED BY <1>0, <4>1 DEF ChildInv, UncrossedOK
      <3>3. CASE h.gen # proc.spawns
        <4>1. ~proc.raced /\ h.size = proc.stored
          BY <2>1, <3>1, <3>3
        <4>2. \A g \in resizing : ~Live(g)
          BY <3>1, <3>3 DEF Live
        <4> QED BY <1>0, <3>1, <4>1, <4>2 DEF ChildInv, KicksOK
      <3> QED BY <3>2, <3>3
    <2>10. UncrossedOK'
      BY <1>0, <2>0, <2>4 DEF ChildInv, UncrossedOK, Live
    <2>11. ReportsOK'
      BY <1>0, <2>0, <2>4, <2>5 DEF ReportsOK
    <2>12. HeardOK'
      <3>1. SUFFICES ASSUME tui'.heard, proc.pty, proc.stored # win
                     PROVE  SizeOnWay(win)'
        BY <1>0, <2>0, <2>4, <2>5 DEF HeardOK
      <3>2. SizeOnWay(win) /\ h.size # win
        BY <1>0, <2>5, <3>1 DEF HeardOK
      <3> QED BY <2>0, <3>2 DEF SizeOnWay, Sending
    <2>13. AskedOK'
      BY <1>0, <2>0, <2>4, <2>5 DEF AskedOK, Sending
    <2> QED BY <2>6, <2>7, <2>8, <2>9, <2>10, <2>11, <2>12, <2>13 DEF SizeInv, ChildInv
  <1>13. CASE SpawnRead
    <2>1. /\ proc.boot = 0
          /\ proc' = [proc EXCEPT !.pty = FALSE, !.boot = proc.stored, !.spawns = proc.spawns + 1,
                                  !.raced = FALSE, !.asked = FALSE]
          /\ tui' = [tui EXCEPT !.heard = FALSE] /\ kicks' = {}
          /\ UNCHANGED <<win, sends, toDaemon, resizing, reports>>
      BY <1>13 DEF SpawnRead
    <2>2. proc.spawns \in Nat /\ proc.spawns + 1 \in Nat /\ proc.spawns + 1 > 0 /\ (proc.spawns + 1 = 1 => proc.pending)
      BY <1>0 DEF ProcOK
    <2>3. /\ ProcOK(proc') /\ proc'.pty = FALSE /\ proc'.boot = proc.stored /\ proc'.stored = proc.stored
          /\ proc'.spawns = proc.spawns + 1 /\ proc'.pending = proc.pending
      BY <1>0, <2>1, <2>2 DEF ProcOK
    <2>4. TuiOK(tui') /\ tui'.up = tui.up /\ tui'.once = tui.once /\ tui'.heard = FALSE
      BY <1>0, <2>1 DEF TuiOK
    <2>5. SizeTypeOK'
      BY <1>0, <2>1, <2>3, <2>4 DEF SizeTypeOK
    <2>6. \A h \in resizing : h.gen < proc.spawns + 1
      BY <1>0, <2>2 DEF ChildInv, HandlersOK, Handlers
    <2>7. HandlersOK' /\ UncrossedOK'
      <3>1. \A h \in resizing : h.gen \in Nat
        BY <1>0 DEF Handlers
      <3> QED BY <2>1, <2>2, <2>3, <2>6, <3>1 DEF HandlersOK, UncrossedOK, Live
    <2>8. KicksOK' /\ BootOK'
      BY <2>1, <2>3 DEF KicksOK, BootOK
    <2>9. ReportsOK' /\ HeardOK' /\ AskedOK'
      BY <1>0, <2>1, <2>3, <2>4 DEF ReportsOK, HeardOK, AskedOK
    <2> QED BY <2>5, <2>7, <2>8, <2>9 DEF SizeInv, ChildInv
  <1>14. CASE SpawnPublish
    <2>1. /\ proc.boot # 0 /\ tui' = [tui EXCEPT !.heard = FALSE]
          /\ UNCHANGED <<win, sends, toDaemon, resizing, kicks, reports>>
      BY <1>14 DEF SpawnPublish
    <2>2. TuiOK(tui') /\ tui'.up = tui.up /\ tui'.once = tui.once /\ tui'.heard = FALSE
      BY <1>0, <2>1 DEF TuiOK
    <2>3. /\ ProcOK(proc') /\ proc'.stored = proc.stored /\ proc'.spawns = proc.spawns /\ proc'.raced = proc.raced
          /\ proc'.boot = 0 /\ proc'.pending = FALSE
          /\ proc'.pty => proc'.real = proc.boot
      <3>1. CASE proc' = [proc EXCEPT !.pty = TRUE, !.real = proc.boot, !.applied = 0, !.boot = 0, !.pending = FALSE]
        BY <1>0, <2>1, <3>1 DEF ProcOK
      <3>2. CASE proc' = [proc EXCEPT !.boot = 0, !.pending = FALSE]
        BY <1>0, <2>1, <3>2 DEF ProcOK
      <3> QED BY <1>14, <3>1, <3>2 DEF SpawnPublish
    <2>4. SizeTypeOK'
      BY <1>0, <2>1, <2>2, <2>3 DEF SizeTypeOK
    <2>5. kicks = {} /\ (proc.raced \/ proc.boot = proc.stored)
      BY <1>0, <2>1 DEF ChildInv, BootOK
    <2>6. HandlersOK' /\ UncrossedOK'
      BY <1>0, <2>1, <2>3 DEF ChildInv, HandlersOK, UncrossedOK, Live
    <2>7. KicksOK' /\ BootOK'
      BY <2>1, <2>3, <2>5 DEF KicksOK, BootOK
    <2>8. ReportsOK' /\ HeardOK'
      BY <1>0, <2>1, <2>2, <2>3 DEF ReportsOK, HeardOK
    <2>9. AskedOK'
      BY <1>0, <2>1, <2>2, <2>3 DEF AskedOK, ReportsOK, ProcOK
    <2> QED BY <2>4, <2>6, <2>7, <2>8, <2>9 DEF SizeInv, ChildInv
  <1>15. CASE ReadKick
    <2>1. /\ proc.pty /\ kicks' = {proc.stored} /\ UNCHANGED <<win, tui, sends, toDaemon, proc, reports>>
          /\ resizing' = Crossed(resizing, proc.spawns, proc.stored)
      BY <1>15 DEF ReadKick
    <2>2. proc.stored \in Nat /\ proc.boot = 0
      BY <1>0, <2>1 DEF ProcOK
    <2>3. /\ resizing' \subseteq Handlers
          /\ \A x \in resizing' : \E g \in resizing : CrossedFrom(g, x, proc.spawns, proc.stored)
          /\ \A g \in resizing : \E x \in resizing' : CrossedFrom(g, x, proc.spawns, proc.stored)
      BY <1>0, <2>1, CrossedAll
    <2>4. SizeTypeOK' /\ ReportsOK'
      BY <1>0, <2>1, <2>2, <2>3 DEF SizeTypeOK, ReportsOK
    <2>5. HandlersOK' /\ BootOK'
      BY <1>0, <2>1, <2>2, <2>3 DEF ChildInv, HandlersOK, BootOK, CrossedFrom
    <2>6. KicksOK'
      <3>1. SUFFICES ASSUME ~proc.raced, \A x \in resizing' : ~Live(x)' PROVE proc.real = proc.stored
        BY <2>1 DEF KicksOK
      <3>2. \A g \in resizing : ~Live(g)
        BY <2>1, <2>3, <3>1 DEF Live, CrossedFrom
      <3> QED BY <1>0, <2>1, <3>1, <3>2 DEF ChildInv, KicksOK
    <2>7. UncrossedOK'
      <3>1. SUFFICES ASSUME NEW x \in resizing', Live(x)', ~x.crossed PROVE proc.real = x.size /\ proc.stored = x.size
        BY <2>1 DEF UncrossedOK
      <3>2. PICK g \in resizing : CrossedFrom(g, x, proc.spawns, proc.stored)
        BY <2>3
      <3>3. Live(g) /\ ~g.crossed /\ g.size = x.size /\ g.size = proc.stored
        BY <2>1, <3>1, <3>2 DEF Live, CrossedFrom
      <3> QED BY <1>0, <3>3 DEF ChildInv, UncrossedOK
    <2>8. HeardOK' /\ AskedOK'
      BY <1>0, <2>1, <2>3 DEF HeardOK, AskedOK, SizeOnWay, Sending, CrossedFrom
    <2> QED BY <2>4, <2>5, <2>6, <2>7, <2>8 DEF SizeInv, ChildInv
  <1>16. CASE ApplyKick
    <2>1. PICK s \in kicks : proc' = [proc EXCEPT !.real = s]
      BY <1>16 DEF ApplyKick
    <2>2. kicks' = {} /\ UNCHANGED <<win, tui, sends, toDaemon, resizing, reports>>
      BY <1>16 DEF ApplyKick
    <2>3. s \in Nat
      BY <1>0
    <2>4. /\ ProcOK(proc') /\ proc'.pty = proc.pty /\ proc'.real = s /\ proc'.stored = proc.stored
          /\ proc'.spawns = proc.spawns /\ proc'.asked = proc.asked /\ proc'.raced = proc.raced
          /\ proc'.boot = proc.boot /\ proc'.pending = proc.pending
      BY <1>0, <2>1, <2>3 DEF ProcOK
    <2>5. SizeTypeOK' /\ ReportsOK'
      BY <1>0, <2>2, <2>4 DEF SizeTypeOK, ReportsOK
    <2>6. ChildInv'
      <3>1. \A h : Live(h)' <=> Live(h)
        BY <2>4 DEF Live
      <3>2. HandlersOK' /\ BootOK'
        BY <1>0, <2>2, <2>4 DEF ChildInv, HandlersOK, BootOK
      <3>3. KicksOK' /\ UncrossedOK'
        BY <1>0, <2>2, <2>4, <3>1 DEF ChildInv, KicksOK, UncrossedOK
      <3> QED BY <3>2, <3>3 DEF ChildInv
    <2>7. HeardOK' /\ AskedOK'
      BY <1>0, <2>2, <2>4 DEF HeardOK, AskedOK, SizeOnWay, Sending
    <2> QED BY <2>5, <2>6, <2>7 DEF SizeInv
  <1>17. CASE UNCHANGED sizeVars
    BY <1>0, <1>17, ClientMoves DEF sizeVars
  <1> QED BY <1>1, <1>2, <1>3, <1>4, <1>5, <1>6, <1>7, <1>8, <1>9, <1>10, <1>11, <1>12, <1>13, <1>14, <1>15, <1>16, <1>17
          DEF SizeNext

\* At rest the child runs at the size the client draws it, unless a kick, a resize
\* of another connection or a restart crossed a resize, and the first child has
\* been asked for the resize every connection owes it: for any window sizes and
\* any number of window changes, broadcasts, spawns, failures and outages.
THEOREM SizesAgreeAtRest == SizeSpec => []SizesMeet
  <1>1. SizeInv => SizesMeet
    <2>1. SUFFICES ASSUME SizeInv, tui.heard, tui.up, proc.pty, sends = {}, toDaemon = <<>>, resizing = {}
                   PROVE  /\ proc.stored = win
                          /\ proc.real = win \/ proc.raced
                          /\ proc.spawns = 1 => proc.asked
      BY DEF SizesMeet
    <2>2. ~SizeOnWay(win)
      <3>1. Len(toDaemon) = 0
        BY <2>1
      <3> QED BY <2>1, <3>1 DEF SizeOnWay, Sending
    <2>3. tui.once /\ proc.stored = win
      BY <2>1, <2>2 DEF SizeInv, HeardOK
    <2>4. proc.real = win \/ proc.raced
      BY <2>1, <2>3 DEF SizeInv, ChildInv, KicksOK
    <2>5. proc.spawns = 1 => proc.asked
      <3>1. Len(toDaemon) = 0
        BY <2>1
      <3> QED BY <2>1, <2>3, <3>1 DEF SizeInv, AskedOK, Sending
    <2> QED BY <2>3, <2>4, <2>5
  <1> QED BY SizeStarts, SizeKept, <1>1, PTL DEF SizeSpec

-----------------------------------------------------------------------------
(* Routing of input                                                          *)

\* The fields of the routing state.
KeyFields == {"live", "tab", "act", "dialog", "confirm", "rename", "menu", "notes", "notesPane", "overlay",
              "sidebar", "sel", "drags", "pending", "pendingPane", "gen", "armed", "timers", "clip", "frozen", "did"}

\* The tabs and panes on screen exist.
KeyState(m) ==
    /\ DOMAIN m = KeyFields
    /\ m.live \subseteq KeyPanes /\ m.tab \in DOMAIN KeyTabs /\ DOMAIN m.act = DOMAIN KeyTabs

\* A pending chord was armed in the pane it belongs to.
ChordOK(m) == m.pending => m.gen \in m.timers /\ m.armed = m.pendingPane

\* What the last input did reached its pane.
AimOK(m) ==
    /\ m.did.at = m.did.aim
    /\ m.did.kind = "input" => ~m.frozen /\ m.did.at \in m.live

\* One drag; behind a menu neither a drag nor a selection nor a dialog the user
\* opened.
MenuOK(m) ==
    /\ \A x, y \in m.drags : x = y
    /\ m.menu # NoneKey => m.drags = {} /\ m.sel = NoneKey /\ m.dialog \notin {"modal", "viewer"}

\* The inductive invariant of input routing.
KeyOK(m) == KeyState(m) /\ ChordOK(m) /\ AimOK(m) /\ MenuOK(m)

\* Nothing is over the panes.
Bare(m) == m.menu = NoneKey /\ m.dialog = "none"

\* A pane's tab is one of the tabs.
LEMMA KeyTabExists ==
    ASSUME NEW p \in KeyPanes
    PROVE  KeyTabOf(p) \in DOMAIN KeyTabs
  BY DEF KeyTabOf, KeyPanes

\* Cancelling a chord.
LEMMA CancelKeeps ==
    ASSUME NEW m, KeyOK(m)
    PROVE  /\ KeyOK(cancelSequence(m))
           /\ Bare(m) => Bare(cancelSequence(m))
           /\ ~cancelSequence(m).pending
           /\ cancelSequence(m).tab = m.tab /\ cancelSequence(m).act = m.act
           /\ cancelSequence(m).menu = m.menu /\ cancelSequence(m).dialog = m.dialog
  BY DEF KeyOK, KeyState, ChordOK, AimOK, MenuOK, KeyFields, cancelSequence, Bare

\* The small changes.
LEMMA DragKeeps ==
    ASSUME NEW m, KeyOK(m)
    PROVE  /\ KeyOK(clearDragState(m))
           /\ \A x : m.menu = NoneKey => KeyOK(Drag(m, x))
           /\ KeyOK(closeCtxMenu(m))
           /\ m.dialog = "none" => Bare(closeCtxMenu(m))
           /\ \A p : m.dialog = "none" => KeyOK(openCtxMenu(m, p))
           /\ closeCtxMenu(m).tab = m.tab /\ closeCtxMenu(m).act = m.act /\ closeCtxMenu(m).live = m.live
  BY DEF KeyOK, KeyState, ChordOK, AimOK, MenuOK, KeyFields, clearDragState, Drag, closeCtxMenu,
     openCtxMenu, Bare

\* Leaving and toggling the notes.
LEMMA NotesKeep ==
    ASSUME NEW m, KeyOK(m)
    PROVE  /\ KeyOK(exitNotesModeInPlace(m))
           /\ Bare(m) => Bare(exitNotesModeInPlace(m))
           /\ exitNotesModeInPlace(m).tab = m.tab /\ exitNotesModeInPlace(m).act = m.act
           /\ KeyOK(toggleNotesMode(m))
  BY DEF KeyOK, KeyState, ChordOK, AimOK, MenuOK, KeyFields, exitNotesModeInPlace, toggleNotesMode, Bare

\* Going to a tab and going to a pane.
LEMMA GoingKeeps ==
    ASSUME NEW m, KeyOK(m)
    PROVE  /\ \A t \in DOMAIN KeyTabs : /\ KeyOK(keysSwitchTab(m, t))
                                        /\ Bare(m) => Bare(keysSwitchTab(m, t))
           /\ \A p \in m.live : /\ KeyOK(keysJumpToPane(m, p)) /\ KeyOK(focusSidebarPane(m, p))
                                /\ focusSidebarPane(m, p).dialog = m.dialog
  <1> USE KeyTabExists DEF KeyOK, KeyState, ChordOK, AimOK, MenuOK, KeyFields, exitNotesModeInPlace
  <1>1. ASSUME NEW t \in DOMAIN KeyTabs
        PROVE  KeyOK(keysSwitchTab(m, t)) /\ (Bare(m) => Bare(keysSwitchTab(m, t)))
    BY DEF keysSwitchTab, Bare
  <1>2. ASSUME NEW p \in m.live
        PROVE  /\ KeyOK(keysJumpToPane(m, p)) /\ KeyOK(focusSidebarPane(m, p))
               /\ focusSidebarPane(m, p).dialog = m.dialog
    BY DEF keysSwitchTab, keysJumpToPane, focusSidebarPane
  <1> QED BY <1>1, <1>2

\* The next pane and the next tab exist.
LEMMA MovesKeep ==
    ASSUME NEW m, KeyOK(m)
    PROVE  KeyOK(NextPane(m)) /\ KeyOK(NextTab(m))
  <1>1. KeyOK(NextPane(m))
    BY DEF KeyOK, KeyState, ChordOK, AimOK, MenuOK, KeyFields, NextPane
  <1>2. PICK t \in DOMAIN KeyTabs : NextTab(m) = keysSwitchTab(m, t)
    <2>1. m.tab \in DOMAIN KeyTabs
      BY DEF KeyOK, KeyState
    <2>2. CASE {t \in DOMAIN KeyTabs : t # m.tab /\ Leaves(m, t) # {}} = {}
      BY <2>1, <2>2 DEF NextTab
    <2>3. CASE {t \in DOMAIN KeyTabs : t # m.tab /\ Leaves(m, t) # {}} # {}
      BY <2>3 DEF NextTab
    <2> QED BY <2>2, <2>3
  <1> QED BY <1>1, <1>2, GoingKeeps

\* Input goes to the pane it was meant for, or nowhere.
LEMMA EnqueueKeeps ==
    ASSUME NEW m, KeyOK(m), NEW p
    PROVE  KeyOK(enqueueInput(m, p, p))
  BY DEF KeyOK, KeyState, ChordOK, AimOK, MenuOK, KeyFields, enqueueInput, Did

\* A key no one took goes to the active pane.
LEMMA ForwardKeeps ==
    ASSUME NEW m, KeyOK(m)
    PROVE  KeyOK(forwardKey(m))
  BY DEF KeyOK, KeyState, ChordOK, AimOK, MenuOK, KeyFields, enqueueInput, Did, forwardKey, ActivePane

\* A selection begins where nothing covers the panes.
LEMMA SelectionKeeps ==
    ASSUME NEW m, KeyOK(m), Bare(m)
    PROVE  KeyOK(handleSelectionKey(m))
  BY DEF KeyOK, KeyState, ChordOK, AimOK, MenuOK, KeyFields, enqueueInput, Did, handleSelectionKey,
     ActivePane, Bare

\* An action performed with the active pane as its aim.
LEMMA PerformKeeps ==
    ASSUME NEW m, KeyOK(m), Bare(m), NEW a \in Actions
    PROVE  KeyOK(Perform(m, a, ActivePane(m)))
  <1>1. CASE a \in {"pane.left", "pane.right"}
    BY <1>1, MovesKeep DEF Perform
  <1>2. CASE a = "tab.next"
    BY <1>2, MovesKeep DEF Perform
  <1>3. CASE a = "pane.quick_actions"
    BY <1>3, DragKeeps DEF Perform, Bare
  <1>4. CASE a = "pane.next"
    <2>1. PICK n : n = NextPane(m)
      OBVIOUS
    <2>2. KeyOK(n)
      BY <2>1, MovesKeep
    <2>3. Perform(m, a, ActivePane(m)) = Did(n, a, ActivePane(m), ActivePane(m))
      BY <2>1, <1>4 DEF Perform
    <2> QED BY <1>4, <2>2, <2>3 DEF KeyOK, KeyState, ChordOK, AimOK, MenuOK, KeyFields, Did
  <1>5. CASE a = "pane.notes_toggle"
    <2>1. PICK n : n = toggleNotesMode(m)
      OBVIOUS
    <2>2. KeyOK(n)
      BY <2>1, NotesKeep
    <2>3. Perform(m, a, ActivePane(m)) = Did(n, a, ActivePane(m), ActivePane(m))
      BY <2>1, <1>5 DEF Perform
    <2> QED BY <1>5, <2>2, <2>3 DEF KeyOK, KeyState, ChordOK, AimOK, MenuOK, KeyFields, Did
  <1>6. CASE a \in {"pane.close", "pane.restart", "pane.rename", "tab.rename", "pane.paste"}
    <2>1. PICK p : p = ActivePane(m)
      OBVIOUS
    <2>2. CASE a \in {"pane.close", "pane.restart"}
      BY <2>1, <2>2 DEF KeyOK, KeyState, ChordOK, AimOK, MenuOK, KeyFields, Did, Perform, Bare,
         keysOpenClosePaneConfirm
    <2>3. CASE a \in {"pane.rename", "tab.rename"}
      BY <2>1, <2>3 DEF KeyOK, KeyState, ChordOK, AimOK, MenuOK, KeyFields, Did, Perform, Bare
    <2>4. CASE a = "pane.paste"
      BY <2>1, <2>4 DEF KeyOK, KeyState, ChordOK, AimOK, MenuOK, KeyFields, Did, Perform, Bare,
         pasteClipboard
    <2> QED BY <1>6, <2>2, <2>3, <2>4
  <1>7. CASE a \in {"notification.toggle", "notification.focus", "pane.toggle_lazygit", "about"}
    BY <1>7 DEF KeyOK, KeyState, ChordOK, AimOK, MenuOK, KeyFields, Perform, Bare
  <1> QED BY <1>1, <1>2, <1>3, <1>4, <1>5, <1>6, <1>7 DEF Actions, Early, Late

\* Every outcome in S is in order.
AllOK(S) == \A n \in S : KeyOK(n)

\* The sidebar's keys, Enter included.
LEMMA NotificationKeeps ==
    ASSUME NEW m, KeyOK(m), NEW k
    PROVE  AllOK(handleNotificationKey(m, k))
  <1>1. KeyOK([m EXCEPT !.sidebar = FALSE]) /\ [m EXCEPT !.sidebar = FALSE].live = m.live
    BY DEF KeyOK, KeyState, ChordOK, AimOK, MenuOK, KeyFields
  <1>2. ASSUME NEW p \in m.live
        PROVE  KeyOK(keysJumpToPane([m EXCEPT !.sidebar = FALSE], p))
    <2>1. PICK n : n = [m EXCEPT !.sidebar = FALSE]
      OBVIOUS
    <2> QED BY <1>1, <2>1, GoingKeeps
  <1>3. CASE k.chord = "esc"
    BY <1>1, <1>3 DEF AllOK, handleNotificationKey
  <1>4. CASE k.chord = "enter"
    BY <1>2, <1>4 DEF AllOK, handleNotificationKey
  <1>5. CASE k.chord \notin {"esc", "enter"}
    BY <1>5 DEF AllOK, handleNotificationKey
  <1> QED BY <1>3, <1>4, <1>5

\* The tiers after the sequence machine.
LEMMA TiersKeep ==
    ASSUME NEW m, KeyOK(m), Bare(m), NEW a \in Actions \cup {NoAction}, NEW aim, NEW k \in AllKeys,
           a # NoAction => aim = ActivePane(m)
    PROVE  AllOK(handleTiers(m, a, aim, k))
  <1>0. NoAction \notin Actions
    BY DEF NoAction, Actions, Early, Late
  <1>1. CASE a # NoAction
    BY <1>1, PerformKeeps DEF handleTiers, AllOK
  <1>2. CASE a = NoAction
    <2>1. PICK single : single = IF k.chord = "single" THEN k.action ELSE NoAction
      OBVIOUS
    <2>2. CASE single \in Early
      <3>1. handleTiers(m, a, aim, k) = {Perform(m, single, ActivePane(m))}
        BY <1>2, <2>1, <2>2 DEF handleTiers
      <3> QED BY <2>2, <3>1, PerformKeeps DEF AllOK, Actions
    <2>3. CASE single \notin Early /\ m.sidebar
      <3>1. handleTiers(m, a, aim, k) = handleNotificationKey(m, k)
        BY <1>2, <2>1, <2>3 DEF handleTiers
      <3> QED BY <3>1, NotificationKeeps
    <2>4. CASE single \notin Early /\ ~m.sidebar /\ m.sel # NoneKey /\ k.chord \in {"esc", "enter"}
      <3>1. handleTiers(m, a, aim, k) = {[m EXCEPT !.sel = NoneKey]}
        BY <1>2, <2>1, <2>4 DEF handleTiers
      <3>2. KeyOK([m EXCEPT !.sel = NoneKey])
        BY DEF KeyOK, KeyState, ChordOK, AimOK, MenuOK, KeyFields
      <3> QED BY <3>1, <3>2 DEF AllOK
    <2>5. CASE single \notin Early /\ ~m.sidebar /\ ~(m.sel # NoneKey /\ k.chord \in {"esc", "enter"})
      <3>1. CASE k.chord = "extend"
        <4>1. handleTiers(m, a, aim, k) = {handleSelectionKey(m)}
          BY <1>2, <2>1, <2>5, <3>1 DEF handleTiers
        <4> QED BY <4>1, SelectionKeeps DEF AllOK
      <3>2. CASE k.chord # "extend" /\ single \in Late
        <4>1. handleTiers(m, a, aim, k) = {Perform(m, single, ActivePane(m))}
          BY <1>2, <2>1, <2>5, <3>2 DEF handleTiers
        <4> QED BY <3>2, <4>1, PerformKeeps DEF AllOK, Actions
      <3>3. CASE k.chord # "extend" /\ single \notin Late
        <4>1. handleTiers(m, a, aim, k) = {forwardKey(m)}
          BY <1>2, <2>1, <2>5, <3>3 DEF handleTiers
        <4> QED BY <4>1, ForwardKeeps DEF AllOK
      <3> QED BY <3>1, <3>2, <3>3
    <2> QED BY <2>2, <2>3, <2>4, <2>5
  <1> QED BY <1>1, <1>2

\* The sequence machine: what it hands on is in order, and an action it completes
\* is performed in the pane the chord was armed in.
Stepped(m, s) ==
    /\ s.consumed => KeyOK(armSequenceTimeout(s.m))
    /\ ~s.consumed => /\ KeyOK(s.m) /\ Bare(s.m)
                      /\ s.action \in Actions \cup {NoAction}
                      /\ s.action # NoAction => m.armed = ActivePane(s.m)

\* A chord pressed while a pending one, if any, belongs to the active pane.
LEMMA StepFromKeeps ==
    ASSUME NEW m, KeyOK(m), Bare(m), NEW k \in AllKeys,
           m.pending => ActivePane(m) = m.pendingPane
    PROVE  Stepped(m, stepFrom(m, k))
  <1>0. k.chord = "second" => k.action \in Actions
    BY DEF AllKeys, Key
  <1>1. KeyOK(cancelSequence(m)) /\ Bare(cancelSequence(m)) /\ ActivePane(cancelSequence(m)) = ActivePane(m)
        /\ ~cancelSequence(m).pending
    BY CancelKeeps DEF ActivePane
  <1>2. CASE k.chord = "prefix" /\ m.pending
    <2>1. stepFrom(m, k) = Step(cancelSequence(m), NoAction, FALSE)
      BY <1>2 DEF stepFrom
    <2> QED BY <1>1, <2>1 DEF Step, Stepped
  <1>3. CASE k.chord = "prefix" /\ ~m.pending
    <2>1. PICK n : n = [m EXCEPT !.pending = TRUE, !.pendingPane = ActivePane(m), !.gen = @ + 1,
                                 !.armed = ActivePane(m)]
      OBVIOUS
    <2>2. stepFrom(m, k) = Step(n, NoAction, TRUE)
      BY <1>3, <2>1 DEF stepFrom
    <2>3. KeyOK(armSequenceTimeout(n))
      BY <2>1 DEF KeyOK, KeyState, ChordOK, AimOK, MenuOK, KeyFields, armSequenceTimeout
    <2> QED BY <2>2, <2>3 DEF Step, Stepped
  <1>4. CASE k.chord # "prefix" /\ ~m.pending
    <2>1. stepFrom(m, k) = Step(m, NoAction, FALSE)
      BY <1>4 DEF stepFrom
    <2> QED BY <2>1 DEF Step, Stepped
  <1>5. CASE k.chord = "second" /\ m.pending
    <2>1. stepFrom(m, k) = Step(cancelSequence(m), k.action, FALSE)
      BY <1>5 DEF stepFrom
    <2>2. m.armed = ActivePane(m)
      BY <1>5 DEF KeyOK, ChordOK
    <2> QED BY <1>0, <1>1, <1>5, <2>1, <2>2 DEF Step, Stepped
  <1>6. CASE k.chord \notin {"prefix", "second"} /\ m.pending
    <2>1. stepFrom(m, k) = Step(cancelSequence(m), NoAction, TRUE)
      BY <1>6 DEF stepFrom
    <2>2. armSequenceTimeout(cancelSequence(m)) = cancelSequence(m)
      BY <1>1 DEF armSequenceTimeout
    <2> QED BY <1>1, <2>1, <2>2 DEF Step, Stepped
  <1> QED BY <1>2, <1>3, <1>4, <1>5, <1>6

\* A pending chord of another pane is cancelled first.
LEMMA StepKeeps ==
    ASSUME NEW m, KeyOK(m), Bare(m), NEW k \in AllKeys
    PROVE  Stepped(m, stepSequence(m, k))
  <1>1. CASE m.pending /\ ActivePane(m) # m.pendingPane
    <2>1. PICK n : n = cancelSequence(m)
      OBVIOUS
    <2>2. KeyOK(n) /\ Bare(n) /\ ~n.pending
      BY <2>1, CancelKeeps
    <2>3. Stepped(n, stepFrom(n, k))
      BY <2>2, StepFromKeeps
    <2>4. stepSequence(m, k) = stepFrom(n, k)
      BY <1>1, <2>1 DEF stepSequence
    <2>5. ~stepFrom(n, k).consumed => stepFrom(n, k).action = NoAction
      BY <2>2 DEF stepFrom, Step
    <2> QED BY <2>3, <2>4, <2>5 DEF Stepped
  <1>2. CASE ~(m.pending /\ ActivePane(m) # m.pendingPane)
    <2>1. stepSequence(m, k) = stepFrom(m, k)
      BY <1>2 DEF stepSequence
    <2> QED BY <1>2, <2>1, StepFromKeeps
  <1> QED BY <1>1, <1>2

\* A key that reaches the sequence machine.
LEMMA SequencedKeeps ==
    ASSUME NEW m, KeyOK(m), Bare(m), NEW k \in AllKeys
    PROVE  AllOK(handleSequenced(m, k))
  <1>1. PICK s : s = IF m.sidebar \/ m.sel # NoneKey THEN Step(m, NoAction, FALSE) ELSE stepSequence(m, k)
    OBVIOUS
  <1>2. Stepped(m, s)
    BY <1>1, StepKeeps DEF Step, Stepped
  <1>3. CASE s.consumed
    <2>1. handleSequenced(m, k) = {armSequenceTimeout(s.m)}
      BY <1>1, <1>3 DEF handleSequenced
    <2> QED BY <1>2, <1>3, <2>1 DEF AllOK, Stepped
  <1>4. CASE ~s.consumed /\ s.m.notes # NoneKey /\ s.action \in {"pane.notes_toggle", "pane.left", "pane.right"}
    <2>1. PICK n : n = s.m
      OBVIOUS
    <2>2. handleSequenced(m, k) = {seqInNotes(n, s.action)}
      BY <1>1, <1>4, <2>1 DEF handleSequenced
    <2>3. KeyOK(n)
      BY <1>2, <1>4, <2>1 DEF Stepped
    <2>4. KeyOK(exitNotesModeInPlace(n)) /\ KeyOK([n EXCEPT !.notesPane = TRUE]) /\ KeyOK([n EXCEPT !.notesPane = FALSE])
      BY <2>3 DEF KeyOK, KeyState, ChordOK, AimOK, MenuOK, KeyFields, exitNotesModeInPlace
    <2>5. KeyOK(seqInNotes(n, s.action))
      BY <1>4, <2>4 DEF seqInNotes
    <2> QED BY <2>2, <2>5 DEF AllOK
  <1>5. CASE ~s.consumed /\ ~(s.m.notes # NoneKey /\ s.action \in {"pane.notes_toggle", "pane.left", "pane.right"})
    <2>1. PICK n : n = IF s.m.notes # NoneKey /\ s.action \in Structural THEN exitNotesModeInPlace(s.m) ELSE s.m
      OBVIOUS
    <2>2. handleSequenced(m, k) = handleTiers(n, s.action, m.armed, k)
      BY <1>1, <1>5, <2>1 DEF handleSequenced
    <2>3. KeyOK(s.m) /\ Bare(s.m) /\ s.action \in Actions \cup {NoAction}
          /\ (s.action # NoAction => m.armed = ActivePane(s.m))
      BY <1>2, <1>5 DEF Stepped
    <2>4. KeyOK(n) /\ Bare(n) /\ ActivePane(n) = ActivePane(s.m)
      BY <2>1, <2>3, NotesKeep DEF ActivePane
    <2> QED BY <2>2, <2>3, <2>4, TiersKeep
  <1> QED BY <1>3, <1>4, <1>5

\* A key the notes did not take.
LEMMA AfterNotesKeeps ==
    ASSUME NEW m, KeyOK(m), Bare(m), NEW k \in AllKeys
    PROVE  AllOK(handleAfterNotes(m, k))
  <1>1. CASE m.tab \in m.overlay
    <2>1. KeyOK([m EXCEPT !.overlay = @ \ {m.tab}])
      BY DEF KeyOK, KeyState, ChordOK, AimOK, MenuOK, KeyFields
    <2>2. AllOK(handleOverlayKey(m, k))
      BY <2>1, MovesKeep, ForwardKeeps DEF handleOverlayKey, AllOK
    <2> QED BY <1>1, <2>2 DEF handleAfterNotes
  <1>2. CASE m.tab \notin m.overlay
    BY <1>2, SequencedKeeps DEF handleAfterNotes
  <1> QED BY <1>1, <1>2

\* A key while the notes are open.
LEMMA NotesKeyKeeps ==
    ASSUME NEW m, KeyOK(m), Bare(m), NEW k \in AllKeys
    PROVE  AllOK(handleNotesKey(m, k))
  <1>1. KeyOK([m EXCEPT !.notesPane = TRUE]) /\ KeyOK([m EXCEPT !.notesPane = FALSE])
    BY DEF KeyOK, KeyState, ChordOK, AimOK, MenuOK, KeyFields
  <1>2. KeyOK(exitNotesModeInPlace(m)) /\ AllOK(handleAfterNotes(exitNotesModeInPlace(m), k))
    BY NotesKeep, AfterNotesKeeps
  <1>3. AllOK(handleAfterNotes(m, k))
    BY AfterNotesKeeps
  <1>4. PICK A, B, n : A = handleAfterNotes(m, k) /\ n = exitNotesModeInPlace(m) /\ B = handleAfterNotes(n, k)
    OBVIOUS
  <1>5. handleNotesKey(m, k) \in {A, B, {n}, {m}, {[m EXCEPT !.notesPane = TRUE]}, {[m EXCEPT !.notesPane = FALSE]}}
    BY <1>4 DEF handleNotesKey
  <1> QED BY <1>1, <1>2, <1>3, <1>4, <1>5 DEF AllOK

\* A menu item, in a pane of the tab on screen or not at all.
LEMMA MenuItemKeeps ==
    ASSUME NEW m, KeyOK(m), m.dialog = "none", NEW a \in CtxActions
    PROVE  KeyOK(executeCtxMenuItem(m, a))
  <1>1. PICK n : n = closeCtxMenu(m)
    OBVIOUS
  <1>2. KeyOK(n) /\ Bare(n) /\ n.tab = m.tab
    BY <1>1, DragKeeps
  <1>3. CASE m.menu \notin m.live \/ KeyTabOf(m.menu) # m.tab
    BY <1>1, <1>2, <1>3 DEF executeCtxMenuItem
  <1>4. CASE ~(m.menu \notin m.live \/ KeyTabOf(m.menu) # m.tab)
    <2>1. PICK o : o = [n EXCEPT !.act[m.tab] = m.menu]
      OBVIOUS
    <2>2. executeCtxMenuItem(m, a) = Perform(o, a, m.menu)
      BY <1>1, <1>4, <2>1 DEF executeCtxMenuItem
    <2>3. KeyOK(o) /\ Bare(o) /\ ActivePane(o) = m.menu
      BY <1>2, <2>1 DEF KeyOK, KeyState, ChordOK, AimOK, MenuOK, KeyFields, Bare, ActivePane
    <2>4. a \in Actions
      BY DEF CtxActions, Actions, Early, Late
    <2> QED BY <2>2, <2>3, <2>4, PerformKeeps
  <1> QED BY <1>3, <1>4

\* A key, whatever is open.
LEMMA KeyKeeps ==
    ASSUME NEW m, KeyOK(m), NEW k \in AllKeys
    PROVE  AllOK(handleKey(m, k))
  <1>1. CASE m.dialog # "none"
    <2>1. PICK n : n = cancelSequence(m)
      OBVIOUS
    <2>2. KeyOK(n)
      BY <2>1, CancelKeeps
    <2>3. KeyOK([n EXCEPT !.dialog = "none", !.confirm = NoneKey])
      BY <2>2 DEF KeyOK, KeyState, ChordOK, AimOK, MenuOK, KeyFields
    <2>4. n.dialog = "modal" => KeyOK([n EXCEPT !.dialog = "viewer"])
      BY <2>2 DEF KeyOK, KeyState, ChordOK, AimOK, MenuOK, KeyFields
    <2>5. AllOK(keysHandleDialogKey(n, k))
      BY <2>2, <2>3, <2>4 DEF keysHandleDialogKey, AllOK
    <2> QED BY <1>1, <2>1, <2>5 DEF handleKey
  <1>2. CASE m.dialog = "none" /\ m.rename # "none"
    <2>1. KeyOK([m EXCEPT !.rename = "none"])
      BY DEF KeyOK, KeyState, ChordOK, AimOK, MenuOK, KeyFields
    <2> QED BY <1>2, <2>1 DEF handleKey, handleRenameKey, AllOK
  <1>3. CASE m.dialog = "none" /\ m.rename = "none" /\ m.menu # NoneKey
    <2>1. AllOK(handleCtxMenuKey(m, k))
      BY <1>3, MenuItemKeeps, DragKeeps DEF handleCtxMenuKey, AllOK
    <2> QED BY <1>3, <2>1 DEF handleKey
  <1>4. CASE m.dialog = "none" /\ m.rename = "none" /\ m.menu = NoneKey
    <2>1. AllOK(handleNotesKey(m, k)) /\ AllOK(handleAfterNotes(m, k))
      BY <1>4, NotesKeyKeeps, AfterNotesKeeps DEF Bare
    <2> QED BY <1>4, <2>1 DEF handleKey
  <1> QED BY <1>1, <1>2, <1>3, <1>4

\* A press, by the region it lands in.
LEMMA PressKeeps ==
    ASSUME NEW m, KeyOK(m), Bare(m)
    PROVE  AllOK(sidebarPress(m)) /\ AllOK(contentPress(m)) /\ AllOK(rightPress(m)) /\ AllOK(rightSidebarPress(m))
  <1> USE DEF Bare
  <1>1. KeyOK([m EXCEPT !.sel = NoneKey]) /\ [m EXCEPT !.sel = NoneKey].menu = NoneKey
    BY DEF KeyOK, KeyState, ChordOK, AimOK, MenuOK, KeyFields
  <1>2. ASSUME NEW t \in DOMAIN KeyTabs
        PROVE  KeyOK(keysSwitchTab(m, t)) /\ keysSwitchTab(m, t).menu = NoneKey
    BY GoingKeeps
  <1>3. AllOK(sidebarPress(m))
    <2>1. KeyOK(Drag([m EXCEPT !.sel = NoneKey], "sidebar"))
      <3>1. PICK n : n = [m EXCEPT !.sel = NoneKey]
        OBVIOUS
      <3> QED BY <1>1, <3>1, DragKeeps
    <2>2. KeyOK(Drag(m, "project"))
      BY DragKeeps
    <2>3. ASSUME NEW t \in DOMAIN KeyTabs
          PROVE  KeyOK(Drag(keysSwitchTab(m, t), "sideTab"))
      <3>1. PICK n : n = keysSwitchTab(m, t)
        OBVIOUS
      <3> QED BY <1>2, <3>1, DragKeeps
    <2>4. KeyOK([clearDragState(m) EXCEPT !.sidebar = FALSE])
      BY DEF KeyOK, KeyState, ChordOK, AimOK, MenuOK, KeyFields, clearDragState
    <2>5. ASSUME NEW p \in m.live
          PROVE  KeyOK(focusSidebarPane(clearDragState(m), p))
      <3>1. PICK c : c = clearDragState(m)
        OBVIOUS
      <3>2. KeyOK(c) /\ p \in c.live
        BY <3>1 DEF KeyOK, KeyState, ChordOK, AimOK, MenuOK, KeyFields, clearDragState
      <3> QED BY <3>1, <3>2, GoingKeeps
    <2> QED BY <2>1, <2>2, <2>3, <2>4, <2>5 DEF sidebarPress, AllOK
  <1>4. AllOK(contentPress(m))
    <2>1. PICK q : q = [m EXCEPT !.sel = NoneKey]
      OBVIOUS
    <2>2. KeyOK(q) /\ q.menu = NoneKey
      BY <1>1, <2>1
    <2>3. ASSUME NEW t \in DOMAIN KeyTabs
          PROVE  KeyOK(Drag(keysSwitchTab(m, t), "tab"))
      <3>1. PICK n : n = keysSwitchTab(m, t)
        OBVIOUS
      <3> QED BY <1>2, <3>1, DragKeeps
    <2>4. ASSUME NEW b, NEW x
          PROVE  KeyOK(Drag([q EXCEPT !.notesPane = b], x))
      BY <2>2 DEF KeyOK, KeyState, ChordOK, AimOK, MenuOK, KeyFields, Drag, clearDragState
    <2>5. \A x : KeyOK(Drag(q, x))
      BY <2>2, DragKeeps
    <2> QED BY <2>1, <2>3, <2>4, <2>5 DEF contentPress, AllOK
  <1>5. AllOK(rightPress(m))
    BY <1>1, DragKeeps DEF rightPress, AllOK
  <1>6. AllOK(rightSidebarPress(m))
    <2>1. SUFFICES ASSUME NEW p \in m.live
                   PROVE  KeyOK(openCtxMenu(focusSidebarPane(clearDragState(m), p), p))
      BY DEF rightSidebarPress, AllOK
    <2>2. PICK c : c = clearDragState(m)
      OBVIOUS
    <2>3. KeyOK(c) /\ p \in c.live /\ c.dialog = "none"
      BY <2>2 DEF KeyOK, KeyState, ChordOK, AimOK, MenuOK, KeyFields, clearDragState
    <2>4. PICK n : n = focusSidebarPane(c, p)
      OBVIOUS
    <2>5. KeyOK(n) /\ n.dialog = "none"
      BY <2>3, <2>4, GoingKeeps
    <2> QED BY <2>2, <2>4, <2>5, DragKeeps
  <1> QED BY <1>3, <1>4, <1>5, <1>6

\* A press with no dialog and no menu.
LEMMA ElsewhereKeeps ==
    ASSUME NEW m, KeyOK(m), Bare(m), NEW right
    PROVE  AllOK(pressElsewhere(m, right))
  BY PressKeeps DEF pressElsewhere, AllOK

\* A press, whatever is open.
LEMMA ClickKeeps ==
    ASSUME NEW old, KeyOK(old), NEW right \in BOOLEAN
    PROVE  AllOK(MouseClick(old, right))
  <1>1. PICK m : m = cancelSequence(old)
    OBVIOUS
  <1>2. KeyOK(m)
    BY <1>1, CancelKeeps
  <1>3. CASE m.dialog = "viewer"
    <2>1. m.menu = NoneKey
      BY <1>2, <1>3 DEF KeyOK, MenuOK
    <2>2. KeyOK(Drag(m, "viewer"))
      BY <1>2, <2>1, DragKeeps
    <2> QED BY <1>1, <1>2, <1>3, <2>2 DEF MouseClick, AllOK
  <1>4. CASE m.dialog # "viewer" /\ (m.dialog # "none" \/ m.tab \in m.overlay)
    <2>1. MouseClick(old, right) = {clearDragState(m)}
      BY <1>1, <1>4 DEF MouseClick
    <2> QED BY <1>2, <2>1, DragKeeps DEF AllOK
  <1>5. CASE m.dialog = "none" /\ m.tab \notin m.overlay /\ m.menu = NoneKey
    <2>1. MouseClick(old, right) = pressElsewhere(m, right)
      BY <1>1, <1>5 DEF MouseClick
    <2> QED BY <1>2, <1>5, <2>1, ElsewhereKeeps DEF Bare
  <1>6. CASE m.dialog = "none" /\ m.tab \notin m.overlay /\ m.menu # NoneKey
    <2>1. PICK c : c = closeCtxMenu(m)
      OBVIOUS
    <2>2. KeyOK(c) /\ Bare(c)
      BY <1>2, <1>6, <2>1, DragKeeps
    <2>3. AllOK(pressElsewhere(c, TRUE))
      BY <2>2, ElsewhereKeeps
    <2>4. \A a \in CtxActions : KeyOK(executeCtxMenuItem(m, a))
      BY <1>2, <1>6, MenuItemKeeps
    <2>5. MouseClick(old, right) = {m} \cup (IF right THEN pressElsewhere(c, TRUE)
                                             ELSE {c} \cup {executeCtxMenuItem(m, a) : a \in CtxActions})
      BY <1>1, <1>6, <2>1 DEF MouseClick
    <2> QED BY <1>2, <2>2, <2>3, <2>4, <2>5 DEF AllOK
  <1> QED BY <1>3, <1>4, <1>5, <1>6

\* A drag's motion.
LEMMA MotionKeeps ==
    ASSUME NEW m, KeyOK(m)
    PROVE  AllOK(MouseMotion(m))
  <1>1. m.menu = NoneKey => \A p : KeyOK([m EXCEPT !.sel = p])
    BY DEF KeyOK, KeyState, ChordOK, AimOK, MenuOK, KeyFields
  <1>2. KeyOK(clearDragState(m))
    BY DragKeeps
  <1> QED BY <1>1, <1>2 DEF MouseMotion, AllOK

\* The end of a drag.
LEMMA ReleaseKeeps ==
    ASSUME NEW m, KeyOK(m)
    PROVE  AllOK(MouseRelease(m))
  <1>1. KeyOK([m EXCEPT !.drags = @ \ {"viewer"}])
    BY DEF KeyOK, KeyState, ChordOK, AimOK, MenuOK, KeyFields
  <1>2. KeyOK(clearDragState(m))
    BY DragKeeps
  <1>3. \A p : KeyOK([clearDragState(m) EXCEPT !.act[m.tab] = p])
    BY DEF KeyOK, KeyState, ChordOK, AimOK, MenuOK, KeyFields, clearDragState
  <1> QED BY <1>1, <1>2, <1>3 DEF MouseRelease, AllOK

\* A bracketed paste.
LEMMA PasteKeeps ==
    ASSUME NEW old, KeyOK(old)
    PROVE  AllOK(Paste(old))
  <1>1. PICK m : m = cancelSequence(old)
    OBVIOUS
  <1>2. KeyOK(m)
    BY <1>1, CancelKeeps
  <1>3. KeyOK(pasteClipboard(m))
    BY <1>2 DEF KeyOK, KeyState, ChordOK, AimOK, MenuOK, KeyFields, pasteClipboard
  <1>4. KeyOK(enqueueInput(m, ActivePane(m), ActivePane(m)))
    BY <1>2, EnqueueKeeps
  <1> QED BY <1>1, <1>2, <1>3, <1>4 DEF Paste, AllOK

\* The prologue closes a menu whose pane is gone and forgets the last input.
LEMMA KeysBegin ==
    ASSUME KeyOK(u)
    PROVE  KeyOK(Begun) /\ Begun.did = Nothing /\ Begun.live = u.live /\ Begun.timers = u.timers
           /\ Begun.gen = u.gen
  BY DEF KeyOK, KeyState, ChordOK, AimOK, MenuOK, KeyFields, Begun, Prologue, closeCtxMenu, Nothing

\* A client starts with nothing open.
LEMMA KeysStart == KeyInit => KeyOK(u)
  BY DEF KeyInit, KeyOK, KeyState, ChordOK, AimOK, MenuOK, KeyFields, Nothing

\* Every input and outside event keeps the routing in order.
LEMMA KeysKept == KeyOK(u) /\ [KeyNext]_keyVars => KeyOK(u)'
  <1> SUFFICES ASSUME KeyOK(u), [KeyNext]_keyVars
               PROVE  KeyOK(u')
    OBVIOUS
  <1>0. PICK b : b = Begun
    OBVIOUS
  <1>a. KeyOK(b) /\ b.did = Nothing /\ b.live = u.live /\ b.timers = u.timers /\ b.gen = u.gen
    BY <1>0, KeysBegin
  <1>b. ASSUME NEW S, AllOK(S), Typed(S)
        PROVE  KeyOK(u')
    BY <1>0, <1>a, <1>b DEF Typed, Input, AllOK
  <1>1. ASSUME NEW k \in AllKeys, PressKey(k)
        PROVE  KeyOK(u')
    <2>1. AllOK(handleKey(b, k))
      BY <1>a, KeyKeeps
    <2> QED BY <1>0, <1>1, <1>b, <2>1 DEF PressKey
  <1>2. ASSUME NEW right \in BOOLEAN, PressMouse(right)
        PROVE  KeyOK(u')
    <2>1. AllOK(MouseClick(b, right))
      BY <1>a, ClickKeeps
    <2> QED BY <1>0, <1>2, <1>b, <2>1 DEF PressMouse
  <1>3. CASE MoveMouse
    BY <1>0, <1>3, <1>a, <1>b, MotionKeeps DEF MoveMouse
  <1>4. CASE ReleaseMouse
    BY <1>0, <1>4, <1>a, <1>b, ReleaseKeeps DEF ReleaseMouse
  <1>5. CASE PasteText
    BY <1>0, <1>5, <1>a, <1>b, PasteKeeps DEF PasteText
  <1>6. CASE ClipboardRead
    <2>1. PICK p : u' = enqueueInput([b EXCEPT !.clip = @ \ {p}], p, p)
      BY <1>0, <1>6 DEF ClipboardRead, Input, sendClipboardToPaneID
    <2>2. PICK n : n = [b EXCEPT !.clip = @ \ {p}]
      OBVIOUS
    <2>3. KeyOK(n)
      BY <1>a, <2>2 DEF KeyOK, KeyState, ChordOK, AimOK, MenuOK, KeyFields
    <2> QED BY <2>1, <2>2, <2>3, EnqueueKeeps
  <1>7. CASE SequenceTimeout
    <2>1. PICK g : u' = [(IF g = u.gen THEN cancelSequence(b) ELSE b) EXCEPT !.timers = @ \ {g}]
      BY <1>0, <1>7 DEF SequenceTimeout, Input
    <2>2. CASE g = u.gen
      <3>1. PICK n : n = cancelSequence(b)
        OBVIOUS
      <3>2. KeyOK(n) /\ ~n.pending
        BY <1>a, <3>1, CancelKeeps
      <3>3. u' = [n EXCEPT !.timers = @ \ {g}]
        BY <2>1, <2>2, <3>1
      <3> QED BY <3>2, <3>3 DEF KeyOK, KeyState, ChordOK, AimOK, MenuOK, KeyFields
    <2>3. CASE g # u.gen
      <3>1. u' = [b EXCEPT !.timers = @ \ {g}]
        BY <2>1, <2>3
      <3> QED BY <1>a, <2>3, <3>1 DEF KeyOK, KeyState, ChordOK, AimOK, MenuOK, KeyFields
    <2> QED BY <2>2, <2>3
  <1>8. ASSUME NEW p \in KeyPanes, PaneGoes(p)
        PROVE  KeyOK(u')
    <2>1. PICK stay : stay = u.live \ {p}
      OBVIOUS
    <2>2. stay # {} /\ stay \subseteq KeyPanes
      BY <1>8, <1>a, <2>1 DEF PaneGoes, KeyOK, KeyState
    <2>3. PICK t, x, e : /\ t = KeyTabOf(p)
                         /\ x = KeyTabOf(CHOOSE y \in stay : TRUE)
                         /\ e = CHOOSE y \in KeyTabs[t] \cap stay : TRUE
      OBVIOUS
    <2>4. x \in DOMAIN KeyTabs
      BY <2>2, <2>3, KeyTabExists
    <2>5. PICK m : m = [b EXCEPT !.live = stay,
                          !.act[t] = IF @ = p /\ KeyTabs[t] \cap stay # {} THEN e ELSE @,
                          !.tab = IF @ = t /\ KeyTabs[t] \cap stay = {} THEN x ELSE @]
      OBVIOUS
    <2>6. KeyOK(m)
      BY <1>a, <2>2, <2>4, <2>5 DEF KeyOK, KeyState, ChordOK, AimOK, MenuOK, KeyFields, Nothing
    <2>7. u' \in {IF m.notes = p THEN exitNotesModeInPlace(m)
                  ELSE IF m.notes # NoneKey THEN [m EXCEPT !.act[KeyTabOf(m.notes)] = m.notes] ELSE m}
      BY <1>0, <1>8, <2>1, <2>3, <2>5 DEF PaneGoes, Input
    <2>8. KeyOK([m EXCEPT !.act[KeyTabOf(m.notes)] = m.notes])
      BY <2>6 DEF KeyOK, KeyState, ChordOK, AimOK, MenuOK, KeyFields
    <2>9. KeyOK(exitNotesModeInPlace(m))
      BY <2>6, NotesKeep
    <2> QED BY <2>6, <2>7, <2>8, <2>9
  <1>9. ASSUME NEW p \in KeyPanes, JumpedTo(p)
        PROVE  KeyOK(u')
    <2>1. u' = keysJumpToPane(b, p) /\ p \in b.live
      BY <1>0, <1>9, <1>a DEF JumpedTo, Input
    <2> QED BY <1>a, <2>1, GoingKeeps
  <1>10. CASE PromptOpens
    <2>1. u' = [b EXCEPT !.dialog = "prompt"]
      BY <1>0, <1>10 DEF PromptOpens, Input
    <2> QED BY <1>a, <2>1 DEF KeyOK, KeyState, ChordOK, AimOK, MenuOK, KeyFields
  <1>11. CASE LinkFreezes
    <2>1. u' = [b EXCEPT !.frozen = ~@]
      BY <1>0, <1>11 DEF LinkFreezes, Input
    <2> QED BY <1>a, <2>1 DEF KeyOK, KeyState, ChordOK, AimOK, MenuOK, KeyFields, Nothing
  <1>12. CASE UNCHANGED keyVars
    BY <1>12 DEF keyVars
  <1> QED BY <1>1, <1>2, <1>3, <1>4, <1>5, <1>6, <1>7, <1>8, <1>9, <1>10, <1>11, <1>12 DEF KeyNext

\* What an input does reaches the pane it was meant for, a pending chord has its
\* timeout running, and there is one drag and none behind a menu: for any tabs and
\* panes and any sequence of keys, presses, pastes, timers and outside events.
THEOREM InputsReachTheirPane == KeySpec => []InputsAimed
  <1>1. KeyOK(u) => InputsAimed
    <2>1. ASSUME KeyOK(u)
          PROVE  Cardinality(u.drags) <= 1
      <3>1. CASE u.drags = {}
        BY <3>1, FS_EmptySet
      <3>2. CASE u.drags # {}
        <4>1. PICK x : u.drags = {x}
          BY <2>1, <3>2 DEF KeyOK, MenuOK
        <4>2. Cardinality(u.drags) = 1
          BY <4>1, FS_Singleton
        <4> QED BY <4>2
      <3> QED BY <3>1, <3>2
    <2> QED BY <2>1 DEF KeyOK, ChordOK, AimOK, MenuOK, InputsAimed
  <1> QED BY KeysStart, KeysKept, <1>1, PTL DEF KeySpec

-----------------------------------------------------------------------------
(* The dialogs                                                               *)

\* A set of numbers has a least one.
LEMMA LeastNumber ==
    ASSUME NEW T, T \subseteq Nat, T # {}
    PROVE  \E x \in T : \A y \in T : x <= y
  <1>1. PICK x \in T : \A y \in T : <<y, x>> \notin OpToRel(<, Nat)
    BY NatLessThanWellFounded, WFMin
  <1>2. \A y \in T : ~(y < x)
    BY <1>1 DEF OpToRel
  <1> QED BY <1>2

\* The screens, and the fields of the client's dialog state.
Screens == {"none", "about", "settings", "notifySettings", "shortcuts", "confirm", "plugins", "tomlEditor",
            "logViewer", "history", "migration", "updateNotice", "whatsNew", "processes", "createPane",
            "projects", "repoPick", "palette", "disclaimer", "pluginError"}
DlgFields == {"dialog", "back", "confirm", "gens", "edit", "editor", "hist", "stale", "migrating", "update",
              "inFlight", "pending", "first", "queue", "installed", "upgrading", "out", "offline"}

ConfirmKinds == {"none", "pane", "tab", "restart", "apply", "upgrade", "shutdown", "kill", "instance", "project", "disconnect"}
Updates == {"none", "available", "manual", "staged"}

\* What is queued is a sequence.
IsQueue(q) == \E S : q \in Seq(S)

\* The state has its shape, and the status a confirm waits for is the last asked.
DlgShape(m) ==
    /\ DOMAIN m = DlgFields
    /\ m.dialog \in Screens /\ m.back \in {"none", "about", "history"}
    /\ DOMAIN m.confirm = {"kind", "id", "rows", "remove", "gen"}
    /\ DOMAIN m.hist = {"pane", "st"} /\ DOMAIN m.out = {"cmd", "id", "remove"}
    /\ m.confirm.remove \in BOOLEAN /\ m.confirm.kind \in ConfirmKinds /\ m.update \in Updates
    /\ m.confirm.gen \in {NoDlgGen, m.gens}
    /\ IsQueue(m.queue)

\* A confirm that has just opened.
FreshConfirm(m) ==
    m.dialog = "confirm" =>
      /\ m.confirm.kind \in {"pane", "tab"} => ~m.confirm.remove
      /\ m.confirm.rows = "loaded" => m.confirm.kind = "kill"
      /\ m.confirm.kind = "upgrade" => m.confirm.id \notin m.installed

\* The confirm on screen speaks for itself.
Own(m, t) ==
    m.dialog = "confirm" =>
      /\ m.confirm.kind \in {"pane", "tab"} => m.confirm.remove = t.toggled
      /\ m.confirm.rows = "loaded" /\ m.confirm.kind # "kill" => t.landed
      /\ m.confirm.kind = "upgrade" => m.confirm.id \notin m.installed

\* What a key that opens or closes dialogs leaves.
Based(m) == DlgShape(m) /\ m.out.cmd # "toggle"
Handled(m) == Based(m) /\ FreshConfirm(m)

\* The inductive invariant of the dialogs.
DlgInv ==
    /\ DlgShape(dlg) /\ Own(dlg, asked)
    /\ DOMAIN asked = {"toggled", "landed", "free"} /\ asked.toggled \in BOOLEAN
    /\ dlg.dialog = NoDlg /\ ~asked.free => dlg.queue = <<>>

LEMMA Queues ==
    ASSUME NEW q, IsQueue(q)
    PROVE  /\ \A h : IsQueue(Append(q, h))
           /\ DOMAIN q \subseteq Nat
           /\ \A i \in DOMAIN q : IsQueue(SubSeq(q, i + 1, Len(q)))
  <1>1. PICK S : q \in Seq(S)
    BY DEF IsQueue
  <1>2. ASSUME NEW h
        PROVE  IsQueue(Append(q, h))
    <2>1. q \in Seq(S \cup {h}) /\ h \in S \cup {h}
      BY <1>1
    <2>2. Append(q, h) \in Seq(S \cup {h})
      BY <2>1
    <2> QED BY <2>2 DEF IsQueue
  <1>3. DOMAIN q = 1 .. Len(q) /\ Len(q) \in Nat
    BY <1>1
  <1>4. ASSUME NEW i \in DOMAIN q
        PROVE  IsQueue(SubSeq(q, i + 1, Len(q)))
    <2>1. i \in 1 .. Len(q)
      BY <1>3
    <2>2. \A j \in (i + 1) .. Len(q) : j \in 1 .. Len(q)
      BY <1>3, <2>1
    <2>3. SubSeq(q, i + 1, Len(q)) \in Seq(S)
      BY <1>1, <1>3, <2>1, <2>2, SubSeqProperties
    <2> QED BY <2>3 DEF IsQueue
  <1> QED BY <1>2, <1>3, <1>4

\* The small changes.
LEMMA ScreenChanges ==
    ASSUME NEW m, Based(m)
    PROVE  /\ \A s \in Screens \ {"confirm"} : Handled(To(m, s)) /\ To(m, s).dialog = s
           /\ Handled(Closed(m)) /\ Closed(m).dialog = NoDlg
           /\ \A kind \in ConfirmKinds : \A id : (kind = "upgrade" => id \notin m.installed) =>
                Handled(Confirm(m, kind, id)) /\ Confirm(m, kind, id).dialog = "confirm"
           /\ \A p : Handled(confirmKillProcess(m, p))
           /\ \A cmd, id, remove : cmd # "toggle" => Based(Send(m, cmd, id, remove))
           /\ m.dialog # "confirm" => Handled(m)
  <1>1. \A s \in Screens \ {"confirm"} : Handled(To(m, s)) /\ To(m, s).dialog = s
    BY DEF Handled, Based, FreshConfirm, DlgShape, DlgFields, To
  <1>2. Handled(Closed(m)) /\ Closed(m).dialog = NoDlg
    BY DEF Handled, Based, FreshConfirm, DlgShape, DlgFields, Closed, NoDlg, Screens
  <1>3. ASSUME NEW kind \in ConfirmKinds, NEW id, kind = "upgrade" => id \notin m.installed
        PROVE  Handled(Confirm(m, kind, id)) /\ Confirm(m, kind, id).dialog = "confirm"
    <2>1. PICK c : c = [resetConfirmWorktrees(m.confirm) EXCEPT !.kind = kind, !.id = id]
      OBVIOUS
    <2>2. /\ DOMAIN c = {"kind", "id", "rows", "remove", "gen"} /\ c.kind = kind /\ c.id = id
          /\ c.rows = "none" /\ c.remove = FALSE /\ c.gen = NoDlgGen
      BY <2>1 DEF resetConfirmWorktrees, Based, DlgShape
    <2>3. PICK n : n = [m EXCEPT !.dialog = "confirm", !.confirm = c]
      OBVIOUS
    <2>4. Confirm(m, kind, id) = n
      BY <2>1, <2>3 DEF Confirm
    <2>5. Based(n)
      BY <2>2, <2>3 DEF Based, DlgShape, DlgFields, Screens
    <2>6. FreshConfirm(n) /\ n.dialog = "confirm"
      BY <1>3, <2>2, <2>3 DEF Based, DlgShape, DlgFields, FreshConfirm
    <2> QED BY <2>4, <2>5, <2>6 DEF Handled
  <1>4. ASSUME NEW p
        PROVE  Handled(confirmKillProcess(m, p))
    <2>1. PICK n : n = confirmKillProcess(m, p)
      OBVIOUS
    <2>2. Based(n)
      BY <2>1 DEF Based, DlgShape, DlgFields, Screens, ConfirmKinds, confirmKillProcess
    <2>3. n.confirm.kind = "kill"
      BY <2>1 DEF Based, DlgShape, DlgFields, confirmKillProcess
    <2> QED BY <2>1, <2>2, <2>3 DEF Handled, FreshConfirm
  <1>5. \A cmd, id, remove : cmd # "toggle" => Based(Send(m, cmd, id, remove))
    BY DEF Based, DlgShape, DlgFields, Send
  <1>6. m.dialog # "confirm" => Handled(m)
    BY DEF Handled, FreshConfirm
  <1> QED BY <1>1, <1>2, <1>3, <1>4, <1>5, <1>6

\* A command sent from a screen that is no confirm.
LEMMA SendKeeps ==
    ASSUME NEW m, Handled(m), m.dialog # "confirm", NEW cmd, cmd # "toggle", NEW id, NEW remove,
           NEW n, n = Send(m, cmd, id, remove)
    PROVE  Handled(n) /\ n.dialog = m.dialog
  BY DEF Handled, Based, FreshConfirm, DlgShape, DlgFields, Send

LEMMA WorktreesKeep ==
    ASSUME NEW m, Handled(m), NEW panes
    PROVE  Handled(WithWorktrees(m, panes)) /\ WithWorktrees(m, panes).dialog = m.dialog
  BY DEF Handled, Based, FreshConfirm, DlgShape, DlgFields, WithWorktrees

\* The next host is asked about, or none is left to ask.
LEMMA PromptKeeps ==
    ASSUME NEW m, Based(m)
    PROVE  /\ m.dialog # NoDlg => promptNextUpgrade(m) = m
           /\ m.dialog = NoDlg =>
                /\ Handled(promptNextUpgrade(m))
                /\ promptNextUpgrade(m).dialog = NoDlg => promptNextUpgrade(m).queue = <<>>
                /\ promptNextUpgrade(m).dialog = "confirm" => promptNextUpgrade(m).confirm.kind = "upgrade"
  <1>1. m.dialog # NoDlg => promptNextUpgrade(m) = m
    BY DEF promptNextUpgrade
  <1>2. ASSUME m.dialog = NoDlg
        PROVE  /\ Handled(promptNextUpgrade(m))
               /\ promptNextUpgrade(m).dialog = NoDlg => promptNextUpgrade(m).queue = <<>>
               /\ promptNextUpgrade(m).dialog = "confirm" => promptNextUpgrade(m).confirm.kind = "upgrade"
    <2>0. Handled(m)
      BY <1>2, ScreenChanges DEF NoDlg
    <2>1. PICK due : due = {i \in DOMAIN m.queue : Worth(m, m.queue[i])}
      OBVIOUS
    <2>2. CASE m.queue = <<>>
      <3>1. promptNextUpgrade(m) = m
        BY <2>2 DEF promptNextUpgrade
      <3> QED BY <1>2, <2>0, <2>2, <3>1 DEF NoDlg
    <2>3. CASE m.queue # <<>> /\ due = {}
      <3>1. PICK n : n = [m EXCEPT !.queue = <<>>]
        OBVIOUS
      <3>2. promptNextUpgrade(m) = n
        BY <1>2, <2>1, <2>3, <3>1 DEF promptNextUpgrade
      <3>3. IsQueue(<<>>)
        <4>1. PICK e : e = <<>>
          OBVIOUS
        <4>2. e \in Seq({})
          BY <4>1
        <4> QED BY <4>1, <4>2 DEF IsQueue
      <3>4. Based(n) /\ n.dialog = NoDlg /\ n.queue = <<>>
        BY <1>2, <3>1, <3>3 DEF Based, DlgShape, DlgFields
      <3>5. Handled(n)
        BY <3>4, ScreenChanges DEF NoDlg
      <3> QED BY <3>2, <3>4, <3>5 DEF NoDlg
    <2>4. CASE m.queue # <<>> /\ due # {}
      <3>1. due \subseteq Nat
        BY <2>1, Queues DEF Based, DlgShape
      <3>2. PICK i : i = CHOOSE j \in due : \A k \in due : j <= k
        OBVIOUS
      <3>3. i \in due
        BY <2>4, <3>1, <3>2, LeastNumber
      <3>4. PICK n : n = [m EXCEPT !.queue = SubSeq(@, i + 1, Len(@))]
        OBVIOUS
      <3>5. promptNextUpgrade(m) = Confirm(n, "upgrade", m.queue[i])
        BY <1>2, <2>1, <2>4, <3>2, <3>4 DEF promptNextUpgrade
      <3>6. IsQueue(SubSeq(m.queue, i + 1, Len(m.queue)))
        BY <2>1, <3>3, Queues DEF Based, DlgShape
      <3>7. Based(n) /\ n.installed = m.installed
        BY <3>4, <3>6 DEF Based, DlgShape, DlgFields
      <3>8. m.queue[i] \notin n.installed
        BY <2>1, <3>3, <3>7 DEF Worth
      <3>9. Handled(Confirm(n, "upgrade", m.queue[i])) /\ Confirm(n, "upgrade", m.queue[i]).dialog = "confirm"
        BY <3>7, <3>8, ScreenChanges DEF ConfirmKinds
      <3>10. Confirm(n, "upgrade", m.queue[i]).confirm.kind = "upgrade"
        BY <3>7 DEF Confirm, resetConfirmWorktrees, Based, DlgShape, DlgFields
      <3> QED BY <3>5, <3>9, <3>10 DEF NoDlg
    <2> QED BY <2>2, <2>3, <2>4
  <1> QED BY <1>1, <1>2

\* What the panes' keys open.
LEMMA OpensKeep ==
    ASSUME NEW m, Based(m), NEW n \in OpenKeys(m)
    PROVE  Handled(n) /\ n.dialog # NoDlg
  <1> USE DEF NoDlg
  <1>1. ASSUME NEW p, n = openClosePaneConfirm(m, p)
        PROVE  Handled(n) /\ n.dialog # NoDlg
    <2>1. PICK c : c = Confirm(m, "pane", p)
      OBVIOUS
    <2>2. Handled(c) /\ c.dialog = "confirm"
      BY <2>1, ScreenChanges DEF ConfirmKinds
    <2>3. n = WithWorktrees(c, {p})
      BY <1>1, <2>1 DEF openClosePaneConfirm
    <2> QED BY <2>2, <2>3, WorktreesKeep
  <1>2. ASSUME NEW p, n = openRestartPaneConfirm(m, p)
        PROVE  Handled(n) /\ n.dialog # NoDlg
    BY <1>2, ScreenChanges DEF openRestartPaneConfirm, ConfirmKinds
  <1>3. ASSUME n = openCloseTabConfirm(m)
        PROVE  Handled(n) /\ n.dialog # NoDlg
    <2>1. PICK c : c = Confirm(m, "tab", NoDlg)
      OBVIOUS
    <2>2. Handled(c) /\ c.dialog = "confirm"
      BY <2>1, ScreenChanges DEF ConfirmKinds
    <2>3. n = WithWorktrees(c, DlgPanes)
      BY <1>3, <2>1 DEF openCloseTabConfirm
    <2> QED BY <2>2, <2>3, WorktreesKeep
  <1>4. ASSUME NEW s \in {"about", "palette", "processes", "createPane", "projects", "repoPick"}, n = To(m, s)
        PROVE  Handled(n) /\ n.dialog # NoDlg
    BY <1>4, ScreenChanges DEF Screens
  <1>5. ASSUME NEW p, NEW b \in BOOLEAN, n = openHistoryDialog(m, p, b)
        PROVE  Handled(n) /\ n.dialog # NoDlg
    BY <1>5 DEF openHistoryDialog, Handled, Based, FreshConfirm, DlgShape, DlgFields, Screens
  <1> QED BY <1>1, <1>2, <1>3, <1>4, <1>5 DEF OpenKeys

\* The keys of every dialog but a confirm.
LEMMA HandlersKeep ==
    ASSUME NEW m, Based(m), m.dialog \notin {NoDlg, "confirm"}, NEW n \in dispatchDialogKey(m)
    PROVE  Handled(n)
  <1> USE DEF NoDlg
  <1>0. Handled(m) /\ m.dialog \in Screens /\ m.back \in Screens \ {"confirm"}
    BY ScreenChanges DEF Based, DlgShape, Screens
  <1>a. \A s \in Screens \ {"confirm"} : Handled(To(m, s))
    BY ScreenChanges
  <1>b. Handled(Closed(m)) /\ Closed(m).dialog = "none" /\ Based(Closed(m))
    BY ScreenChanges DEF Handled
  <1>c. ASSUME NEW cmd, cmd # "toggle"
        PROVE  Handled(Send(Closed(m), cmd, NoDlg, FALSE))
    <2>1. PICK z, o : z = Closed(m) /\ o = Send(z, cmd, NoDlg, FALSE)
      OBVIOUS
    <2>2. Handled(z) /\ z.dialog = "none"
      BY <1>b, <2>1
    <2>3. Handled(o)
      BY <1>c, <2>1, <2>2 DEF Send, Handled, Based, FreshConfirm, DlgShape, DlgFields
    <2> QED BY <2>1, <2>3
  <1>d. \A kind \in ConfirmKinds : \A id : kind # "upgrade" => Handled(Confirm(m, kind, id))
    BY ScreenChanges
  <1>e. ASSUME NEW s \in Screens \ {"confirm"}, NEW e, NEW b \in {"none", "about", "history"}
        PROVE  /\ Handled([m EXCEPT !.dialog = s, !.editor = e, !.back = b])
               /\ Handled([m EXCEPT !.dialog = s, !.editor = e])
               /\ Handled([m EXCEPT !.dialog = s, !.back = b])
    BY DEF Handled, Based, FreshConfirm, DlgShape, DlgFields
  <1>ups. Handled(handleUpdateAction(m))
    <2>1. PICK k : k = [m EXCEPT !.dialog = NoDlg, !.back = IF m.dialog = "about" THEN "about" ELSE NoDlg]
      OBVIOUS
    <2>2. Handled(k) /\ k.dialog = "none" /\ k.inFlight = m.inFlight
      BY <2>1 DEF Handled, Based, FreshConfirm, DlgShape, DlgFields, Screens
    <2>4. PICK x, y, z : /\ x = [k EXCEPT !.pending = FALSE]
                         /\ y = [x EXCEPT !.inFlight = TRUE]
                         /\ z = [[x EXCEPT !.pending = TRUE] EXCEPT !.inFlight = TRUE]
      OBVIOUS
    <2>5. Handled(x) /\ x.dialog = "none"
      BY <2>2, <2>4 DEF Handled, Based, FreshConfirm, DlgShape, DlgFields
    <2>6. Handled(y) /\ Handled(z)
      BY <2>4, <2>5 DEF Handled, Based, FreshConfirm, DlgShape, DlgFields
    <2>7. k.dialog = "none" /\ m.update \in Updates
      BY <2>2 DEF Based, DlgShape
    <2>8. CASE m.inFlight
      <3>1. handleUpdateAction(m) = k
        BY <2>1, <2>8 DEF handleUpdateAction
      <3> QED BY <2>2, <3>1
    <2>9. CASE ~m.inFlight /\ m.update \in {"none", "available"}
      <3>1. handleUpdateAction(m) = y
        BY <2>1, <2>4, <2>9 DEF handleUpdateAction, sendStageUpdateReq
      <3> QED BY <2>6, <3>1
    <2>10. CASE ~m.inFlight /\ m.update = "manual"
      <3>1. handleUpdateAction(m) = x
        BY <2>1, <2>4, <2>10 DEF handleUpdateAction, sendStageUpdateReq
      <3> QED BY <2>5, <3>1
    <2>11. CASE ~m.inFlight /\ m.update = "staged"
      <3>1. handleUpdateAction(m) = z
        BY <2>1, <2>4, <2>11 DEF handleUpdateAction, sendStageUpdateReq
      <3> QED BY <2>6, <3>1
    <2> QED BY <2>7, <2>8, <2>9, <2>10, <2>11 DEF Updates
  <1>1. CASE m.dialog = "about"
    <2>1. n \in handleAboutKey(m)
      BY <1>1 DEF dispatchDialogKey
    <2>2. \A t \in {To(m, "settings"), To(m, "shortcuts"), To(m, "plugins"), To(m, "processes")} : Handled(t)
      BY <1>a DEF Screens
    <2>3. Handled(openLogViewer(m)) /\ Handled(openWhatsNew(m, "about"))
      BY <1>e DEF openLogViewer, openWhatsNew, Screens
    <2>4. Handled(Confirm(m, "shutdown", NoDlg))
      BY <1>d DEF ConfirmKinds
    <2> QED BY <2>1, <2>2, <2>3, <2>4, <1>b, <1>ups DEF handleAboutKey
  <1>2. CASE m.dialog = "settings"
    <2>1. n \in handleSettingsKey(m)
      BY <1>2 DEF dispatchDialogKey
    <2>2. \A e : Handled([m EXCEPT !.edit = e])
      BY <1>2 DEF Handled, Based, FreshConfirm, DlgShape, DlgFields
    <2> QED BY <2>1, <2>2, <1>a DEF handleSettingsKey, Screens
  <1>3. CASE m.dialog = "notifySettings"
    <2>1. n \in handleNotifySettingsKey(m)
      BY <1>3 DEF dispatchDialogKey
    <2> QED BY <2>1, <1>0, <1>a DEF handleNotifySettingsKey, Screens
  <1>4. CASE m.dialog = "shortcuts"
    <2>1. n \in handleShortcutsKey(m)
      BY <1>4 DEF dispatchDialogKey
    <2> QED BY <2>1, <1>a DEF handleShortcutsKey, Screens
  <1>5. CASE m.dialog = "plugins"
    <2>1. n \in handlePluginsKey(m)
      BY <1>5 DEF dispatchDialogKey
    <2>2. Handled([m EXCEPT !.dialog = "tomlEditor", !.editor = "toml"])
      BY <1>e DEF Screens
    <2>3. Handled(To(m, "about")) /\ Handled(Send(Closed(m), "reload", NoDlg, FALSE))
      BY <1>a, <1>c DEF Screens
    <2> QED BY <2>1, <2>2, <2>3 DEF handlePluginsKey
  <1>6. CASE m.dialog = "tomlEditor"
    <2>1. n \in handleTOMLEditorKey(m)
      BY <1>6 DEF dispatchDialogKey
    <2>2. PICK k : k = [m EXCEPT !.dialog = "plugins", !.editor = "none"]
      OBVIOUS
    <2>3. Handled(k) /\ k.dialog = "plugins"
      BY <2>2 DEF Handled, Based, FreshConfirm, DlgShape, DlgFields, Screens
    <2>4. Handled(Send(k, "reload", NoDlg, FALSE))
      BY <2>3, SendKeeps
    <2> QED BY <2>1, <2>2, <2>3, <2>4, <1>a DEF handleTOMLEditorKey, Screens
  <1>7. CASE m.dialog = "logViewer"
    <2>1. n \in handleLogViewerKey(m)
      BY <1>7 DEF dispatchDialogKey
    <2>2. PICK s : s = IF m.back = NoDlg THEN "about" ELSE m.back
      OBVIOUS
    <2>3. s \in Screens \ {"confirm"}
      BY <1>0, <2>2 DEF Screens
    <2>4. n = [m EXCEPT !.dialog = s, !.back = NoDlg, !.editor = "none"]
      BY <2>1, <2>2 DEF handleLogViewerKey
    <2> QED BY <2>3, <2>4 DEF Handled, Based, FreshConfirm, DlgShape, DlgFields
  <1>8. CASE m.dialog = "history"
    <2>1. n \in handleCommandHistoryKey(m)
      BY <1>8 DEF dispatchDialogKey
    <2>2. PICK k : k = [m EXCEPT !.hist.st = "loading"]
      OBVIOUS
    <2>3. Handled(k) /\ k.dialog = "history"
      BY <1>8, <2>2 DEF Handled, Based, FreshConfirm, DlgShape, DlgFields
    <2>4. Handled(Send(k, "history", m.hist.pane, FALSE)) /\ Handled(Send(m, "entry", m.hist.pane, FALSE))
      BY <1>0, <1>8, <2>3, SendKeeps
    <2> QED BY <2>1, <2>2, <2>4, <1>b DEF handleCommandHistoryKey
  <1>9. CASE m.dialog = "migration"
    <2>1. n \in handleMigrationKey(m)
      BY <1>9 DEF dispatchDialogKey
    <2>2. PICK k, s : k = [m EXCEPT !.stale = s] /\ s = m.stale - 1
      OBVIOUS
    <2>3. Based(k)
      BY <2>2 DEF Based, DlgShape, DlgFields
    <2>4. Handled(openMigrationDialog(k))
      BY <2>3 DEF openMigrationDialog, Handled, Based, FreshConfirm, DlgShape, DlgFields, Screens
    <2>5. PICK z : z = [m EXCEPT !.stale = 0, !.migrating = FALSE, !.dialog = NoDlg]
      OBVIOUS
    <2>6. Handled(z) /\ z.dialog = "none"
      BY <2>5 DEF Handled, Based, FreshConfirm, DlgShape, DlgFields, Screens
    <2>7. Handled(Send(z, "reload", NoDlg, FALSE))
      BY <2>6, SendKeeps
    <2>8. n \in {m, openMigrationDialog(k), Send(z, "reload", NoDlg, FALSE)}
      BY <2>1, <2>2, <2>5 DEF handleMigrationKey
    <2> QED BY <1>0, <2>4, <2>7, <2>8
  <1>10. CASE m.dialog = "updateNotice"
    <2>1. n \in handleUpdateNoticeKey(m)
      BY <1>10 DEF dispatchDialogKey
    <2> QED BY <2>1, <1>b, <1>ups DEF handleUpdateNoticeKey
  <1>11. CASE m.dialog = "whatsNew"
    <2>1. n \in handleWhatsNewKey(m)
      BY <1>11 DEF dispatchDialogKey
    <2> QED BY <2>1, <1>0, <1>a DEF handleWhatsNewKey
  <1>12. CASE m.dialog = "processes"
    <2>1. n \in {Closed(m)} \cup {confirmKillProcess(m, p) : p \in DlgPanes}
      BY <1>12 DEF dispatchDialogKey
    <2>2. \A p : Handled(confirmKillProcess(m, p))
      BY ScreenChanges
    <2> QED BY <2>1, <2>2, <1>b
  <1>13. CASE m.dialog = "createPane"
    <2>1. n \in {Closed(m), Confirm(m, "instance", NoDlg)}
      BY <1>13 DEF dispatchDialogKey
    <2> QED BY <2>1, <1>b, <1>d DEF ConfirmKinds
  <1>14. CASE m.dialog = "projects"
    <2>1. n \in {Closed(m), Confirm(m, "project", NoDlg)} \cup {Confirm(m, "disconnect", h) : h \in DlgHosts}
      BY <1>14 DEF dispatchDialogKey
    <2> QED BY <2>1, <1>b, <1>d DEF ConfirmKinds
  <1>15. CASE m.dialog = "repoPick"
    <2>1. n \in handleGitRepoPickKey(m)
      BY <1>15 DEF dispatchDialogKey
    <2> QED BY <2>1, <1>b, <1>c DEF handleGitRepoPickKey
  <1>16. CASE m.dialog = "palette"
    <2>1. n \in {Closed(m)} \cup OpenKeys(Closed(m))
      BY <1>16 DEF dispatchDialogKey
    <2> QED BY <2>1, <1>b, OpensKeep
  <1>17. CASE m.dialog = "disclaimer"
    <2>1. n \in handleDisclaimerKey(m)
      BY <1>17 DEF dispatchDialogKey
    <2> QED BY <2>1, <1>b DEF handleDisclaimerKey
  <1>18. CASE m.dialog = "pluginError"
    <2>1. n \in handlePluginErrorKey(m)
      BY <1>18 DEF dispatchDialogKey
    <2> QED BY <2>1, <1>b DEF handlePluginErrorKey
  <1> QED BY <1>0, <1>1, <1>2, <1>3, <1>4, <1>5, <1>6, <1>7, <1>8, <1>9, <1>10, <1>11, <1>12, <1>13, <1>14, <1>15,
             <1>16, <1>17, <1>18 DEF Screens

\* What a confirm's keys leave: nothing of it, the next host's prompt, the same
\* question again without its worktrees, or the toggle turned over.
Again(n) ==
    /\ Based(n) /\ n.dialog = "confirm" /\ n.confirm.kind \notin {"pane", "tab"} /\ n.confirm.rows # "loaded"
    /\ n.confirm.kind = "upgrade" => n.confirm.id \notin n.installed
Turned(m, n) == n = [m EXCEPT !.confirm.remove = ~@, !.out.cmd = "toggle"]

LEMMA ConfirmsKeep ==
    ASSUME NEW m, Based(m), m.dialog = "confirm", NEW n \in handleConfirmKey(m),
           m.confirm.kind = "upgrade" => m.confirm.id \notin m.installed
    PROVE  \/ Handled(n) /\ (n.dialog = "confirm" => n.confirm.kind = "upgrade")
           \/ Again(n)
           \/ Turned(m, n)
  <1> USE DEF NoDlg
  <1>1. PICK c, k, id : c = m.confirm /\ k = [m EXCEPT !.confirm = resetConfirmWorktrees(@)] /\ id = c.id
    OBVIOUS
  <1>2. /\ Based(k) /\ k.dialog = "confirm" /\ k.confirm.kind = c.kind /\ k.confirm.id = c.id
        /\ k.confirm.rows = "none" /\ k.installed = m.installed /\ k.back = m.back
    BY <1>1 DEF Based, DlgShape, DlgFields, resetConfirmWorktrees
  <1>3. \A s \in Screens \ {"confirm"} : Handled(To(k, s)) /\ To(k, s).dialog = s
    BY <1>2, ScreenChanges
  <1>4. Handled(Closed(k)) /\ Closed(k).dialog = "none" /\ Based(Closed(k))
    BY <1>2, ScreenChanges DEF Handled
  <1>5. CASE n = ConfirmNo(m)
    <2>1. m.back \in Screens \ {"confirm"}
      BY DEF Based, DlgShape, Screens
    <2>2. /\ Handled(promptNextUpgrade(Closed(k)))
          /\ promptNextUpgrade(Closed(k)).dialog = "confirm" => promptNextUpgrade(Closed(k)).confirm.kind = "upgrade"
      BY <1>4, PromptKeeps
    <2>3. n \in {To(k, "createPane"), To(k, "about"), To(k, "processes"), To(k, m.back),
                 promptNextUpgrade(Closed(k)), Closed(k)}
      BY <1>1, <1>5 DEF ConfirmNo
    <2>4. ASSUME NEW s \in Screens \ {"confirm"}, n = To(k, s)
          PROVE  Handled(n) /\ (n.dialog = "confirm" => n.confirm.kind = "upgrade")
      BY <1>3, <2>4
    <2>5. CASE n \in {To(k, "createPane"), To(k, "about"), To(k, "processes"), To(k, m.back)}
      BY <2>1, <2>4, <2>5 DEF Screens
    <2>6. CASE n \in {promptNextUpgrade(Closed(k)), Closed(k)}
      BY <1>4, <2>2, <2>6
    <2> QED BY <2>3, <2>5, <2>6
  <1>6. ASSUME NEW y \in BOOLEAN, n = ConfirmYes(m, y)
        PROVE  \/ Handled(n) /\ (n.dialog = "confirm" => n.confirm.kind = "upgrade")
               \/ Again(n)
    <2>1. CASE c.kind \in {"shutdown", "kill", "upgrade", "apply"} /\ ~y
      <3>1. n = k
        BY <1>1, <1>6, <2>1 DEF ConfirmYes
      <3> QED BY <1>1, <1>2, <2>1, <3>1 DEF Again
    <2>2. CASE c.kind = "kill" /\ y
      <3>0. PICK z : z = To(k, "processes")
        OBVIOUS
      <3>1. n = Send(z, "kill", id, FALSE)
        BY <1>1, <1>6, <2>2, <3>0 DEF ConfirmYes
      <3>2. Handled(z) /\ z.dialog = "processes"
        BY <1>3, <3>0 DEF Screens
      <3>3. Handled(n) /\ n.dialog = "processes"
        BY <3>1, <3>2 DEF Send, Handled, Based, FreshConfirm, DlgShape, DlgFields
      <3> QED BY <3>3
    <2>3. CASE c.kind = "upgrade" /\ y
      <3>1. PICK z : z = [Closed(k) EXCEPT !.installed = @ \cup {id}, !.upgrading = @ \cup {id}]
        OBVIOUS
      <3>2. Handled(z) /\ z.dialog = "none"
        BY <1>4, <3>1 DEF Handled, Based, FreshConfirm, DlgShape, DlgFields
      <3>3. n = Send(z, "install", id, FALSE)
        BY <1>1, <1>6, <2>3, <3>1 DEF ConfirmYes
      <3>4. Handled(n) /\ n.dialog = "none"
        BY <3>2, <3>3 DEF Send, Handled, Based, FreshConfirm, DlgShape, DlgFields
      <3> QED BY <3>4
    <2>4. CASE c.kind = "instance"
      <3>0. PICK z : z = To(k, "createPane")
        OBVIOUS
      <3>1. n = Send(z, "instance", id, FALSE)
        BY <1>1, <1>6, <2>4, <3>0 DEF ConfirmYes
      <3>2. Handled(z) /\ z.dialog = "createPane"
        BY <1>3, <3>0 DEF Screens
      <3>3. Handled(n) /\ n.dialog = "createPane"
        BY <3>1, <3>2 DEF Send, Handled, Based, FreshConfirm, DlgShape, DlgFields
      <3> QED BY <3>3
    <2>5. CASE c.kind = "disconnect"
      <3>1. PICK z : z = [Closed(k) EXCEPT !.installed = @ \ {id}, !.offline = @ \ {id}]
        OBVIOUS
      <3>2. Handled(z) /\ z.dialog = "none"
        BY <1>4, <3>1 DEF Handled, Based, FreshConfirm, DlgShape, DlgFields
      <3>3. n = Send(z, "disconnect", id, FALSE)
        BY <1>1, <1>6, <2>5, <3>1 DEF ConfirmYes
      <3>4. Handled(n) /\ n.dialog = "none"
        BY <3>2, <3>3 DEF Send, Handled, Based, FreshConfirm, DlgShape, DlgFields
      <3> QED BY <3>4
    <2>6. CASE c.kind \notin {"instance", "disconnect"} /\ ~(c.kind \in {"shutdown", "kill", "upgrade", "apply"} /\ ~y)
               /\ ~(c.kind = "kill" /\ y) /\ ~(c.kind = "upgrade" /\ y)
      <3>0. PICK z, kind : z = Closed(k) /\ kind = c.kind
        OBVIOUS
      <3>1. PICK b : n = Send(z, kind, id, b)
        <4>1. CASE c.kind \in {"pane", "tab"}
          <5>1. n = Send(z, kind, id, c.remove)
            BY <1>1, <1>6, <3>0, <4>1 DEF ConfirmYes
          <5> QED BY <5>1
        <4>2. CASE c.kind \notin {"pane", "tab"}
          <5>1. n = Send(z, kind, id, FALSE)
            BY <1>1, <1>6, <2>6, <3>0, <4>2 DEF ConfirmYes
          <5> QED BY <5>1
        <4> QED BY <4>1, <4>2
      <3>2. kind # "toggle"
        BY <1>1, <3>0 DEF Based, DlgShape, ConfirmKinds
      <3>3. Handled(n) /\ n.dialog = "none"
        BY <1>4, <3>0, <3>1, <3>2, SendKeeps
      <3> QED BY <3>3
    <2> QED BY <2>1, <2>2, <2>3, <2>4, <2>5, <2>6
  <1>7. n = ConfirmNo(m) \/ n = ConfirmYes(m, TRUE) \/ n = ConfirmYes(m, FALSE) \/ Turned(m, n)
    BY DEF handleConfirmKey, Turned
  <1> QED BY <1>5, <1>6, <1>7

\* What a key or a message starts from.
LEMMA IdleIs ==
    ASSUME DlgInv
    PROVE  /\ Based(Idle0) /\ Idle0.out.cmd = "none"
           /\ \A f \in DlgFields \ {"out"} : Idle0[f] = dlg[f]
  BY DEF DlgInv, Based, DlgShape, DlgFields, Idle0, Nothing0

\* The same, field by field.
LEMMA IdleFields ==
    ASSUME DlgInv
    PROVE  /\ Idle0.dialog = dlg.dialog /\ Idle0.confirm = dlg.confirm /\ Idle0.installed = dlg.installed
           /\ Idle0.queue = dlg.queue /\ Idle0.gens = dlg.gens /\ Idle0.back = dlg.back /\ Idle0.hist = dlg.hist
  BY DEF DlgInv, DlgShape, DlgFields, Idle0

\* The history after a step.
LEMMA NotedIs ==
    ASSUME DlgInv, NEW m, NEW l, NEW t, t = Noted(m, l)
    PROVE  /\ DOMAIN t = {"toggled", "landed", "free"} /\ t.toggled \in BOOLEAN
           /\ m.dialog = NoDlg /\ ~t.free => ~asked.free
           /\ m.out.cmd = "toggle" => t.toggled = ~asked.toggled
           /\ m.out.cmd # "toggle" /\ dlg.dialog = "confirm" /\ m.dialog = "confirm" => t.toggled = asked.toggled
           /\ m.out.cmd # "toggle" /\ dlg.dialog # "confirm" => t.toggled = FALSE
           /\ l => t.landed
           /\ dlg.dialog = "confirm" /\ m.dialog = "confirm" /\ asked.landed => t.landed
  <1>1. /\ DOMAIN t = {"toggled", "landed", "free"}
        /\ t.free = (m.dialog = NoDlg /\ asked.free)
        /\ t.landed = (l \/ (dlg.dialog = "confirm" /\ m.dialog = "confirm" /\ asked.landed))
    BY DEF Noted
  <1>2. asked.toggled \in BOOLEAN
    BY DEF DlgInv
  <1>3. CASE m.out.cmd = "toggle"
    <2>1. t.toggled = ~asked.toggled
      BY <1>3 DEF Noted
    <2> QED BY <1>1, <1>2, <1>3, <2>1
  <1>4. CASE m.out.cmd # "toggle" /\ dlg.dialog = "confirm" /\ m.dialog = "confirm"
    <2>1. t.toggled = asked.toggled
      BY <1>4 DEF Noted
    <2> QED BY <1>1, <1>2, <1>4, <2>1
  <1>5. CASE m.out.cmd # "toggle" /\ ~(dlg.dialog = "confirm" /\ m.dialog = "confirm")
    <2>1. t.toggled = FALSE
      BY <1>5 DEF Noted
    <2> QED BY <1>1, <1>2, <1>5, <2>1
  <1> QED BY <1>3, <1>4, <1>5

\* No offer is left behind an empty screen.
OfferSettled(m) == m.dialog = NoDlg /\ ~asked.free => m.queue = <<>>

LEMMA BecomeKeeps ==
    ASSUME DlgInv, NEW m, NEW l, Become(m, l), DlgShape(m), OfferSettled(m), Own(m, Noted(m, l))
    PROVE  DlgInv'
  <1>1. PICK t : t = Noted(m, l)
    OBVIOUS
  <1>2. dlg' = m /\ asked' = t
    BY <1>1 DEF Become
  <1>3. /\ DOMAIN t = {"toggled", "landed", "free"} /\ t.toggled \in BOOLEAN
        /\ m.dialog = NoDlg /\ ~t.free => ~asked.free
    BY <1>1, NotedIs
  <1>4. DlgShape(m) /\ Own(m, t)
    BY <1>1
  <1>5. m.dialog = NoDlg /\ ~t.free => m.queue = <<>>
    BY <1>3 DEF OfferSettled
  <1> QED BY <1>2, <1>3, <1>4, <1>5 DEF DlgInv

\* A step that leaves a confirm alone.
LEMMA StillOwn ==
    ASSUME DlgInv, NEW m, NEW l, m.out.cmd # "toggle", m.confirm = dlg.confirm, m.installed \subseteq dlg.installed,
           m.dialog = "confirm" => dlg.dialog = "confirm"
    PROVE  Own(m, Noted(m, l))
  <1>1. PICK t : t = Noted(m, l)
    OBVIOUS
  <1>2. Own(dlg, asked)
    BY DEF DlgInv
  <1>3. /\ m.dialog = "confirm" => t.toggled = asked.toggled
        /\ m.dialog = "confirm" /\ asked.landed => t.landed
    BY <1>1, NotedIs
  <1>4. Own(m, t)
    BY <1>2, <1>3 DEF Own
  <1> QED BY <1>1, <1>4

\* A confirm that opens from another screen, or is a host's.
LEMMA OpensOwn ==
    ASSUME DlgInv, NEW m, NEW l, Handled(m),
           dlg.dialog = "confirm" /\ m.dialog = "confirm" => m.confirm.kind = "upgrade"
    PROVE  Own(m, Noted(m, l))
  <1>1. PICK t : t = Noted(m, l)
    OBVIOUS
  <1>2. m.out.cmd # "toggle" /\ FreshConfirm(m) /\ m.confirm.remove \in BOOLEAN
    BY DEF Handled, Based, DlgShape
  <1>3. dlg.dialog # "confirm" => t.toggled = FALSE
    BY <1>1, <1>2, NotedIs
  <1>4. Own(m, t)
    BY <1>2, <1>3 DEF Own, FreshConfirm
  <1> QED BY <1>1, <1>4

\* A key.
LEMMA DialogPressKeeps ==
    ASSUME DlgInv, PressInDialog
    PROVE  DlgInv'
  <1> USE DEF NoDlg
  <1>1. PICK i : i = Idle0
    OBVIOUS
  <1>2. /\ Based(i) /\ i.out.cmd = "none" /\ i.dialog = dlg.dialog /\ i.confirm = dlg.confirm
        /\ i.installed = dlg.installed /\ i.queue = dlg.queue
    BY <1>1, IdleIs, IdleFields
  <1>3. PICK m \in (IF dlg.dialog = NoDlg THEN OpenKeys(i) ELSE handleDialogKey(i)) : Become(m, FALSE)
    BY <1>1 DEF PressInDialog
  <1>4. CASE dlg.dialog = "none"
    <2>1. Handled(m) /\ m.dialog # "none"
      BY <1>2, <1>3, <1>4, OpensKeep
    <2>2. DlgShape(m) /\ OfferSettled(m)
      BY <2>1 DEF OfferSettled, Handled, Based
    <2>3. Own(m, Noted(m, FALSE))
      BY <1>4, <2>1, OpensOwn
    <2> QED BY <1>3, <2>2, <2>3, BecomeKeeps
  <1>5. CASE dlg.dialog # "none"
    <2>1. PICK n \in dispatchDialogKey(i) : m = IF n.dialog = "none" THEN promptNextUpgrade(n) ELSE n
      BY <1>3, <1>5 DEF handleDialogKey
    <2>2. ASSUME Handled(n), dlg.dialog = "confirm" /\ n.dialog = "confirm" => n.confirm.kind = "upgrade"
          PROVE  DlgInv'
      <3>1. /\ Handled(m) /\ (m.dialog = "none" => m.queue = <<>>)
            /\ dlg.dialog = "confirm" /\ m.dialog = "confirm" => m.confirm.kind = "upgrade"
        <4>1. CASE n.dialog = "none"
          <5>1. m = promptNextUpgrade(n) /\ Based(n)
            BY <2>1, <2>2, <4>1 DEF Handled
          <5> QED BY <4>1, <5>1, PromptKeeps
        <4>2. CASE n.dialog # "none"
          BY <2>1, <2>2, <4>2
        <4> QED BY <4>1, <4>2
      <3>2. DlgShape(m) /\ OfferSettled(m)
        BY <3>1 DEF OfferSettled, Handled, Based
      <3>3. Own(m, Noted(m, FALSE))
        BY <3>1, OpensOwn
      <3> QED BY <1>3, <3>2, <3>3, BecomeKeeps
    <2>3. CASE dlg.dialog # "confirm"
      <3>1. Handled(n)
        BY <1>2, <1>5, <2>1, <2>3, HandlersKeep
      <3> QED BY <2>2, <2>3, <3>1
    <2>4. CASE dlg.dialog = "confirm"
      <3>1. n \in handleConfirmKey(i)
        BY <1>2, <2>1, <2>4 DEF dispatchDialogKey
      <3>2. i.confirm.kind = "upgrade" => i.confirm.id \notin i.installed
        BY <1>2, <2>4 DEF DlgInv, Own
      <3>3. \/ Handled(n) /\ (n.dialog = "confirm" => n.confirm.kind = "upgrade")
            \/ Again(n)
            \/ Turned(i, n)
        BY <1>2, <2>4, <3>1, <3>2, ConfirmsKeep
      <3>4. CASE Again(n)
        <4>1. m = n /\ DlgShape(m) /\ OfferSettled(m)
          BY <2>1, <3>4 DEF Again, Based, OfferSettled
        <4>2. Own(m, Noted(m, FALSE))
          BY <3>4, <4>1 DEF Again, Own
        <4> QED BY <1>3, <4>1, <4>2, BecomeKeeps
      <3>5. CASE Turned(i, n)
        <4>1. PICK r : r = ~i.confirm.remove
          OBVIOUS
        <4>2. r \in BOOLEAN /\ n = [i EXCEPT !.confirm.remove = r, !.out.cmd = "toggle"]
          BY <3>5, <4>1 DEF Turned
        <4>3. /\ DlgShape(n) /\ n.dialog = "confirm" /\ n.out.cmd = "toggle"
              /\ n.confirm.kind = dlg.confirm.kind /\ n.confirm.id = dlg.confirm.id /\ n.confirm.rows = dlg.confirm.rows
              /\ n.installed = dlg.installed /\ n.confirm.remove = r
          BY <1>2, <2>4, <4>2 DEF Based, DlgShape, DlgFields
        <4>4. m = n /\ OfferSettled(n)
          BY <2>1, <4>3 DEF OfferSettled
        <4>5. PICK t : t = Noted(n, FALSE)
          OBVIOUS
        <4>6. t.toggled = ~asked.toggled /\ (asked.landed => t.landed)
          BY <2>4, <4>3, <4>5, NotedIs
        <4>7. Own(dlg, asked) /\ asked.toggled \in BOOLEAN /\ dlg.confirm.remove \in BOOLEAN /\ r = ~dlg.confirm.remove
          BY <1>2, <4>1 DEF DlgInv, DlgShape
        <4>8. n.confirm.kind \in {"pane", "tab"} => n.confirm.remove = t.toggled
          <5>1. n.confirm.kind \in {"pane", "tab"} => dlg.confirm.remove = asked.toggled
            BY <2>4, <4>3, <4>7 DEF Own
          <5> QED BY <4>3, <4>6, <4>7, <5>1
        <4>9. Own(n, t)
          BY <2>4, <4>3, <4>6, <4>7, <4>8 DEF Own
        <4> QED BY <1>3, <4>3, <4>4, <4>5, <4>9, BecomeKeeps
      <3> QED BY <2>2, <3>3, <3>4, <3>5
    <2> QED BY <2>3, <2>4
  <1> QED BY <1>4, <1>5

\* A message that leaves the confirm as it was.
LEMMA MessageKeeps ==
    ASSUME DlgInv, NEW m, NEW l, Become(m, l), DlgShape(m), m.out.cmd # "toggle", m.confirm = dlg.confirm,
           m.installed \subseteq dlg.installed, m.queue = dlg.queue,
           m.dialog = "confirm" => dlg.dialog = "confirm", m.dialog = "none" => dlg.dialog = "none"
    PROVE  DlgInv'
  <1>1. OfferSettled(m)
    BY DEF OfferSettled, DlgInv, NoDlg
  <1>2. Own(m, Noted(m, l))
    BY StillOwn
  <1> QED BY <1>1, <1>2, BecomeKeeps

\* A host that must be upgraded.
LEMMA OutdatedKeeps ==
    ASSUME DlgInv, NEW i, Based(i), i.dialog = dlg.dialog, i.confirm = dlg.confirm, i.installed = dlg.installed,
           i.queue = dlg.queue, NEW h, NEW m, m = Outdated(i, h), NEW l, Become(m, l)
    PROVE  DlgInv'
  <1> USE DEF NoDlg
  <1>1. PICK k : k = enqueueUpgradePrompt(i, h)
    OBVIOUS
  <1>2. m = promptNextUpgrade(k)
    BY <1>1 DEF Outdated
  <1>3. IsQueue(Append(i.queue, h))
    BY Queues DEF Based, DlgShape
  <1>4. /\ Based(k) /\ k.dialog = dlg.dialog /\ k.confirm = dlg.confirm /\ k.installed = dlg.installed
        /\ k.out.cmd # "toggle"
    <2>1. CASE k = i
      BY <2>1 DEF Based
    <2>2. CASE k = [i EXCEPT !.queue = Append(@, h)]
      BY <1>3, <2>2 DEF Based, DlgShape, DlgFields
    <2> QED BY <1>1, <2>1, <2>2 DEF enqueueUpgradePrompt
  <1>5. CASE dlg.dialog = "none"
    <2>1. Handled(m) /\ (m.dialog = "none" => m.queue = <<>>)
      BY <1>2, <1>4, <1>5, PromptKeeps
    <2>2. DlgShape(m) /\ OfferSettled(m)
      BY <2>1 DEF OfferSettled, Handled, Based
    <2>3. Own(m, Noted(m, l))
      BY <1>5, <2>1, OpensOwn
    <2> QED BY <2>2, <2>3, BecomeKeeps
  <1>6. CASE dlg.dialog # "none"
    <2>1. m = k
      BY <1>2, <1>4, <1>6, PromptKeeps
    <2>2. DlgShape(m) /\ OfferSettled(m)
      BY <1>4, <1>6, <2>1 DEF OfferSettled, Based
    <2>3. Own(m, Noted(m, l))
      BY <1>4, <2>1, StillOwn
    <2> QED BY <2>2, <2>3, BecomeKeeps
  <1> QED BY <1>5, <1>6

\* What comes from outside.
LEMMA IntrusionsKeep ==
    ASSUME DlgInv,
           \/ PluginError \/ WindowSized \/ StateArrives \/ PaletteCloses
           \/ \E h \in DlgHosts : HostOutdated(h) \/ HostBack(h) \/ retryOfflineDest(h)
    PROVE  DlgInv'
  <1> USE DEF NoDlg
  <1>1. PICK i : i = Idle0
    OBVIOUS
  <1>2. /\ Based(i) /\ i.out.cmd = "none" /\ i.dialog = dlg.dialog /\ i.confirm = dlg.confirm
        /\ i.installed = dlg.installed /\ i.queue = dlg.queue
    BY <1>1, IdleIs, IdleFields
  <1>3. CASE PluginError
    <2>1. PICK m : m = To(i, "pluginError") /\ Become(m, FALSE)
      BY <1>1, <1>3 DEF PluginError, Intrudes
    <2>2. /\ DlgShape(m) /\ m.out.cmd # "toggle" /\ m.confirm = dlg.confirm /\ m.installed = dlg.installed
          /\ m.queue = dlg.queue /\ m.dialog = "pluginError"
      BY <1>2, <2>1 DEF To, Based, DlgShape, DlgFields, Screens
    <2> QED BY <2>1, <2>2, MessageKeeps
  <1>4. CASE WindowSized
    <2>1. PICK m, t : m = promptNextUpgrade(i) /\ t = Noted(m, FALSE)
      OBVIOUS
    <2>2. dlg' = m /\ asked' = [t EXCEPT !.free = FALSE]
      <3>1. dlg' = m
        BY <1>1, <1>4, <2>1 DEF WindowSized
      <3> QED BY <1>4, <2>1, <3>1 DEF WindowSized, Noted
    <2>3. DOMAIN t = {"toggled", "landed", "free"} /\ t.toggled \in BOOLEAN
      BY <2>1, NotedIs
    <2>4. PICK x : x = [t EXCEPT !.free = FALSE]
      OBVIOUS
    <2>5. DOMAIN x = {"toggled", "landed", "free"} /\ x.toggled = t.toggled /\ x.landed = t.landed
      BY <2>3, <2>4
    <2>6. DlgShape(m) /\ Own(m, t) /\ (m.dialog = "none" => m.queue = <<>>)
      <3>1. CASE dlg.dialog = "none"
        <4>1. Handled(m) /\ (m.dialog = "none" => m.queue = <<>>)
          BY <1>2, <2>1, <3>1, PromptKeeps
        <4>2. Own(m, Noted(m, FALSE))
          BY <3>1, <4>1, OpensOwn
        <4> QED BY <2>1, <4>1, <4>2 DEF Handled, Based
      <3>2. CASE dlg.dialog # "none"
        <4>1. m = i
          BY <1>2, <2>1, <3>2, PromptKeeps
        <4>2. Own(m, Noted(m, FALSE))
          BY <1>2, <4>1, StillOwn
        <4> QED BY <1>2, <2>1, <3>2, <4>1, <4>2 DEF Based
      <3> QED BY <3>1, <3>2
    <2>7. Own(m, x)
      BY <2>5, <2>6 DEF Own
    <2> QED BY <2>2, <2>3, <2>4, <2>5, <2>6, <2>7 DEF DlgInv
  <1>5. CASE StateArrives
    <2>1. PICK info, n, m :
            /\ info \in Updates
            /\ n = noteWorkspaceState(i, info)
            /\ m = IF n.stale > 0 /\ ~n.migrating THEN openMigrationDialog(n) ELSE n
            /\ Become(m, FALSE)
      <3>1. PICK info \in Updates :
              Intrudes(LET n == noteWorkspaceState(Idle0, info)
                       IN  IF n.stale > 0 /\ ~n.migrating THEN openMigrationDialog(n) ELSE n)
        BY <1>5 DEF StateArrives, Updates
      <3>2. PICK n : n = noteWorkspaceState(i, info)
        OBVIOUS
      <3>3. PICK m : m = IF n.stale > 0 /\ ~n.migrating THEN openMigrationDialog(n) ELSE n
        OBVIOUS
      <3>4. Intrudes(m)
        BY <1>1, <3>1, <3>2, <3>3
      <3>5. Become(m, FALSE)
        BY <3>4 DEF Intrudes
      <3> QED BY <3>2, <3>3, <3>5
    <2>2. /\ DlgShape(n) /\ n.out.cmd # "toggle" /\ n.confirm = dlg.confirm /\ n.installed = dlg.installed
          /\ n.queue = dlg.queue /\ n.dialog \in {dlg.dialog, "updateNotice"}
      <3>1. PICK x : x = [i EXCEPT !.update = info, !.first = TRUE]
        OBVIOUS
      <3>2. /\ DlgShape(x) /\ x.out.cmd # "toggle" /\ x.confirm = dlg.confirm /\ x.installed = dlg.installed
            /\ x.queue = dlg.queue /\ x.dialog = dlg.dialog
        <4>1. /\ DlgShape(i) /\ i.out.cmd # "toggle" /\ i.confirm = dlg.confirm /\ i.installed = dlg.installed
              /\ i.queue = dlg.queue /\ i.dialog = dlg.dialog
          BY <1>2 DEF Based
        <4>2. DOMAIN i = DlgFields
          BY <4>1 DEF DlgShape
        <4>3. /\ x.out = i.out /\ x.confirm = i.confirm /\ x.installed = i.installed
              /\ x.queue = i.queue /\ x.dialog = i.dialog
          BY <3>1, <4>2 DEF DlgFields
        <4>4. DlgShape(x)
          <5>1. DOMAIN x = DlgFields
            BY <3>1, <4>2
          <5>2. x.back = i.back /\ x.hist = i.hist /\ x.gens = i.gens /\ x.update = info
            BY <3>1, <4>2 DEF DlgFields
          <5> QED BY <4>1, <4>3, <5>1, <5>2, <2>1 DEF DlgShape
        <4> QED BY <4>1, <4>3, <4>4
      <3>3. n \in {x, [x EXCEPT !.dialog = "updateNotice"]}
        BY <2>1, <3>1 DEF noteWorkspaceState
      <3> QED BY <3>2, <3>3 DEF DlgShape, DlgFields, Screens
    <2>3. /\ DlgShape(m) /\ m.out.cmd # "toggle" /\ m.confirm = dlg.confirm /\ m.installed = dlg.installed
          /\ m.queue = dlg.queue /\ m.dialog \in {dlg.dialog, "updateNotice", "migration"}
      BY <2>1, <2>2 DEF openMigrationDialog, DlgShape, DlgFields, Screens
    <2> QED BY <2>1, <2>3, MessageKeeps
  <1>6. CASE PaletteCloses
    <2>1. PICK m, t : m = Closed(i) /\ t = [asked EXCEPT !.free = TRUE]
      OBVIOUS
    <2>2. dlg' = m /\ asked' = t
      BY <1>1, <1>6, <2>1 DEF PaletteCloses
    <2>3. DlgShape(m) /\ m.dialog = "none"
      BY <1>2, <2>1, ScreenChanges DEF Handled, Based
    <2>4. DOMAIN t = {"toggled", "landed", "free"} /\ t.toggled \in BOOLEAN /\ t.free
      BY <2>1 DEF DlgInv
    <2> QED BY <2>2, <2>3, <2>4 DEF DlgInv, Own
  <1>7. ASSUME NEW h \in DlgHosts, HostOutdated(h)
        PROVE  DlgInv'
    <2>1. PICK x, m : x = [i EXCEPT !.offline = @ \cup {h}] /\ m = Outdated(x, h) /\ Become(m, FALSE)
      BY <1>1, <1>7 DEF HostOutdated, Intrudes
    <2>2. /\ Based(x) /\ x.dialog = dlg.dialog /\ x.confirm = dlg.confirm /\ x.installed = dlg.installed
          /\ x.queue = dlg.queue
      BY <1>2, <2>1 DEF Based, DlgShape, DlgFields
    <2> QED BY <2>1, <2>2, OutdatedKeeps
  <1>8. ASSUME NEW h \in DlgHosts, HostBack(h)
        PROVE  DlgInv'
    <2>1. PICK m : m = [i EXCEPT !.offline = @ \ {h}] /\ Become(m, FALSE)
      BY <1>1, <1>8 DEF HostBack, Intrudes
    <2>2. /\ DlgShape(m) /\ m.out.cmd # "toggle" /\ m.confirm = dlg.confirm /\ m.installed = dlg.installed
          /\ m.queue = dlg.queue /\ m.dialog = dlg.dialog
      BY <1>2, <2>1 DEF Based, DlgShape, DlgFields
    <2> QED BY <2>1, <2>2, MessageKeeps
  <1>9. ASSUME NEW h \in DlgHosts, retryOfflineDest(h)
        PROVE  DlgInv'
    <2>1. PICK m : m = [i EXCEPT !.installed = @ \ {h}] /\ Become(m, FALSE)
      BY <1>1, <1>9 DEF retryOfflineDest, Intrudes
    <2>2. /\ DlgShape(m) /\ m.out.cmd # "toggle" /\ m.confirm = dlg.confirm /\ m.installed = dlg.installed \ {h}
          /\ m.queue = dlg.queue /\ m.dialog = dlg.dialog
      BY <1>2, <2>1 DEF Based, DlgShape, DlgFields
    <2> QED BY <2>1, <2>2, MessageKeeps
  <1> QED BY <1>3, <1>4, <1>5, <1>6, <1>7, <1>8, <1>9

\* A late answer or a timer.
LEMMA AnswersKeep ==
    ASSUME DlgInv, NEW o, MessageLands(o)
    PROVE  DlgInv'
  <1> USE DEF NoDlg
  <1>1. PICK i : i = Idle0
    OBVIOUS
  <1>2. /\ Based(i) /\ i.out.cmd = "none" /\ i.dialog = dlg.dialog /\ i.confirm = dlg.confirm
        /\ i.installed = dlg.installed /\ i.queue = dlg.queue /\ i.gens = dlg.gens
    BY <1>1, IdleIs, IdleFields
  <1>3. ASSUME o.msg \in {"status", "statusTimer"}, NEW m, NEW l, m = applyWorktreeStatus(i, o.gen), Become(m, l),
               l <=> o.gen = dlg.gens
        PROVE  DlgInv'
    <2>1. CASE m = i
      BY <1>2, <1>3, <2>1, MessageKeeps DEF Based
    <2>2. CASE m # i
      <3>1. /\ i.confirm.gen # NoDlgGen /\ o.gen = i.confirm.gen
            /\ m = [i EXCEPT !.confirm.gen = NoDlgGen, !.confirm.rows = "loaded"]
        BY <1>3, <2>2 DEF applyWorktreeStatus
      <3>2. l
        BY <1>2, <1>3, <3>1 DEF Based, DlgShape
      <3>3. /\ DlgShape(m) /\ m.out.cmd # "toggle" /\ m.dialog = dlg.dialog /\ m.queue = dlg.queue
            /\ m.installed = dlg.installed /\ m.confirm.kind = dlg.confirm.kind /\ m.confirm.id = dlg.confirm.id
            /\ m.confirm.remove = dlg.confirm.remove
        BY <1>2, <3>1 DEF Based, DlgShape, DlgFields
      <3>4. PICK t : t = Noted(m, l)
        OBVIOUS
      <3>5. t.landed /\ (dlg.dialog = "confirm" => t.toggled = asked.toggled)
        BY <3>2, <3>3, <3>4, NotedIs
      <3>6. Own(dlg, asked)
        BY DEF DlgInv
      <3>7. Own(m, t)
        BY <3>3, <3>5, <3>6 DEF Own
      <3>8. OfferSettled(m)
        BY <3>3 DEF OfferSettled, DlgInv
      <3> QED BY <1>3, <3>3, <3>4, <3>7, <3>8, BecomeKeeps
    <2> QED BY <2>1, <2>2
  <1>4. ASSUME NEW m, NEW l, Become(m, l), NEW s \in {dlg.dialog, "logViewer"}, NEW e, NEW b \in {i.back, "history"},
               NEW h, DOMAIN h = {"pane", "st"}, NEW ups,
               \/ m = i \/ m = [i EXCEPT !.hist = h] \/ m = [i EXCEPT !.upgrading = ups] \/ m = [i EXCEPT !.offline = ups]
               \/ m = [i EXCEPT !.dialog = s, !.editor = e, !.back = b]
        PROVE  DlgInv'
    <2>1. /\ DlgShape(m) /\ m.out.cmd # "toggle" /\ m.dialog \in {dlg.dialog, "logViewer"} /\ m.queue = dlg.queue
          /\ m.installed = dlg.installed /\ m.confirm = dlg.confirm
      <3>0. s \in Screens /\ b \in {"none", "about", "history"}
        BY <1>2, <1>4 DEF Based, DlgShape, Screens
      <3>1. CASE m = i
        BY <1>2, <3>1 DEF Based
      <3>2. CASE m = [i EXCEPT !.hist = h]
        BY <1>2, <1>4, <3>2 DEF Based, DlgShape, DlgFields
      <3>3. CASE m = [i EXCEPT !.upgrading = ups] \/ m = [i EXCEPT !.offline = ups]
        BY <1>2, <3>3 DEF Based, DlgShape, DlgFields
      <3>4. CASE m = [i EXCEPT !.dialog = s, !.editor = e, !.back = b]
        BY <1>2, <1>4, <3>0, <3>4 DEF Based, DlgShape, DlgFields
      <3> QED BY <1>4, <3>1, <3>2, <3>3, <3>4
    <2> QED BY <1>4, <2>1, MessageKeeps
  <1>5. ASSUME NEW a, NEW m, NEW l, m = applyStageUpdateResp(i, a), Become(m, l)
        PROVE  DlgInv'
    <2>1. PICK k : k = [i EXCEPT !.pending = FALSE, !.inFlight = FALSE]
      OBVIOUS
    <2>2. /\ Based(k) /\ k.dialog = dlg.dialog /\ k.confirm = dlg.confirm /\ k.installed = dlg.installed
          /\ k.queue = dlg.queue /\ k.out.cmd # "toggle"
      BY <1>2, <2>1 DEF Based, DlgShape, DlgFields
    <2>3. CASE m = k
      BY <1>5, <2>2, <2>3, MessageKeeps DEF Based
    <2>4. CASE m # k
      <3>1. k.dialog = "none" /\ m = Confirm(k, "apply", NoDlg)
        BY <1>5, <2>1, <2>4 DEF applyStageUpdateResp, openApplyConfirm
      <3>2. Handled(m) /\ m.dialog = "confirm"
        BY <2>2, <3>1, ScreenChanges DEF ConfirmKinds
      <3>3. DlgShape(m) /\ OfferSettled(m)
        BY <3>2 DEF OfferSettled, Handled, Based
      <3>4. Own(m, Noted(m, l))
        BY <2>2, <3>1, <3>2, OpensOwn
      <3> QED BY <1>5, <3>3, <3>4, BecomeKeeps
    <2> QED BY <2>3, <2>4
  <1>6. CASE o.msg \in {"status", "statusTimer"} /\ Lands(o, applyWorktreeStatus(Idle0, o.gen), {})
    <2>1. PICK m, l : m = applyWorktreeStatus(i, o.gen) /\ l = (o.msg \in {"status", "statusTimer"} /\ o.gen = dlg.gens)
      OBVIOUS
    <2>2. Become(m, l) /\ (l <=> o.gen = dlg.gens)
      BY <1>1, <1>6, <2>1 DEF Lands
    <2> QED BY <1>3, <1>6, <2>1, <2>2
  <1>7. ASSUME NEW m, NEW more, Lands(o, m, more)
        PROVE  \E l : Become(m, l)
    BY <1>7 DEF Lands
  <1>8. CASE o.msg = "list" /\ Lands(o, applyHistoryList(Idle0, o.of), {})
    <2>1. PICK m, h : m = applyHistoryList(i, o.of) /\ h = [i.hist EXCEPT !.st = "listed"]
      OBVIOUS
    <2>2. PICK l : Become(m, l)
      BY <1>1, <1>7, <1>8, <2>1
    <2>3. m = i \/ m = [i EXCEPT !.hist = h]
      BY <2>1 DEF applyHistoryList
    <2>4. DOMAIN h = {"pane", "st"}
      BY <1>2, <2>1 DEF Based, DlgShape
    <2> QED BY <1>4, <2>2, <2>3, <2>4
  <1>9. CASE o.msg = "histTimer" /\ Lands(o, applyHistoryTimeout(Idle0, o.of), {})
    <2>1. PICK m, h : m = applyHistoryTimeout(i, o.of) /\ h = [i.hist EXCEPT !.st = "timedOut"]
      OBVIOUS
    <2>2. PICK l : Become(m, l)
      BY <1>1, <1>7, <1>9, <2>1
    <2>3. m = i \/ m = [i EXCEPT !.hist = h]
      BY <2>1 DEF applyHistoryTimeout
    <2>4. DOMAIN h = {"pane", "st"}
      BY <1>2, <2>1 DEF Based, DlgShape
    <2> QED BY <1>4, <2>2, <2>3, <2>4
  <1>10. CASE o.msg = "entry" /\ \E found \in BOOLEAN : Lands(o, HistoryEntry(Idle0, o.of, found), {})
    <2>1. PICK found \in BOOLEAN : Lands(o, HistoryEntry(Idle0, o.of, found), {})
      BY <1>10
    <2>2. PICK m, h : m = HistoryEntry(i, o.of, found) /\ h = [i.hist EXCEPT !.st = "loading"]
      OBVIOUS
    <2>3. PICK l : Become(m, l)
      BY <1>1, <1>7, <2>1, <2>2
    <2>4. \/ m = i \/ m = [i EXCEPT !.hist = h]
          \/ m = [i EXCEPT !.dialog = "logViewer", !.editor = "log", !.back = "history"]
      BY <2>2 DEF HistoryEntry, openReadonlyText
    <2>5. DOMAIN h = {"pane", "st"}
      BY <1>2, <2>2 DEF Based, DlgShape
    <2> QED BY <1>4, <2>3, <2>4, <2>5
  <1>11. CASE o.msg = "staged" /\ \E a \in {"ok", "unchecked", "none"} : Lands(o, applyStageUpdateResp(Idle0, a), {})
    <2>1. PICK a \in {"ok", "unchecked", "none"} : Lands(o, applyStageUpdateResp(Idle0, a), {})
      BY <1>11
    <2>2. PICK m : m = applyStageUpdateResp(i, a)
      OBVIOUS
    <2>3. PICK l : Become(m, l)
      BY <1>1, <1>7, <2>1, <2>2
    <2> QED BY <1>5, <2>2, <2>3
  <1>12. CASE o.msg = "installed" /\ \E ok \in BOOLEAN :
                Lands(o, [Idle0 EXCEPT !.upgrading = @ \ {o.of}], finishDestUpgrade(o.of, ok))
    <2>1. PICK m, ups : ups = i.upgrading \ {o.of} /\ m = [i EXCEPT !.upgrading = ups]
      OBVIOUS
    <2>2. PICK l : Become(m, l)
      BY <1>1, <1>7, <1>12, <2>1
    <2>3. PICK h : DOMAIN h = {"pane", "st"}
      BY <1>2 DEF Based, DlgShape
    <2> QED BY <1>4, <2>1, <2>2, <2>3
  <1>13. CASE o.msg = "redial"
              /\ \E m \in {Outdated(Idle0, o.of), [Idle0 EXCEPT !.offline = @ \ {o.of}]} : Lands(o, m, {})
    <2>1. PICK m \in {Outdated(Idle0, o.of), [Idle0 EXCEPT !.offline = @ \ {o.of}]} : Lands(o, m, {})
      BY <1>13
    <2>2. PICK l : Become(m, l)
      BY <1>7, <2>1
    <2>3. CASE m = Outdated(i, o.of)
      BY <1>2, <2>2, <2>3, OutdatedKeeps
    <2>4. CASE m = [i EXCEPT !.offline = @ \ {o.of}]
      <3>1. PICK ups : ups = i.offline \ {o.of}
        OBVIOUS
      <3>2. m = [i EXCEPT !.offline = ups]
        BY <2>4, <3>1
      <3>3. PICK h : DOMAIN h = {"pane", "st"}
        BY <1>2 DEF Based, DlgShape
      <3> QED BY <1>4, <2>2, <3>2, <3>3
    <2> QED BY <1>1, <2>1, <2>3, <2>4
  <1> QED BY <1>6, <1>8, <1>9, <1>10, <1>11, <1>12, <1>13 DEF MessageLands

LEMMA DlgStarts ==
    ASSUME DlgInit
    PROVE  DlgInv
  <1>1. PICK q \in {<<>>} \cup {<<h>> : h \in DlgHosts} :
          /\ DOMAIN dlg = DlgFields /\ dlg.dialog \in {"none", "whatsNew", "disclaimer"} /\ dlg.back = "none"
          /\ dlg.confirm = Clean /\ DOMAIN dlg.hist = {"pane", "st"} /\ dlg.out = Nothing0
          /\ dlg.queue = q /\ dlg.update = "none"
    BY DEF DlgInit, DlgFields, NoDlg
  <1>2. asked = [toggled |-> FALSE, landed |-> FALSE, free |-> TRUE]
    BY DEF DlgInit
  <1>3. IsQueue(q)
    <2>1. PICK e, S : e = q /\ S = DlgHosts
      OBVIOUS
    <2>2. CASE e = <<>>
      <3>1. e \in Seq(S)
        BY <2>2
      <3> QED BY <2>1, <3>1 DEF IsQueue
    <2>3. CASE e # <<>>
      <3>1. PICK h \in S : e = <<h>>
        BY <2>1, <2>3
      <3>2. e \in Seq(S)
        BY <3>1
      <3> QED BY <2>1, <3>2 DEF IsQueue
    <2> QED BY <2>2, <2>3
  <1>4. DlgShape(dlg)
    BY <1>1, <1>3 DEF DlgShape, Screens, ConfirmKinds, Updates, Clean, Nothing0, NoDlgGen
  <1> QED BY <1>1, <1>2, <1>4 DEF DlgInv, Own

LEMMA DlgKept ==
    ASSUME DlgInv, [DlgNext]_dlgVars
    PROVE  DlgInv'
  <1>1. CASE UNCHANGED dlgVars
    BY <1>1 DEF dlgVars, DlgInv, DlgShape, Own, IsQueue
  <1>2. CASE DlgNext
    BY <1>2, DialogPressKeeps, IntrusionsKeep, AnswersKeep DEF DlgNext
  <1> QED BY <1>1, <1>2

LEMMA DlgMeans ==
    ASSUME DlgInv
    PROVE  DialogsSound
  <1>1. ConfirmIsItsOwn
    BY DEF DlgInv, Own, ConfirmIsItsOwn
  <1>2. OffersAreMade
    BY DEF DlgInv, Own, OffersAreMade, NoDlg
  <1> QED BY <1>1, <1>2 DEF DialogsSound

\* The client's dialogs (dialog.go handleDialogKey, worktree_close.go, update.go, offline.go): whatever
\* dialogs, plugin errors, broadcasts and late answers came before, a confirm shows and sends what it was
\* opened for, and no host that needs an install is left waiting behind an empty screen.
THEOREM DialogsAreSound == DlgSpec => []DialogsSound
  <1>1. DlgInit => DlgInv
    BY DlgStarts
  <1>2. DlgInv /\ [DlgNext]_dlgVars => DlgInv'
    BY DlgKept
  <1>3. DlgInv => DialogsSound
    BY DlgMeans
  <1> QED BY <1>1, <1>2, <1>3, PTL DEF DlgSpec

-----------------------------------------------------------------------------
(* The project form                                                          *)

\* What is left when one position goes.
LEMMA RemoveAtIs ==
  ASSUME NEW X, NEW s \in Seq(X), NEW k \in 1 .. Len(s)
  PROVE  /\ RemoveAt(s, k) \in Seq(X) /\ Len(RemoveAt(s, k)) = Len(s) - 1
         /\ \A i \in 1 .. Len(s) - 1 : RemoveAt(s, k)[i] = IF i < k THEN s[i] ELSE s[i + 1]
  <1>1. PICK pre, v : pre = SubSeq(s, 1, k - 1) /\ v = SubSeq(s, k + 1, Len(s))
    OBVIOUS
  <1>2. pre \in Seq(X) /\ Len(pre) = k - 1 /\ \A i \in 1 .. k - 1 : pre[i] = s[i]
    <2>1. \A i \in 1 .. k - 1 : s[i] \in X
      OBVIOUS
    <2>2. 1 \in Int /\ k - 1 \in Int
      OBVIOUS
    <2> QED BY <1>1, <2>1, <2>2, SubSeqProperties
  <1>3. v \in Seq(X) /\ Len(v) = Len(s) - k /\ \A i \in 1 .. Len(s) - k : v[i] = s[k + i]
    <2>1. \A i \in k + 1 .. Len(s) : s[i] \in X
      OBVIOUS
    <2>2. k + 1 \in Int /\ Len(s) \in Int
      OBVIOUS
    <2> QED BY <1>1, <2>1, <2>2, SubSeqProperties
  <1>4. /\ pre \o v \in Seq(X) /\ Len(pre \o v) = Len(s) - 1
        /\ \A i \in 1 .. Len(s) - 1 : (pre \o v)[i] = IF i < k THEN s[i] ELSE s[i + 1]
    <2>1. /\ pre \o v \in Seq(X) /\ Len(pre \o v) = Len(pre) + Len(v)
          /\ \A i \in 1 .. Len(pre) + Len(v) : (pre \o v)[i] = IF i <= Len(pre) THEN pre[i] ELSE v[i - Len(pre)]
      BY <1>2, <1>3, ConcatProperties
    <2> QED BY <1>2, <1>3, <2>1
  <1> QED BY <1>1, <1>4 DEF RemoveAt

\* What holds at 0 and is passed on holds up to n.
LEMMA UpTo ==
  ASSUME NEW n \in Nat, NEW G, 0 \in G, \A i \in 1 .. n : i - 1 \in G => i \in G
  PROVE  \A i \in 0 .. n : i \in G
  <1> SUFFICES ASSUME NEW z \in 0 .. n, z \notin G PROVE FALSE
    OBVIOUS
  <1>1. PICK B : B = {i \in 0 .. n : i \notin G}
    OBVIOUS
  <1>2. PICK m \in B : \A k \in B : m <= k
    <2>1. B \subseteq Nat /\ B # {}
      BY <1>1
    <2> QED BY <2>1, LeastNumber
  <1>3. m \in 1 .. n /\ m \notin G
    BY <1>1, <1>2
  <1>4. m - 1 \in 0 .. n /\ m - 1 \notin B
    BY <1>1, <1>2, <1>3
  <1> QED BY <1>1, <1>3, <1>4

\* A loop of n turns over V: F[i] is what turn i does, f the values between.
Turns(F, n, V) == \A i \in 1 .. n, x \in V : F[i][x] \in V
Run(f, F, n, v, V) == f \in [0 .. n -> V] /\ f[0] = v /\ \A i \in 1 .. n : f[i] = F[i][f[i - 1]]

\* It runs to its end.
LEMMA Iteration ==
  ASSUME NEW V, NEW v \in V, NEW n \in Nat, NEW F, Turns(F, n, V)
  PROVE  \E f : Run(f, F, n, v, V)
  <1>1. PICK G : G = {m \in 0 .. n : \E f \in [0 .. m -> V] :
                         f[0] = v /\ \A i \in 1 .. m : f[i] = F[i][f[i - 1]]}
    OBVIOUS
  <1>2. 0 \in G
    <2>1. PICK f : f = [i \in 0 .. 0 |-> v]
      OBVIOUS
    <2>2. f \in [0 .. 0 -> V] /\ f[0] = v /\ \A i \in 1 .. 0 : f[i] = F[i][f[i - 1]]
      BY <2>1
    <2>3. 0 \in 0 .. n
      OBVIOUS
    <2> QED BY <1>1, <2>2, <2>3
  <1>3. ASSUME NEW m \in 1 .. n, m - 1 \in G PROVE m \in G
    <2>1. PICK f \in [0 .. m - 1 -> V] : f[0] = v /\ \A i \in 1 .. m - 1 : f[i] = F[i][f[i - 1]]
      BY <1>1, <1>3
    <2>2. F[m][f[m - 1]] \in V
      BY <2>1 DEF Turns
    <2>3. PICK h : h = [i \in 0 .. m |-> IF i = m THEN F[m][f[m - 1]] ELSE f[i]]
      OBVIOUS
    <2>4. h \in [0 .. m -> V] /\ h[0] = v
      BY <2>1, <2>2, <2>3
    <2>5. ASSUME NEW i \in 1 .. m PROVE h[i] = F[i][h[i - 1]]
      <3>1. h[i - 1] = f[i - 1]
        BY <2>3
      <3>2. CASE i = m
        BY <2>3, <3>1, <3>2
      <3>3. CASE i # m
        <4>1. i \in 1 .. m - 1 /\ h[i] = f[i]
          BY <2>3, <3>3
        <4> QED BY <2>1, <3>1, <4>1
      <3> QED BY <3>2, <3>3
    <2>6. m \in 0 .. n
      OBVIOUS
    <2> QED BY <1>1, <2>4, <2>5, <2>6
  <1>4. n \in G
    <2>1. \A m \in 1 .. n : m - 1 \in G => m \in G
      BY <1>3
    <2>2. \A m \in 0 .. n : m \in G
      BY <1>2, <2>1, UpTo
    <2> QED BY <2>2
  <1>5. PICK f \in [0 .. n -> V] : f[0] = v /\ \A i \in 1 .. n : f[i] = F[i][f[i - 1]]
    BY <1>1, <1>4
  <1> QED BY <1>5 DEF Run

\* The fields of the form, and the projects a host lists.
FormFields == {"dialog", "id", "name", "remote", "typedHost", "dest", "dialing", "installing", "installed",
               "msg", "merge", "root", "asking"}
HostProject == [id : {"a", "b"}, by : {"daemon", "other", "us"}, name : Nat, tabs : Nat]
\* No two of a host's projects have one id.
Apart(h) == h \in Seq(HostProject) /\ \A i, j \in DOMAIN h : h[i].id = h[j].id => i = j

\* The form browses the machine it points at, and a question on its line is of
\* the plan it holds.
GoodForm(g) ==
    /\ DOMAIN g = FormFields
    /\ g.name \in Nat /\ g.dest \in Machines
    /\ g.root \in {NoFormDir, g.dest} /\ g.asking \in {NoFormDir, g.dest}
    /\ DOMAIN g.msg = {"kind", "says", "of"}
    /\ g.dialog # "none" /\ g.msg.kind = "warn" => g.msg.of = g.merge

\* What is on its way to the host.
GoodMessage(m) ==
    /\ DOMAIN m = {"cmd", "dest", "root", "plan", "line", "was"}
    /\ m.cmd # "create" /\ m.plan.name \in Nat
    /\ m.cmd = "merge" => m.plan.absorb \in Seq({"a", "b"})

\* The inductive invariant of the form.
FormInv ==
    /\ GoodForm(filled) /\ Apart(onHost) /\ known \in Seq(HostProject)
    /\ \A m \in toHost : GoodMessage(m)
    /\ FormSound

\* One turn of the merge loop keeps a host's projects apart.
LEMMA AbsorbKeeps ==
    ASSUME NEW h, Apart(h), NEW into, NEW id
    PROVE  Apart(Absorb(h, into, id))
  <1>1. CASE id = into \/ ~\E i \in DOMAIN h : h[i].id = id
    BY <1>1 DEF Absorb
  <1>2. CASE id # into /\ \E i \in DOMAIN h : h[i].id = id
    <2>1. PICK src : src = CHOOSE i \in DOMAIN h : h[i].id = id
      OBVIOUS
    <2>2. src \in DOMAIN h
      BY <1>2, <2>1
    <2>3. PICK g : g = [i \in DOMAIN h |-> IF h[i].id = into THEN [h[i] EXCEPT !.tabs = @ + h[src].tabs] ELSE h[i]]
      OBVIOUS
    <2>4. h \in Seq(HostProject) /\ DOMAIN h = 1 .. Len(h) /\ Len(h) \in Nat
      BY DEF Apart
    <2>5. ASSUME NEW i \in DOMAIN h PROVE g[i] \in HostProject /\ g[i].id = h[i].id
      <3>1. h[i] \in HostProject /\ h[src] \in HostProject
        BY <2>2, <2>4, ElementOfSeq
      <3>2. g[i] = IF h[i].id = into THEN [h[i] EXCEPT !.tabs = h[i].tabs + h[src].tabs] ELSE h[i]
        BY <2>3
      <3>3. h[i].tabs + h[src].tabs \in Nat
        BY <3>1 DEF HostProject
      <3> QED BY <3>1, <3>2, <3>3 DEF HostProject
    <2>6. DOMAIN g = 1 .. Len(h) /\ g = [i \in 1 .. Len(h) |-> g[i]]
      BY <2>3, <2>4
    <2>7. g \in Seq(HostProject) /\ Len(g) = Len(h)
      <3>1. \A i \in 1 .. Len(h) : g[i] \in HostProject
        BY <2>4, <2>5
      <3> QED BY <2>4, <2>6, <3>1, IsASeq
    <2>8. src \in 1 .. Len(g)
      BY <2>2, <2>4, <2>7
    <2>9. PICK r : r = RemoveAt(g, src)
      OBVIOUS
    <2>10. /\ r \in Seq(HostProject) /\ Len(r) = Len(h) - 1
           /\ \A i \in 1 .. Len(h) - 1 : r[i] = IF i < src THEN g[i] ELSE g[i + 1]
      BY <2>7, <2>8, <2>9, RemoveAtIs
    <2>11. ASSUME NEW i \in DOMAIN r, NEW j \in DOMAIN r, r[i].id = r[j].id PROVE i = j
      <3>1. i \in 1 .. Len(h) - 1 /\ j \in 1 .. Len(h) - 1
        BY <2>10
      <3>2. PICK a, b : a = (IF i < src THEN i ELSE i + 1) /\ b = (IF j < src THEN j ELSE j + 1)
        OBVIOUS
      <3>3. a \in DOMAIN h /\ b \in DOMAIN h
        BY <2>4, <2>8, <2>7, <3>1, <3>2
      <3>4. r[i] = g[a] /\ r[j] = g[b]
        BY <2>10, <3>1, <3>2
      <3>5. h[a].id = h[b].id
        BY <2>5, <2>11, <3>3, <3>4
      <3>6. a = b
        BY <3>3, <3>5 DEF Apart
      <3> QED BY <2>4, <2>8, <2>7, <3>1, <3>2, <3>6
    <2>12. Apart(r)
      BY <2>10, <2>11 DEF Apart
    <2>13. Absorb(h, into, id) = r
      BY <1>2, <2>1, <2>3, <2>9 DEF Absorb
    <2> QED BY <2>12, <2>13
  <1> QED BY <1>1, <1>2

\* A host whose projects change without their ids.
LEMMA SameIdsKeep ==
    ASSUME NEW h, Apart(h), NEW g, DOMAIN g = DOMAIN h, g = [i \in DOMAIN h |-> g[i]],
           \A i \in DOMAIN h : g[i] \in HostProject /\ g[i].id = h[i].id
    PROVE  Apart(g)
  <1>1. h \in Seq(HostProject) /\ DOMAIN h = 1 .. Len(h) /\ Len(h) \in Nat
    BY DEF Apart
  <1>2. g \in Seq(HostProject)
    <2>1. \A i \in 1 .. Len(h) : g[i] \in HostProject
      BY <1>1
    <2> QED BY <1>1, <2>1, IsASeq
  <1>3. \A i, j \in DOMAIN g : g[i].id = g[j].id => i = j
    BY DEF Apart
  <1> QED BY <1>2, <1>3 DEF Apart

\* The merge loop runs to its end, and keeps them apart.
LEMMA FoldedKeeps ==
    ASSUME Apart(onHost), NEW into, NEW ids, Len(ids) \in Nat
    PROVE  Apart(Folded(into, ids))
  <1>1. PICK n : n = Len(ids)
    OBVIOUS
  <1>3. PICK V : V = {h \in Seq(HostProject) : Apart(h)}
    OBVIOUS
  <1>4. onHost \in V /\ \A h \in V : Apart(h)
    BY <1>3 DEF Apart
  <1>5. PICK F : F = [i \in 1 .. n |-> [h \in V |-> Absorb(h, into, ids[i])]]
    OBVIOUS
  <1>6. ASSUME NEW h \in V, NEW id PROVE Absorb(h, into, id) \in V
    <2>1. Apart(Absorb(h, into, id))
      BY <1>4, AbsorbKeeps
    <2> QED BY <1>3, <2>1 DEF Apart
  <1>7. Turns(F, n, V)
    BY <1>5, <1>6 DEF Turns
  <1>8. PICK f : Run(f, F, n, onHost, V)
    BY <1>1, <1>4, <1>7, Iteration
  <1>9. f \in [0 .. n -> V] /\ f[0] = onHost /\ \A i \in 1 .. n : f[i] = F[i][f[i - 1]]
    BY <1>8 DEF Run
  <1>10. \A i \in 1 .. n : f[i] = Absorb(f[i - 1], into, ids[i])
    <2> SUFFICES ASSUME NEW i \in 1 .. n PROVE F[i][f[i - 1]] = Absorb(f[i - 1], into, ids[i])
      BY <1>9
    <2>1. f[i - 1] \in V
      BY <1>1, <1>9
    <2> QED BY <1>5, <2>1
  <1>11. f = [i \in 0 .. n |-> IF i = 0 THEN onHost ELSE Absorb(f[i - 1], into, ids[i])]
    <2>1. \A i \in 0 .. n : f[i] = IF i = 0 THEN onHost ELSE Absorb(f[i - 1], into, ids[i])
      BY <1>1, <1>9, <1>10
    <2>2. f = [i \in 0 .. n |-> f[i]]
      BY <1>9
    <2> QED BY <2>1, <2>2
  <1>12. \E e : e = [i \in 0 .. Len(ids) |-> IF i = 0 THEN onHost ELSE Absorb(e[i - 1], into, ids[i])]
    BY <1>1, <1>11
  <1>13. PICK e : /\ Folded(into, ids) = e[Len(ids)]
                  /\ e = [i \in 0 .. Len(ids) |-> IF i = 0 THEN onHost ELSE Absorb(e[i - 1], into, ids[i])]
    BY <1>12 DEF Folded
  <1>14. e[n] \in V
    <2>1. e[0] = onHost /\ \A i \in 1 .. n : e[i] = Absorb(e[i - 1], into, ids[i])
      <3>1. \A i \in 0 .. n : e[i] = IF i = 0 THEN onHost ELSE Absorb(e[i - 1], into, ids[i])
        BY <1>1, <1>13
      <3> QED BY <1>1, <3>1
    <2>2. PICK G : G = {i \in 0 .. n : e[i] \in V}
      OBVIOUS
    <2>3. 0 \in G
      BY <1>1, <1>4, <2>1, <2>2
    <2>4. ASSUME NEW i \in 1 .. n, i - 1 \in G PROVE i \in G
      <3>1. e[i] \in V
        BY <1>6, <2>1, <2>2, <2>4
      <3> QED BY <1>1, <2>2, <3>1
    <2>5. \A i \in 0 .. n : i \in G
      BY <1>1, <2>3, <2>4, UpTo
    <2> QED BY <1>1, <2>2, <2>5
  <1> QED BY <1>1, <1>4, <1>13, <1>14

\* ... and the survivor is renamed.
LEMMA MergeKeeps ==
    ASSUME Apart(onHost), NEW m, GoodMessage(m), m.cmd = "merge"
    PROVE  Apart(MergeProjects(m))
  <1>1. PICK kept : kept = Folded(m.plan.into, m.plan.absorb)
    OBVIOUS
  <1>2. PICK g : g = [i \in DOMAIN kept |-> IF kept[i].id # m.plan.into THEN kept[i]
                                            ELSE [kept[i] EXCEPT !.name = m.plan.name, !.by = "us"]]
    OBVIOUS
  <1>3. MergeProjects(m) = IF Where(m.plan.into) = {} THEN onHost ELSE g
    BY <1>1, <1>2 DEF MergeProjects
  <1>4. Apart(kept)
    <2>1. Len(m.plan.absorb) \in Nat
      BY DEF GoodMessage
    <2> QED BY <1>1, <2>1, FoldedKeeps
  <1>5. Apart(g)
    <2>1. DOMAIN g = DOMAIN kept /\ g = [i \in DOMAIN kept |-> g[i]]
      BY <1>2
    <2>2. ASSUME NEW i \in DOMAIN kept PROVE g[i] \in HostProject /\ g[i].id = kept[i].id
      <3>1. kept[i] \in HostProject
        BY <1>4, ElementOfSeq DEF Apart
      <3>2. g[i] = IF kept[i].id # m.plan.into THEN kept[i] ELSE [kept[i] EXCEPT !.name = m.plan.name, !.by = "us"]
        BY <1>2
      <3>3. m.plan.name \in Nat
        BY DEF GoodMessage
      <3> QED BY <3>1, <3>2, <3>3 DEF HostProject
    <2> QED BY <1>4, <2>1, <2>2, SameIdsKeep
  <1> QED BY <1>3, <1>5

\* A project updated keeps its id.
LEMMA UpdateKeeps ==
    ASSUME Apart(onHost), NEW m, GoodMessage(m)
    PROVE  Apart(UpdateProject(m))
  <1>1. PICK g : g = [i \in DOMAIN onHost |-> IF i \in Where(m.plan.into)
                                THEN [onHost[i] EXCEPT !.name = m.plan.name, !.by = "us"] ELSE onHost[i]]
    OBVIOUS
  <1>2. UpdateProject(m) \in {onHost, g}
    BY <1>1 DEF UpdateProject
  <1>3. Apart(g)
    <2>1. DOMAIN g = DOMAIN onHost /\ g = [i \in DOMAIN onHost |-> g[i]]
      BY <1>1
    <2>2. ASSUME NEW i \in DOMAIN onHost PROVE g[i] \in HostProject /\ g[i].id = onHost[i].id
      <3>1. onHost[i] \in HostProject
        BY ElementOfSeq DEF Apart
      <3>2. g[i] = IF i \in Where(m.plan.into)
                   THEN [onHost[i] EXCEPT !.name = m.plan.name, !.by = "us"] ELSE onHost[i]
        BY <1>1
      <3>3. m.plan.name \in Nat
        BY DEF GoodMessage
      <3> QED BY <3>1, <3>2, <3>3 DEF HostProject
    <2> QED BY <2>1, <2>2, SameIdsKeep
  <1> QED BY <1>2, <1>3

\* What an adoption changes was the daemon's.
LEMMA AdoptsFirst ==
    ASSUME Apart(onHost), NEW m, m.cmd = "adopt", UpdateProject(m) # onHost
    PROVE  onHost[CHOOSE i \in Where(m.plan.into) : TRUE].by = "daemon"
  <1>1. PICK k \in Where(m.plan.into) : adoptable(onHost[k])
    BY DEF UpdateProject
  <1>2. PICK c : c = CHOOSE i \in Where(m.plan.into) : TRUE
    OBVIOUS
  <1>3. c \in Where(m.plan.into)
    BY <1>1, <1>2
  <1>4. c = k
    BY <1>1, <1>3 DEF Where, Apart
  <1> QED BY <1>1, <1>2, <1>4 DEF adoptable

\* A plan names projects of the host.
LEMMA PlanIs ==
    ASSUME NEW h \in Seq(HostProject), h # <<>>, NEW name
    PROVE  planProjectMerge(name, h).absorb \in Seq({"a", "b"}) /\ planProjectMerge(name, h).name = name
  <1>9. PICK named : named = {i \in DOMAIN h : h[i].by # "daemon"}
    OBVIOUS
  <1>1. PICK s : s = Survivor(h)
    OBVIOUS
  <1>10. s = IF named = {} THEN 1 ELSE CHOOSE i \in named : \A j \in named : i <= j
    BY <1>1, <1>9 DEF Survivor
  <1>2. DOMAIN h = 1 .. Len(h) /\ Len(h) \in Nat \ {0}
    BY EmptySeq, LenProperties
  <1>3. s \in 1 .. Len(h)
    <2>1. CASE named = {}
      BY <1>10, <1>2, <2>1
    <2>2. CASE named # {}
      <3>1. named \subseteq Nat
        BY <1>9, <1>2
      <3>2. \E i \in named : \A j \in named : i <= j
        BY <2>2, <3>1, LeastNumber
      <3>3. s \in named
        BY <1>10, <2>2, <3>2
      <3> QED BY <1>9, <1>2, <3>3
    <2> QED BY <2>1, <2>2
  <1>4. PICK kept : kept = RemoveAt(h, s)
    OBVIOUS
  <1>5. kept \in Seq(HostProject)
    BY <1>3, <1>4, RemoveAtIs
  <1>6. PICK ids : ids = [i \in DOMAIN kept |-> kept[i].id]
    OBVIOUS
  <1>7. ids \in Seq({"a", "b"})
    <2>1. DOMAIN kept = 1 .. Len(kept) /\ Len(kept) \in Nat
      BY <1>5
    <2>2. \A i \in 1 .. Len(kept) : kept[i].id \in {"a", "b"}
      <3>1. \A i \in 1 .. Len(kept) : kept[i] \in HostProject
        BY <1>5, <2>1, ElementOfSeq
      <3> QED BY <3>1 DEF HostProject
    <2>3. ids = [i \in 1 .. Len(kept) |-> kept[i].id]
      BY <1>6, <2>1
    <2> QED BY <2>1, <2>2, <2>3, IsASeq
  <1>8. planProjectMerge(name, h).absorb = ids /\ planProjectMerge(name, h).name = name
    BY <1>1, <1>4, <1>6 DEF planProjectMerge
  <1> QED BY <1>7, <1>8

\* What an Enter may send.
SentWell(m) ==
    /\ DOMAIN m = {"cmd", "dest", "root", "plan", "line", "was"}
    /\ m.cmd \in {"none", "adopt", "rename", "merge", "create"} /\ m.plan.name \in Nat
    /\ m.cmd = "merge" => m.plan.absorb \in Seq({"a", "b"}) /\ m.plan = m.line
    /\ m.cmd = "create" => m.dest = FormHere /\ m.root \in {NoFormDir, FormHere}
    /\ m.cmd = "adopt" => m.root = Remote

\* The line of the form changes, and nothing of what it describes.
LEMMA LineKeeps ==
    ASSUME NEW g, GoodForm(g), NEW k \in {"none", "error", "busy", "ok"},
           NEW x, x = [g EXCEPT !.msg = [kind |-> k, says |-> <<>>, of |-> NoPlan]]
    PROVE  GoodForm(x)
  <1>1. /\ DOMAIN x = FormFields /\ x.name = g.name /\ x.dest = g.dest /\ x.root = g.root /\ x.asking = g.asking
        /\ x.msg = [kind |-> k, says |-> <<>>, of |-> NoPlan]
    BY DEF GoodForm, FormFields
  <1> QED BY <1>1 DEF GoodForm

\* A form that closes.
LEMMA CloseKeeps ==
    ASSUME NEW g, GoodForm(g), NEW x, x = [g EXCEPT !.dialog = "none"]
    PROVE  GoodForm(x)
  <1>1. /\ DOMAIN x = FormFields /\ x.name = g.name /\ x.dest = g.dest /\ x.root = g.root /\ x.asking = g.asking
        /\ x.msg = g.msg /\ x.dialog = "none"
    BY DEF GoodForm, FormFields
  <1> QED BY <1>1 DEF GoodForm

\* A plan forgotten with the form, or under a line that is no question.
LEMMA ForgetKeeps ==
    ASSUME NEW g, GoodForm(g), NEW x, x = [g EXCEPT !.merge = NoPlan]
    PROVE  GoodForm(setFormError(x)) /\ GoodForm([x EXCEPT !.dialog = "none"])
  <1>1. /\ DOMAIN x = FormFields /\ x.name = g.name /\ x.dest = g.dest /\ x.root = g.root /\ x.asking = g.asking
        /\ x.msg = g.msg
    BY DEF GoodForm, FormFields
  <1>2. PICK y : y = setFormError(x)
    OBVIOUS
  <1>3. /\ DOMAIN y = FormFields /\ y.name = x.name /\ y.dest = x.dest /\ y.root = x.root /\ y.asking = x.asking
        /\ y.msg = [kind |-> "error", says |-> <<>>, of |-> NoPlan]
    BY <1>1, <1>2 DEF setFormError, FormFields
  <1>4. GoodForm(y)
    BY <1>1, <1>3 DEF GoodForm
  <1>5. PICK z : z = [x EXCEPT !.dialog = "none"]
    OBVIOUS
  <1>6. /\ DOMAIN z = FormFields /\ z.name = x.name /\ z.dest = x.dest /\ z.root = x.root /\ z.asking = x.asking
        /\ z.msg = x.msg /\ z.dialog = "none"
    BY <1>1, <1>5 DEF FormFields
  <1>7. GoodForm(z)
    BY <1>1, <1>6 DEF GoodForm
  <1> QED BY <1>2, <1>4, <1>5, <1>7

\* The question of a plan, with the plan.
LEMMA AskKeeps ==
    ASSUME NEW g, GoodForm(g), NEW plan, NEW x, x = setFormWarn([g EXCEPT !.merge = plan], plan)
    PROVE  GoodForm(x)
  <1>1. PICK y : y = [g EXCEPT !.merge = plan]
    OBVIOUS
  <1>2. /\ DOMAIN y = FormFields /\ y.name = g.name /\ y.dest = g.dest /\ y.root = g.root /\ y.asking = g.asking
        /\ y.merge = plan
    BY <1>1 DEF GoodForm, FormFields
  <1>3. x = [y EXCEPT !.msg = [kind |-> "warn", says |-> Sentence(plan), of |-> plan]]
    BY <1>1 DEF setFormWarn
  <1>4. /\ DOMAIN x = FormFields /\ x.name = y.name /\ x.dest = y.dest /\ x.root = y.root /\ x.asking = y.asking
        /\ x.merge = plan /\ x.msg = [kind |-> "warn", says |-> Sentence(plan), of |-> plan]
    BY <1>2, <1>3 DEF FormFields
  <1> QED BY <1>2, <1>4 DEF GoodForm

\* The outcome of an Enter.
FormAnswered(r) == GoodForm(r.form) /\ SentWell(r.out)

\* An Enter that sends nothing.
LEMMA StaysWell ==
    ASSUME NEW g, GoodForm(g)
    PROVE  FormAnswered(Stays0(g))
  <1>1. Stays0(g).form = g /\ Stays0(g).out = Quiet0
    BY DEF Stays0
  <1>2. SentWell(Quiet0)
    BY DEF SentWell, Quiet0, NoPlan
  <1> QED BY <1>1, <1>2 DEF FormAnswered

\* A message made from the form.
LEMMA OutIs ==
    ASSUME NEW cmd, NEW dest, NEW root, NEW plan, NEW m, m = Out(cmd, dest, root, plan)
    PROVE  /\ DOMAIN m = {"cmd", "dest", "root", "plan", "line", "was"}
           /\ m.cmd = cmd /\ m.dest = dest /\ m.root = root /\ m.plan = plan /\ m.line = filled.msg.of
  BY DEF Out, Quiet0

\* An update goes out named, and an adoption with its root.
LEMMA UpdateSends ==
    ASSUME NEW g, GoodForm(g), NEW id, NEW dest, NEW root, NEW adopt, adopt => root = Remote
    PROVE  FormAnswered(sendUpdateProject(g, id, dest, root, adopt))
  <1>1. PICK r : r = sendUpdateProject(g, id, dest, root, adopt)
    OBVIOUS
  <1>2. PICK plan, cmd, m : /\ plan = [NoPlan EXCEPT !.into = id, !.name = g.name]
                            /\ cmd = (IF adopt THEN "adopt" ELSE "rename") /\ m = Out(cmd, dest, root, plan)
    OBVIOUS
  <1>3. \/ r = Stays0(g) \/ r = Stays0(setFormError(g)) \/ r = FormSends(g, m)
    BY <1>1, <1>2 DEF sendUpdateProject
  <1>4. GoodForm(setFormError(g))
    <2>1. PICK x : x = setFormError(g)
      OBVIOUS
    <2> QED BY <2>1, LineKeeps DEF setFormError
  <1>5. FormAnswered(FormSends(g, m))
    <2>1. PICK x : x = [g EXCEPT !.dialog = "none"]
      OBVIOUS
    <2>2. GoodForm(x)
      BY <2>1, CloseKeeps
    <2>3. plan.name \in Nat
      BY <1>2 DEF NoPlan, GoodForm
    <2>4. /\ DOMAIN m = {"cmd", "dest", "root", "plan", "line", "was"}
          /\ m.cmd = cmd /\ m.root = root /\ m.plan = plan
      BY <1>2, OutIs
    <2>5. SentWell(m)
      BY <1>2, <2>3, <2>4 DEF SentWell
    <2>6. FormSends(g, m).form = x /\ FormSends(g, m).out = m
      BY <2>1 DEF FormSends
    <2> QED BY <2>2, <2>5, <2>6 DEF FormAnswered
  <1> QED BY <1>1, <1>3, <1>4, <1>5, StaysWell

\* A new project: adopted, folded, awaited, refused or created.
LEMMA NewSends ==
    ASSUME GoodForm(filled), known \in Seq(HostProject), filled.dialog # "none"
    PROVE  FormAnswered(submitNewProject(filled))
  <1>1. PICK plan, r : plan = planProjectMerge(filled.name, known) /\ r = submitNewProject(filled)
    OBVIOUS
  <1>2. CASE ~destReachable(filled.dest)
    <2>1. r = Stays0(setFormError([filled EXCEPT !.merge = NoPlan]))
      BY <1>1, <1>2 DEF submitNewProject
    <2>2. GoodForm(setFormError([filled EXCEPT !.merge = NoPlan]))
      BY ForgetKeeps
    <2> QED BY <1>1, <2>1, <2>2, StaysWell
  <1>3. CASE destReachable(filled.dest) /\ filled.dest = Remote /\ Len(known) = 1 /\ known[1].by = "daemon"
    <2>1. PICK root : root = IF filled.root = NoFormDir THEN Remote ELSE filled.root
      OBVIOUS
    <2>2. root = Remote
      BY <1>3, <2>1 DEF GoodForm
    <2>3. r = sendUpdateProject(filled, known[1].id, Remote, root, TRUE)
      BY <1>1, <1>3, <2>1 DEF submitNewProject
    <2>4. FormAnswered(sendUpdateProject(filled, known[1].id, Remote, root, TRUE))
      BY <2>2, UpdateSends
    <2> QED BY <1>1, <2>3, <2>4
  <1>4. CASE /\ destReachable(filled.dest) /\ filled.dest = Remote /\ ~(Len(known) = 1 /\ known[1].by = "daemon")
             /\ known # <<>>
    <2>1. plan.absorb \in Seq({"a", "b"}) /\ plan.name = filled.name
      BY <1>1, <1>4, PlanIs
    <2>2. CASE foldIsConfirmed(filled, plan)
      <3>1. r = sendMergeProjects(filled, plan)
        BY <1>1, <1>4, <2>2 DEF submitNewProject
      <3>2. filled.msg.of = plan
        BY <2>2 DEF foldIsConfirmed, GoodForm
      <3>3. PICK x, m : /\ x = [[filled EXCEPT !.merge = NoPlan] EXCEPT !.dialog = "none"]
                        /\ m = Out("merge", Remote, NoFormDir, plan)
        OBVIOUS
      <3>4. r.form = x /\ r.out = m
        BY <3>1, <3>3 DEF sendMergeProjects, FormSends
      <3>5. GoodForm(x)
        BY <3>3, ForgetKeeps
      <3>6. /\ DOMAIN m = {"cmd", "dest", "root", "plan", "line", "was"}
            /\ m.cmd = "merge" /\ m.plan = plan /\ m.line = filled.msg.of
        BY <3>3, OutIs
      <3>7. SentWell(m)
        BY <2>1, <3>2, <3>6 DEF SentWell, GoodForm
      <3> QED BY <1>1, <3>4, <3>5, <3>7 DEF FormAnswered
    <2>3. CASE ~foldIsConfirmed(filled, plan)
      <3>1. PICK x : x = setFormWarn([filled EXCEPT !.merge = plan], plan)
        OBVIOUS
      <3>2. r = Stays0(x)
        BY <1>1, <1>4, <2>3, <3>1 DEF submitNewProject
      <3>3. GoodForm(x)
        BY <3>1, AskKeeps
      <3> QED BY <1>1, <3>2, <3>3, StaysWell
    <2> QED BY <2>2, <2>3
  <1>5. CASE destReachable(filled.dest) /\ (filled.dest = Remote => known = <<>>)
    <2>1. PICK m : m = Out("create", filled.dest, filled.root, NoPlan)
      OBVIOUS
    <2>2. \/ r = Stays0(setFormBusy(filled)) \/ r = Stays0(setFormError(filled))
          \/ filled.dest = FormHere /\ r = FormSends(filled, m)
      <3>1. filled.dest = Remote => Len(known) # 1
        BY <1>5
      <3>2. filled.dest = Remote => linked
        BY <1>5, FormAssumption DEF destReachable
      <3>3. filled.dest \in {FormHere, Remote}
        BY DEF GoodForm, Machines
      <3> QED BY <1>1, <1>5, <2>1, <3>1, <3>2, <3>3 DEF submitNewProject
    <2>3. GoodForm(setFormBusy(filled)) /\ GoodForm(setFormError(filled))
      <3>1. PICK x, y : x = setFormBusy(filled) /\ y = setFormError(filled)
        OBVIOUS
      <3>2. GoodForm(x)
        BY <3>1, LineKeeps DEF setFormBusy
      <3>3. GoodForm(y)
        BY <3>1, LineKeeps DEF setFormError
      <3> QED BY <3>1, <3>2, <3>3
    <2>4. ASSUME filled.dest = FormHere PROVE FormAnswered(FormSends(filled, m))
      <3>1. PICK x : x = [filled EXCEPT !.dialog = "none"]
        OBVIOUS
      <3>2. GoodForm(x)
        BY <3>1, CloseKeeps
      <3>3. /\ DOMAIN m = {"cmd", "dest", "root", "plan", "line", "was"}
            /\ m.cmd = "create" /\ m.dest = FormHere /\ m.root = filled.root /\ m.plan = NoPlan
        BY <2>1, <2>4, OutIs
      <3>4. filled.root \in {NoFormDir, FormHere}
        BY <2>4 DEF GoodForm
      <3>5. SentWell(m)
        BY <3>3, <3>4 DEF SentWell, NoPlan
      <3>6. FormSends(filled, m).form = x /\ FormSends(filled, m).out = m
        BY <3>1 DEF FormSends
      <3> QED BY <3>2, <3>5, <3>6 DEF FormAnswered
    <2> QED BY <1>1, <2>2, <2>3, <2>4, StaysWell
  <1> QED BY <1>2, <1>3, <1>4, <1>5

\* Enter.
LEMMA EnterKeeps ==
    ASSUME FormInv, PressEnter
    PROVE  FormInv'
  <1>1. PICK r : r = submitProjectForm(filled)
    OBVIOUS
  <1>2. /\ filled' = r.form /\ formDid' = r.out /\ filled.dialog # "none"
        /\ toHost' = IF r.out.cmd # "none" /\ r.out.dest = Remote /\ linked THEN toHost \cup {r.out} ELSE toHost
        /\ known' = known /\ onHost' = onHost
    BY <1>1 DEF PressEnter
  <1>3. GoodForm(filled) /\ known \in Seq(HostProject) /\ \A m \in toHost : GoodMessage(m)
    BY DEF FormInv
  <1>4. FormAnswered(r)
    <2>1. PICK dest : dest = IF filled.id = "l" THEN FormHere ELSE Remote
      OBVIOUS
    <2>2. \/ r = Stays0(setFormError(filled)) \/ r = submitNewProject(filled)
          \/ r = sendUpdateProject(filled, filled.id, dest, filled.root, FALSE)
      BY <1>1, <2>1 DEF submitProjectForm
    <2>3. FormAnswered(Stays0(setFormError(filled)))
      <3>1. PICK x : x = setFormError(filled)
        OBVIOUS
      <3>2. GoodForm(x)
        BY <1>3, <3>1, LineKeeps DEF setFormError
      <3> QED BY <3>1, <3>2, StaysWell
    <2>4. FormAnswered(submitNewProject(filled))
      BY <1>2, <1>3, NewSends
    <2>5. FormAnswered(sendUpdateProject(filled, filled.id, dest, filled.root, FALSE))
      BY <1>3, UpdateSends
    <2> QED BY <2>2, <2>3, <2>4, <2>5
  <1>5. ASSUME NEW m \in toHost' PROVE GoodMessage(m)
    <2>1. CASE m \in toHost
      BY <1>3, <2>1
    <2>2. CASE m \notin toHost
      <3>1. m = r.out /\ r.out.dest = Remote
        BY <1>2, <1>5, <2>2
      <3> QED BY <1>4, <3>1, FormAssumption DEF FormAnswered, SentWell, GoodMessage
    <2> QED BY <2>1, <2>2
  <1>6. FormSound'
    BY <1>2, <1>4 DEF FormAnswered, SentWell, FormSound, FoldAsShown, OnePerHost, RootsBelong,
       AdoptionIsFirst
  <1> QED BY <1>2, <1>3, <1>4, <1>5, <1>6 DEF FormInv, FormAnswered

\* A form that turns to the remote host, and asks it for a listing.
LEMMA BrowsedKeeps ==
    ASSUME NEW h, GoodForm(h), NEW x,
           x = requestBrowseDirForDest(resetProjectBrowseState([h EXCEPT !.dest = Remote]), Remote)
    PROVE  GoodForm(x)
  <1>1. x = [[[h EXCEPT !.dest = Remote] EXCEPT !.root = NoFormDir, !.asking = NoFormDir] EXCEPT !.asking = Remote]
    BY DEF requestBrowseDirForDest, resetProjectBrowseState
  <1>2. /\ DOMAIN x = FormFields /\ x.name = h.name /\ x.msg = h.msg /\ x.merge = h.merge /\ x.dialog = h.dialog
        /\ x.dest = Remote /\ x.root = NoFormDir /\ x.asking = Remote
    BY <1>1 DEF GoodForm, FormFields
  <1> QED BY <1>2 DEF GoodForm, Machines

\* What is under way on the link says nothing of the form.
LEMMA LinkKeeps ==
    ASSUME NEW h, GoodForm(h), NEW x,
           \/ x = [h EXCEPT !.dialing = FALSE] \/ x = [h EXCEPT !.installing = FALSE]
           \/ x = [h EXCEPT !.dialing = FALSE, !.installing = TRUE, !.installed = TRUE]
           \/ x = [h EXCEPT !.installing = FALSE, !.dialing = TRUE]
    PROVE  GoodForm(x)
  <1>1. /\ DOMAIN x = FormFields /\ x.name = h.name /\ x.msg = h.msg /\ x.merge = h.merge /\ x.dialog = h.dialog
        /\ x.dest = h.dest /\ x.root = h.root /\ x.asking = h.asking
    BY DEF GoodForm, FormFields
  <1> QED BY <1>1 DEF GoodForm

\* The user's keys.
LEMMA KeysKeepForm ==
    ASSUME NEW h, GoodForm(h), NEW x \in FormKeys(h)
    PROVE  GoodForm(x)
  <1>1. CASE x = [h EXCEPT !.dialog = "none"]
    BY <1>1, CloseKeeps
  <1>2. CASE x = handleProjectRemoteKey(h)
    <2>1. PICK y : y = [h EXCEPT !.remote = ~h.remote, !.msg = Blank0, !.dest = FormHere]
      OBVIOUS
    <2>2. DOMAIN y = FormFields /\ y.name = h.name /\ y.msg = Blank0 /\ y.dest = FormHere
      BY <2>1 DEF GoodForm, FormFields
    <2>3. PICK z : z = [y EXCEPT !.root = NoFormDir, !.asking = NoFormDir]
      OBVIOUS
    <2>4. /\ DOMAIN z = FormFields /\ z.name = h.name /\ z.msg = Blank0 /\ z.dest = FormHere
          /\ z.root = NoFormDir /\ z.asking = NoFormDir
      BY <2>2, <2>3 DEF FormFields
    <2>5. x = z \/ x = [[z EXCEPT !.typedHost = FALSE, !.dialing = FALSE] EXCEPT !.asking = FormHere]
      BY <1>2, <2>1, <2>3 DEF handleProjectRemoteKey, resetProjectBrowseState, requestBrowseDirForDest
    <2>6. /\ DOMAIN x = FormFields /\ x.name = h.name /\ x.msg = Blank0 /\ x.dest = FormHere
          /\ x.root = NoFormDir /\ x.asking \in {NoFormDir, FormHere}
      BY <2>4, <2>5 DEF FormFields
    <2> QED BY <2>6 DEF GoodForm, Blank0, Machines
  <1>3. CASE x = handleProjectRootDirKey(h)
    <2>1. x = [h EXCEPT !.asking = h.dest]
      BY <1>3 DEF handleProjectRootDirKey, requestBrowseDirForDest
    <2>2. /\ DOMAIN x = FormFields /\ x.name = h.name /\ x.msg = h.msg /\ x.dest = h.dest /\ x.merge = h.merge
          /\ x.root = h.root /\ x.asking = h.dest /\ x.dialog = h.dialog
      BY <2>1 DEF GoodForm, FormFields
    <2> QED BY <2>2 DEF GoodForm
  <1>4. CASE x = typeName(h)
    <2>1. x = [h EXCEPT !.name = h.name + 1, !.msg = Blank0]
      BY <1>4 DEF typeName
    <2>2. /\ DOMAIN x = FormFields /\ x.name = h.name + 1 /\ x.msg = Blank0 /\ x.dest = h.dest
          /\ x.root = h.root /\ x.asking = h.asking
      BY <2>1 DEF GoodForm, FormFields
    <2> QED BY <2>2 DEF GoodForm, Blank0
  <1>5. CASE h.name > 0 /\ x = backspaceName(h)
    <2>1. x = [h EXCEPT !.name = h.name - 1]
      BY <1>5 DEF backspaceName
    <2>2. /\ DOMAIN x = FormFields /\ x.name = h.name - 1 /\ x.msg = h.msg /\ x.dest = h.dest /\ x.merge = h.merge
          /\ x.root = h.root /\ x.asking = h.asking /\ x.dialog = h.dialog
      BY <2>1 DEF GoodForm, FormFields
    <2>3. x.name \in Nat
      BY <1>5, <2>2 DEF GoodForm
    <2> QED BY <2>2, <2>3 DEF GoodForm
  <1>6. CASE x = handleProjectHostKey(h)
    <2>1. x = [h EXCEPT !.typedHost = ~h.typedHost, !.msg = Blank0]
      BY <1>6 DEF handleProjectHostKey
    <2>2. /\ DOMAIN x = FormFields /\ x.name = h.name /\ x.msg = Blank0 /\ x.dest = h.dest
          /\ x.root = h.root /\ x.asking = h.asking
      BY <2>1 DEF GoodForm, FormFields
    <2> QED BY <2>2 DEF GoodForm, Blank0
  <1>7. CASE x = connectProjectHost(h)
    <2>1. PICK y : y = [h EXCEPT !.dialing = TRUE]
      OBVIOUS
    <2>2. \/ x = setFormError(h) \/ x = setFormBusy(y)
          \/ x = requestBrowseDirForDest(resetProjectBrowseState([h EXCEPT !.dest = Remote]), Remote)
      BY <1>7, <2>1 DEF connectProjectHost
    <2>3. GoodForm(y)
      <3>1. /\ DOMAIN y = FormFields /\ y.name = h.name /\ y.msg = h.msg /\ y.dest = h.dest /\ y.merge = h.merge
            /\ y.root = h.root /\ y.asking = h.asking /\ y.dialog = h.dialog
        BY <2>1 DEF GoodForm, FormFields
      <3> QED BY <3>1 DEF GoodForm
    <2>4. CASE x = setFormError(h)
      BY <2>4, LineKeeps DEF setFormError
    <2>5. CASE x = setFormBusy(y)
      BY <2>3, <2>5, LineKeeps DEF setFormBusy
    <2>6. CASE x = requestBrowseDirForDest(resetProjectBrowseState([h EXCEPT !.dest = Remote]), Remote)
      BY <2>6, BrowsedKeeps
    <2> QED BY <2>2, <2>4, <2>5, <2>6
  <1> QED BY <1>1, <1>2, <1>3, <1>4, <1>5, <1>6, <1>7 DEF FormKeys

\* A form that has just been opened.
LEMMA OpensWell ==
    ASSUME NEW dest \in Machines, NEW x,
           \/ x = openNewProjectDialog(dest)
           \/ \E id : \E name \in Nat : x = beginProjectRename(id, name, dest)
    PROVE  GoodForm(x)
  <1>1. CASE x = openNewProjectDialog(dest)
    <2>1. /\ DOMAIN x = FormFields /\ x.name = 0 /\ x.msg = Blank0 /\ x.dest = dest /\ x.root = NoFormDir
          /\ x.asking = dest
      BY <1>1 DEF openNewProjectDialog, requestBrowseDirForDest, Closed0, FormFields
    <2> QED BY <2>1 DEF GoodForm, Blank0
  <1>2. ASSUME NEW id, NEW name \in Nat, x = beginProjectRename(id, name, dest) PROVE GoodForm(x)
    <2>1. /\ DOMAIN x = FormFields /\ x.name = name /\ x.msg = Blank0 /\ x.dest = dest /\ x.root = dest
          /\ x.asking = dest
      BY <1>2 DEF beginProjectRename, requestBrowseDirForDest, Closed0, FormFields
    <2> QED BY <2>1 DEF GoodForm, Blank0
  <1> QED BY <1>1, <1>2

\* A step that says nothing.
LEMMA SilentStep ==
    ASSUME FormInv, formDid' = Quiet0, toHost' = toHost, GoodForm(filled'),
           Apart(onHost'), known' \in Seq(HostProject)
    PROVE  FormInv'
  <1>1. \A m \in toHost' : GoodMessage(m)
    BY DEF FormInv
  <1>2. FormSound'
    BY DEF Quiet0, FormSound, FoldAsShown, OnePerHost, RootsBelong, AdoptionIsFirst
  <1> QED BY <1>1, <1>2 DEF FormInv, GoodForm, Apart

\* Answers.
LEMMA FormAnswersKeep ==
    ASSUME FormInv, BrowseAnswers \/ FormDestDialed \/ DestInstalled \/ Broadcast0
    PROVE  FormInv'
  <1>1. PICK h : h = filled
    OBVIOUS
  <1>2. GoodForm(h) /\ Apart(onHost) /\ known \in Seq(HostProject) /\ onHost \in Seq(HostProject)
    BY <1>1 DEF FormInv, Apart
  <1>3. ASSUME NEW x, GoodForm(x), Arrives(x), known' \in {known, onHost} PROVE FormInv'
    <2>1. /\ filled' = x /\ formDid' = Quiet0 /\ onHost' = onHost /\ toHost' = toHost
          /\ known' \in Seq(HostProject)
      BY <1>2, <1>3 DEF Arrives
    <2> QED BY <1>2, <1>3, <2>1, SilentStep
  <1>4. CASE BrowseAnswers
    <2>1. PICK x : /\ x = [h EXCEPT !.root = h.asking, !.asking = NoFormDir] \/ x = [h EXCEPT !.asking = NoFormDir]
                   /\ Arrives(x) /\ known' = known
      BY <1>1, <1>4 DEF BrowseAnswers
    <2>2. /\ DOMAIN x = FormFields /\ x.name = h.name /\ x.msg = h.msg /\ x.dest = h.dest /\ x.merge = h.merge
          /\ x.root \in {h.root, h.asking} /\ x.asking = NoFormDir /\ x.dialog = h.dialog
      BY <1>2, <2>1 DEF GoodForm, FormFields
    <2>3. GoodForm(x)
      BY <1>2, <2>2 DEF GoodForm
    <2> QED BY <1>3, <2>1, <2>3
  <1>5. CASE FormDestDialed
    <2>1. PICK ok, busy, err : ok = setFormOK(h) /\ busy = setFormBusy(h) /\ err = setFormError(h)
      OBVIOUS
    <2>2. GoodForm(ok) /\ GoodForm(busy) /\ GoodForm(err)
      <3>1. GoodForm(ok)
        BY <1>2, <2>1, LineKeeps DEF setFormOK
      <3>2. GoodForm(busy)
        BY <1>2, <2>1, LineKeeps DEF setFormBusy
      <3>3. GoodForm(err)
        BY <1>2, <2>1, LineKeeps DEF setFormError
      <3> QED BY <3>1, <3>2, <3>3
    <2>3. PICK y : y = [ok EXCEPT !.dialing = FALSE]
      OBVIOUS
    <2>4. GoodForm(y)
      BY <2>2, <2>3, LinkKeeps
    <2>5. PICK x : /\ Arrives(x) /\ known' = known
                   /\ \/ x = requestBrowseDirForDest(resetProjectBrowseState([y EXCEPT !.dest = Remote]), Remote)
                      \/ x = [busy EXCEPT !.dialing = FALSE, !.installing = TRUE, !.installed = TRUE]
                      \/ x = [err EXCEPT !.dialing = FALSE]
      <3>1. [ok EXCEPT !.dialing = FALSE, !.dest = Remote] = [y EXCEPT !.dest = Remote]
        BY <2>2, <2>3 DEF GoodForm, FormFields
      <3> QED BY <1>1, <1>5, <2>1, <3>1 DEF FormDestDialed
    <2>6. GoodForm(x)
      <3>1. CASE x = requestBrowseDirForDest(resetProjectBrowseState([y EXCEPT !.dest = Remote]), Remote)
        BY <2>4, <3>1, BrowsedKeeps
      <3>2. CASE x = [busy EXCEPT !.dialing = FALSE, !.installing = TRUE, !.installed = TRUE]
        BY <2>2, <3>2, LinkKeeps
      <3>3. CASE x = [err EXCEPT !.dialing = FALSE]
        BY <2>2, <3>3, LinkKeeps
      <3> QED BY <2>5, <3>1, <3>2, <3>3
    <2> QED BY <1>3, <2>5, <2>6
  <1>6. CASE DestInstalled
    <2>1. PICK busy, err : busy = setFormBusy(h) /\ err = setFormError(h)
      OBVIOUS
    <2>2. GoodForm(busy) /\ GoodForm(err)
      <3>2. GoodForm(busy)
        BY <1>2, <2>1, LineKeeps DEF setFormBusy
      <3>3. GoodForm(err)
        BY <1>2, <2>1, LineKeeps DEF setFormError
      <3> QED BY <3>2, <3>3
    <2>3. PICK x : /\ Arrives(x) /\ known' = known
                   /\ \/ x = [err EXCEPT !.installing = FALSE]
                      \/ x = [busy EXCEPT !.installing = FALSE, !.dialing = TRUE]
      BY <1>1, <1>6, <2>1 DEF DestInstalled
    <2>4. GoodForm(x)
      BY <2>2, <2>3, LinkKeeps
    <2> QED BY <1>3, <2>3, <2>4
  <1>7. CASE Broadcast0
    <2>1. Arrives(h) /\ known' = onHost
      BY <1>1, <1>7 DEF Broadcast0
    <2> QED BY <1>2, <1>3, <2>1
  <1> QED BY <1>4, <1>5, <1>6, <1>7

\* The host's daemon applies a message.
LEMMA HandlesKeep ==
    ASSUME FormInv, HostHandles
    PROVE  FormInv'
  <1>1. PICK m \in toHost :
          /\ toHost' = toHost \ {m}
          /\ onHost' = CASE m.cmd = "merge" -> MergeProjects(m)
                   [] m.cmd = "create" -> Append(onHost, [Bootstrap EXCEPT !.id = "c", !.by = "us"])
                   [] OTHER -> UpdateProject(m)
          /\ formDid' = [Quiet0 EXCEPT !.cmd = "applied", !.line = m.plan,
                    !.was = IF m.cmd = "adopt" /\ onHost' # onHost THEN onHost[CHOOSE i \in Where(m.plan.into) : TRUE].by ELSE "none"]
          /\ filled' = filled /\ known' = known
    BY DEF HostHandles
  <1>2. GoodMessage(m) /\ Apart(onHost)
    BY DEF FormInv
  <1>3. onHost' = IF m.cmd = "merge" THEN MergeProjects(m) ELSE UpdateProject(m)
    BY <1>1, <1>2 DEF GoodMessage
  <1>4. Apart(onHost')
    <2>1. CASE m.cmd = "merge"
      BY <1>2, <1>3, <2>1, MergeKeeps
    <2>2. CASE m.cmd # "merge"
      BY <1>2, <1>3, <2>2, UpdateKeeps
    <2> QED BY <2>1, <2>2
  <1>5. formDid'.cmd = "applied" /\ formDid'.was \in {"none", "daemon"}
    <2>5. PICK by : by = onHost[CHOOSE i \in Where(m.plan.into) : TRUE].by
      OBVIOUS
    <2>1. PICK w : w = IF m.cmd = "adopt" /\ onHost' # onHost THEN by ELSE "none"
      OBVIOUS
    <2>2. w \in {"none", "daemon"}
      <3>1. CASE m.cmd = "adopt" /\ onHost' # onHost
        <4>1. UpdateProject(m) # onHost
          BY <1>3, <3>1
        <4> QED BY <1>2, <2>1, <2>5, <3>1, <4>1, AdoptsFirst
      <3>2. CASE ~(m.cmd = "adopt" /\ onHost' # onHost)
        BY <2>1, <3>2
      <3> QED BY <3>1, <3>2
    <2>3. formDid' = [Quiet0 EXCEPT !.cmd = "applied", !.line = m.plan, !.was = w]
      BY <1>1, <2>1, <2>5
    <2> QED BY <2>2, <2>3 DEF Quiet0
  <1>6. FormSound'
    BY <1>5 DEF FormSound, FoldAsShown, OnePerHost, RootsBelong, AdoptionIsFirst
  <1> QED BY <1>1, <1>4, <1>6 DEF FormInv, Apart

\* Another client, and the link.
LEMMA OthersKeep ==
    ASSUME FormInv, OtherNames \/ OtherTabs \/ OtherAdds \/ disconnectDest
    PROVE  FormInv'
  <1>1. /\ GoodForm(filled) /\ Apart(onHost) /\ known \in Seq(HostProject)
        /\ onHost \in Seq(HostProject) /\ DOMAIN onHost = 1 .. Len(onHost) /\ Len(onHost) \in Nat
    BY DEF FormInv, Apart
  <1>2. ASSUME NEW h, NEW c, NEW s, Apart(h), s \in Seq(HostProject), Elsewhere(h, c, s) PROVE FormInv'
    <2>1. /\ filled' = filled /\ formDid' = Quiet0 /\ onHost' = h /\ toHost' = toHost /\ known' = s
      BY <1>2 DEF Elsewhere
    <2> QED BY <1>1, <1>2, <2>1, SilentStep
  <1>3. ASSUME NEW i \in DOMAIN onHost, NEW x \in HostProject, x.id = onHost[i].id
        PROVE  Apart([onHost EXCEPT ![i] = x])
    <2>1. PICK g : g = [onHost EXCEPT ![i] = x]
      OBVIOUS
    <2>2. DOMAIN g = DOMAIN onHost /\ g = [k \in DOMAIN onHost |-> g[k]]
      BY <2>1
    <2>3. ASSUME NEW k \in DOMAIN onHost PROVE g[k] \in HostProject /\ g[k].id = onHost[k].id
      <3>1. onHost[k] \in HostProject
        BY <1>1, ElementOfSeq
      <3> QED BY <1>3, <2>1, <3>1
    <2> QED BY <1>1, <2>1, <2>2, <2>3, SameIdsKeep
  <1>4. CASE OtherNames
    <2>1. PICK i \in DOMAIN onHost : Elsewhere([onHost EXCEPT ![i].by = "other", ![i].name = 5], linked, known)
      BY <1>4 DEF OtherNames
    <2>2. PICK x : x = [onHost[i] EXCEPT !.by = "other", !.name = 5]
      OBVIOUS
    <2>3. onHost[i] \in HostProject
      BY <1>1, ElementOfSeq
    <2>4. x \in HostProject /\ x.id = onHost[i].id
      BY <2>2, <2>3 DEF HostProject
    <2>5. [onHost EXCEPT ![i].by = "other", ![i].name = 5] = [onHost EXCEPT ![i] = x]
      BY <2>2, <2>3 DEF HostProject
    <2> QED BY <1>1, <1>2, <1>3, <2>1, <2>4, <2>5
  <1>5. CASE OtherTabs
    <2>1. PICK i \in DOMAIN onHost : Elsewhere([onHost EXCEPT ![i].tabs = 2], linked, known)
      BY <1>5 DEF OtherTabs
    <2>2. PICK x : x = [onHost[i] EXCEPT !.tabs = 2]
      OBVIOUS
    <2>3. onHost[i] \in HostProject
      BY <1>1, ElementOfSeq
    <2>4. x \in HostProject /\ x.id = onHost[i].id
      BY <2>2, <2>3 DEF HostProject
    <2>5. [onHost EXCEPT ![i].tabs = 2] = [onHost EXCEPT ![i] = x]
      BY <2>2, <2>3 DEF HostProject
    <2> QED BY <1>1, <1>2, <1>3, <2>1, <2>4, <2>5
  <1>6. CASE OtherAdds
    <2>1. PICK g : g = Append(onHost, Named)
      OBVIOUS
    <2>2. Len(onHost) < 2 /\ onHost[1].id # "a" /\ Elsewhere(g, linked, known)
      BY <1>6, <2>1 DEF OtherAdds
    <2>3. Named \in HostProject /\ Named.id = "a"
      BY DEF Named, HostProject
    <2>4. /\ g \in Seq(HostProject) /\ Len(g) = Len(onHost) + 1 /\ g[Len(onHost) + 1] = Named
          /\ \A k \in 1 .. Len(onHost) : g[k] = onHost[k]
      BY <1>1, <2>1, <2>3, AppendProperties
    <2>5. \A i, j \in DOMAIN g : g[i].id = g[j].id => i = j
      <3>1. DOMAIN g = 1 .. Len(onHost) + 1 /\ Len(onHost) \in {0, 1}
        BY <1>1, <2>2, <2>4
      <3>2. CASE Len(onHost) = 0
        <4>1. \A k \in DOMAIN g : k = 1
          BY <3>1, <3>2
        <4> QED BY <4>1
      <3>3. CASE Len(onHost) = 1
        <4>1. g[1].id # "a" /\ g[2].id = "a"
          BY <2>2, <2>3, <2>4, <3>3
        <4>2. \A k \in DOMAIN g : k = 1 \/ k = 2
          BY <3>1, <3>3
        <4> QED BY <4>1, <4>2
      <3> QED BY <3>1, <3>2, <3>3
    <2>6. Apart(g)
      BY <2>4, <2>5 DEF Apart
    <2> QED BY <1>1, <1>2, <2>2, <2>6
  <1>7. CASE disconnectDest
    <2>1. PICK e : e = <<>>
      OBVIOUS
    <2>2. e \in Seq(HostProject)
      BY <2>1
    <2>3. Elsewhere(onHost, FALSE, e)
      BY <1>7, <2>1 DEF disconnectDest
    <2> QED BY <1>1, <1>2, <2>2, <2>3
  <1> QED BY <1>4, <1>5, <1>6, <1>7

\* The invariant holds of a closed form, and every step keeps it.
LEMMA FormStarts == FormInit => FormInv
  <1> SUFFICES ASSUME FormInit PROVE FormInv
    OBVIOUS
  <1>1. Bootstrap \in HostProject /\ Named \in HostProject /\ Bootstrap.id = "b" /\ Named.id = "a"
    BY DEF Bootstrap, Named, HostProject
  <1>2. PICK b, a, e : b = Bootstrap /\ a = Named /\ e = <<>>
    OBVIOUS
  <1>3. Apart(onHost)
    <2>1. <<b>> \in Seq(HostProject) /\ <<a>> \in Seq(HostProject) /\ <<b, a>> \in Seq(HostProject)
      BY <1>1, <1>2
    <2>2. Apart(<<b>>) /\ Apart(<<a>>) /\ Apart(<<b, a>>)
      BY <1>1, <1>2, <2>1 DEF Apart
    <2> QED BY <1>2, <2>2 DEF FormInit
  <1>4. known \in Seq(HostProject)
    <2>1. known = onHost \/ known = e
      BY <1>2 DEF FormInit
    <2>2. e \in Seq(HostProject)
      BY <1>2
    <2> QED BY <1>3, <2>1, <2>2 DEF Apart
  <1>5. GoodForm(filled)
    <2>1. /\ DOMAIN filled = FormFields /\ filled.name = 0 /\ filled.dest = FormHere /\ filled.root = NoFormDir
          /\ filled.asking = NoFormDir /\ filled.msg = Blank0
      BY DEF FormInit, Closed0, FormFields
    <2> QED BY <2>1 DEF GoodForm, Machines, Blank0
  <1>6. FormSound
    BY DEF FormInit, Quiet0, FormSound, FoldAsShown, OnePerHost, RootsBelong, AdoptionIsFirst
  <1> QED BY <1>3, <1>4, <1>5, <1>6 DEF FormInv, FormInit

\* Every step of the form, its answers and its host.
LEMMA FormKept == FormInv /\ [FormNext]_formVars => FormInv'
  <1> SUFFICES ASSUME FormInv, [FormNext]_formVars PROVE FormInv'
    OBVIOUS
  <1>1. /\ GoodForm(filled) /\ Apart(onHost) /\ known \in Seq(HostProject)
    BY DEF FormInv
  <1>2. ASSUME NEW x, GoodForm(x), Form(x) PROVE FormInv'
    <2>1. filled' = x /\ formDid' = Quiet0 /\ onHost' = onHost /\ toHost' = toHost /\ known' = known
      BY <1>2 DEF Form
    <2> QED BY <1>1, <1>2, <2>1, SilentStep
  <1>3. CASE OpenForm
    <2>1. PICK x : /\ Form(x)
                   /\ \E dest \in Machines : \/ x = openNewProjectDialog(dest)
                                             \/ \E id : \E name \in Nat : x = beginProjectRename(id, name, dest)
      BY <1>3 DEF OpenForm, Machines, LocalName
    <2>2. GoodForm(x)
      BY <2>1, OpensWell
    <2> QED BY <1>2, <2>1, <2>2
  <1>4. CASE handleProjectDialogKey
    <2>1. PICK x \in FormKeys(filled) : Form(x)
      BY <1>4 DEF handleProjectDialogKey
    <2>2. GoodForm(x)
      BY <1>1, KeysKeepForm
    <2> QED BY <1>2, <2>1, <2>2
  <1>5. CASE PressEnter
    BY <1>5, EnterKeeps
  <1>6. CASE BrowseAnswers \/ FormDestDialed \/ DestInstalled \/ Broadcast0
    BY <1>6, FormAnswersKeep
  <1>7. CASE HostHandles
    BY <1>7, HandlesKeep
  <1>8. CASE OtherNames \/ OtherTabs \/ OtherAdds \/ disconnectDest
    BY <1>8, OthersKeep
  <1>9. CASE UNCHANGED formVars
    BY <1>9 DEF formVars, FormInv, GoodForm, Apart, FormSound, FoldAsShown, OnePerHost, RootsBelong,
       AdoptionIsFirst
  <1> QED BY <1>3, <1>4, <1>5, <1>6, <1>7, <1>8, <1>9 DEF FormNext

\* The project form sends what its lines said, to the machine it browsed
\* (projectdialog.go foldIsConfirmed, submitNewProject; project.go
\* UpdateProject): whatever a user types and whatever arrives meanwhile.
THEOREM FormsAreSound == FormSpec => []FormSound
  <1>1. FormInv => FormSound
    BY DEF FormInv
  <1> QED BY FormStarts, FormKept, <1>1, PTL DEF FormSpec

-----------------------------------------------------------------------------
(* The command palette                                                       *)

\* Whatever holds somewhere holds first somewhere.
LEMMA Least ==
  ASSUME NEW T, T \subseteq Nat, T # {}
  PROVE  \E m \in T : \A k \in T : m <= k
  <1>1. PICK m \in T : \A k \in T : <<k, m>> \notin OpToRel(<, Nat)
    BY NatLessThanWellFounded, WFMin
  <1>2. \A k \in T : ~(k < m)
    BY <1>1 DEF OpToRel
  <1> QED BY <1>2

(* Lists *)

\* A sequence of whatever rows.
IsList(s) == \E S : s \in Seq(S)
\* The cursor stands on a row Enter can run, whenever there is one.
OnRow(d, c) == IF c \in DOMAIN d THEN selectable(d[c]) ELSE \A i \in DOMAIN d : ~selectable(d[i])

\* A function on 1 .. n is a list.
LEMMA ListIs ==
  ASSUME NEW n \in Nat, NEW s, DOMAIN s = 1 .. n, s = [i \in DOMAIN s |-> s[i]]
  PROVE  IsList(s)
  <1>1. PICK S : S = {s[i] : i \in 1 .. n}
    OBVIOUS
  <1>2. s \in [1 .. n -> S]
    BY <1>1
  <1>3. s \in Seq(S)
    BY <1>2, SeqDef
  <1> QED BY <1>3 DEF IsList

\* A list is a function on 1 .. n.
LEMMA ListHas ==
  ASSUME NEW s, IsList(s)
  PROVE  Len(s) \in Nat /\ DOMAIN s = 1 .. Len(s) /\ s = [i \in DOMAIN s |-> s[i]]
  BY DEF IsList

\* Lists join to a list.
LEMMA ListsJoin ==
  ASSUME NEW s, IsList(s), NEW t, IsList(t)
  PROVE  IsList(s \o t)
  <1>1. PICK S : s \in Seq(S)
    BY DEF IsList
  <1>2. PICK T : t \in Seq(T)
    BY DEF IsList
  <1>3. s \in Seq(S \cup T) /\ t \in Seq(S \cup T)
    BY <1>1, <1>2
  <1>4. s \o t \in Seq(S \cup T)
    BY <1>3
  <1> QED BY <1>4 DEF IsList

\* One row is a list.
LEMMA OneRow == ASSUME NEW x PROVE IsList(<<x>>)
  <1>1. <<x>> \in Seq({x})
    OBVIOUS
  <1> QED BY <1>1 DEF IsList

\* No row is a list, and the empty query is blank.
LEMMA NoRow == IsList(<<>>) /\ DOMAIN <<>> = {} /\ TrimSpace(<<>>) = <<>>
  <1>1. <<>> \in Seq({})
    OBVIOUS
  <1>2. DOMAIN <<>> = {}
    OBVIOUS
  <1>3. TrimSpace(<<>>) = <<>>
    BY <1>2 DEF TrimSpace
  <1> QED BY <1>1, <1>2, <1>3 DEF IsList

\* Sorting and filtering leave a list.
LEMMA Ranked ==
  ASSUME NEW rank, IsFiniteSet(DOMAIN rank)
  PROVE  \E n \in Nat : DOMAIN ByRank(rank) = 1 .. n
  <1>1. PICK n \in Nat : n = Cardinality(DOMAIN rank)
    BY FS_CardinalityType
  <1>2. DOMAIN ByRank(rank) = 1 .. n
    BY <1>1 DEF ByRank
  <1> QED BY <1>2

\* Some of a list's rows are finitely many.
LEMMA SomeOf ==
  ASSUME NEW s, IsList(s), NEW T \in SUBSET (DOMAIN s)
  PROVE  IsFiniteSet(T)
  <1>1. PICK n \in Nat : DOMAIN s = 1 .. n
    BY ListHas
  <1>2. IsFiniteSet(1 .. n)
    BY FS_Interval
  <1> QED BY <1>1, <1>2, FS_Subset

\* Filtering the registry leaves a list.
LEMMA FilterIsList ==
  ASSUME NEW query, NEW commands, IsList(commands)
  PROVE  IsList(filterPalette(query, commands))
  <1>1. CASE query = <<>>
    BY <1>1 DEF filterPalette
  <1>2. CASE query # <<>>
    <2>1. PICK score : score = [i \in DOMAIN commands |->
                          IF commands[i].kind = "header" THEN 0 ELSE commandScore(query, commands[i])]
      OBVIOUS
    <2>2. PICK T \in SUBSET (DOMAIN commands) : T = {i \in DOMAIN commands : score[i] > 0}
      OBVIOUS
    <2>3. PICK rank : rank = [i \in T |-> Cardinality({j \in T : score[j] > score[i] \/ (score[j] = score[i] /\ j < i)})]
      OBVIOUS
    <2>4. filterPalette(query, commands) = [k \in DOMAIN ByRank(rank) |-> commands[ByRank(rank)[k]]]
      BY <1>2, <2>1, <2>2, <2>3 DEF filterPalette
    <2>5. IsFiniteSet(DOMAIN rank)
      BY <2>3, SomeOf
    <2>6. PICK n \in Nat : DOMAIN ByRank(rank) = 1 .. n
      BY <2>5, Ranked
    <2>7. PICK best : best = ByRank(rank)
      OBVIOUS
    <2>8. PICK out : out = [k \in 1 .. n |-> commands[best[k]]]
      OBVIOUS
    <2>9. filterPalette(query, commands) = out
      BY <2>4, <2>6, <2>7, <2>8
    <2>10. IsList(out)
      BY <2>8, ListIs
    <2> QED BY <2>9, <2>10
  <1> QED BY <1>1, <1>2

\* Hits are a list and carry the answer's query.
LEMMA HitsAreOf ==
  ASSUME NEW resp, IsFiniteSet(DOMAIN resp.panes)
  PROVE  IsList(Hits(resp)) /\ \A i \in DOMAIN Hits(resp) : Hits(resp)[i].from = resp.query
  <1>1. PICK T \in SUBSET (DOMAIN resp.panes) :
          T = {i \in DOMAIN resp.panes : \E p \in Projects : resp.panes[i] \in Range(strips[p])}
    OBVIOUS
  <1>2. PICK rank : rank = [i \in T |-> Cardinality({j \in T : j < i})]
    OBVIOUS
  <1>3. PICK kept : kept = ByRank(rank)
    OBVIOUS
  <1>4. Hits(resp) = [k \in DOMAIN kept |-> [Row("GoToPane", resp.panes[kept[k]], TRUE) EXCEPT !.from = resp.query]]
    BY <1>1, <1>2, <1>3 DEF Hits
  <1>5. IsFiniteSet(DOMAIN rank)
    BY <1>2, FS_Subset
  <1>6. PICK n \in Nat : DOMAIN kept = 1 .. n
    BY <1>3, <1>5, Ranked
  <1>7. PICK out : out = [k \in 1 .. n |-> [Row("GoToPane", resp.panes[kept[k]], TRUE) EXCEPT !.from = resp.query]]
    OBVIOUS
  <1>8. Hits(resp) = out
    BY <1>4, <1>6, <1>7
  <1>9. IsList(out)
    BY <1>7, ListIs
  <1>10. \A i \in DOMAIN out : out[i].from = resp.query
    BY <1>7 DEF Row
  <1> QED BY <1>8, <1>9, <1>10

\* The daemon's answer lists finitely many panes.
LEMMA AnswerIs ==
  ASSUME NEW term
  PROVE  IsFiniteSet(DOMAIN searchPanes(term).panes)
  <1>1. PICK ids : ids = <<"a", "b", "q">>
    OBVIOUS
  <1>2. IsList(ids)
    <2>1. ids \in Seq({"a", "b", "q"})
      BY <1>1
    <2> QED BY <2>1 DEF IsList
  <1>3. PICK scan : scan = [i \in DOMAIN ids |-> scanPaneMatches(Buffer[ids[i]], TrimSpace(term))]
    OBVIOUS
  <1>4. PICK T \in SUBSET (DOMAIN ids) : T = {i \in DOMAIN ids : scan[i].matches > 0}
    OBVIOUS
  <1>5. PICK rank : rank = [i \in T |-> Cardinality({j \in T : scan[j].matches > scan[i].matches
                                                       \/ (scan[j].matches = scan[i].matches /\ j < i)})]
    OBVIOUS
  <1>6. IsFiniteSet(DOMAIN rank)
    BY <1>2, <1>5, SomeOf
  <1>7. PICK n \in Nat : DOMAIN ByRank(rank) = 1 .. n
    BY <1>6, Ranked
  <1>8. searchPanes(term) = [panes |-> [k \in DOMAIN ByRank(rank) |-> ids[ByRank(rank)[k]]],
                             truncated |-> \E i \in T : scan[i].cut]
    BY <1>1, <1>3, <1>4, <1>5 DEF searchPanes
  <1>9. DOMAIN searchPanes(term).panes = 1 .. n
    BY <1>7, <1>8
  <1> QED BY <1>9, FS_Interval
-----------------------------------------------------------------------------
(* Cursors *)

\* The first row that can be run.
LEMMA FirstRow ==
  ASSUME NEW d, IsList(d)
  PROVE  firstSelectable(d) \in Nat /\ OnRow(d, firstSelectable(d))
  <1>1. PICK ok : ok = {i \in DOMAIN d : selectable(d[i])}
    OBVIOUS
  <1>2. DOMAIN d \subseteq Nat \ {0}
    BY ListHas
  <1>3. CASE ok = {}
    <2>1. firstSelectable(d) = 0
      BY <1>1, <1>3 DEF firstSelectable
    <2> QED BY <1>1, <1>2, <1>3, <2>1 DEF OnRow
  <1>4. CASE ok # {}
    <2>1. \E i \in ok : \A j \in ok : i <= j
      <3>1. ok \subseteq Nat
        BY <1>1, <1>2
      <3> QED BY <1>4, <3>1, Least
    <2>2. firstSelectable(d) \in ok
      BY <1>1, <1>4, <2>1 DEF firstSelectable
    <2> QED BY <1>1, <1>2, <2>2 DEF OnRow
  <1> QED BY <1>3, <1>4

\* The next one in a direction.
LEMMA NextRow ==
  ASSUME NEW d, IsList(d), NEW c \in Nat, NEW dir \in {-1, 1}
  PROVE  nextSelectable(d, c, dir) \in Nat /\ OnRow(d, nextSelectable(d, c, dir))
  <1>1. PICK ahead : ahead = {i \in DOMAIN d : selectable(d[i]) /\ (i - c) * dir > 0}
    OBVIOUS
  <1>2. PICK n \in Nat : DOMAIN d = 1 .. n
    BY ListHas
  <1>3. CASE ahead # {}
    <2>1. \E i \in ahead : \A j \in ahead : (j - i) * dir >= 0
      <3>1. CASE dir = 1
        <4>1. PICK i \in ahead : \A j \in ahead : i <= j
          <5>1. ahead \subseteq Nat
            BY <1>1, <1>2
          <5> QED BY <1>3, <5>1, Least
        <4>2. \A j \in ahead : (j - i) * dir >= 0
          BY <1>1, <1>2, <3>1, <4>1
        <4> QED BY <4>2
      <3>2. CASE dir = -1
        <4>1. PICK M : M = {n - i : i \in ahead}
          OBVIOUS
        <4>2. PICK m \in M : \A k \in M : m <= k
          <5>1. M \subseteq Nat /\ M # {}
            BY <1>1, <1>2, <1>3, <4>1
          <5> QED BY <5>1, Least
        <4>3. PICK i \in ahead : m = n - i
          BY <4>1, <4>2
        <4>4. \A j \in ahead : j <= i
          <5> SUFFICES ASSUME NEW j \in ahead PROVE j <= i
            OBVIOUS
          <5>1. n - j \in M
            BY <4>1
          <5>2. n - i <= n - j
            BY <4>2, <4>3, <5>1
          <5>3. i \in Nat /\ j \in Nat
            BY <1>1, <1>2
          <5> QED BY <5>2, <5>3
        <4>5. \A j \in ahead : (j - i) * dir >= 0
          BY <1>1, <1>2, <3>2, <4>4
        <4> QED BY <4>5
      <3> QED BY <3>1, <3>2
    <2>2. nextSelectable(d, c, dir) \in ahead
      BY <1>1, <1>3, <2>1 DEF nextSelectable
    <2>3. nextSelectable(d, c, dir) \in DOMAIN d /\ selectable(d[nextSelectable(d, c, dir)])
      BY <1>1, <2>2
    <2>4. nextSelectable(d, c, dir) \in Nat
      BY <1>2, <2>3
    <2> QED BY <2>3, <2>4 DEF OnRow
  <1>4. CASE ahead = {} /\ c \in DOMAIN d /\ selectable(d[c])
    <2>1. nextSelectable(d, c, dir) = c
      BY <1>1, <1>4 DEF nextSelectable
    <2> QED BY <1>4, <2>1 DEF OnRow
  <1>5. CASE ahead = {} /\ ~(c \in DOMAIN d /\ selectable(d[c]))
    <2>1. nextSelectable(d, c, dir) = firstSelectable(d)
      BY <1>1, <1>5 DEF nextSelectable
    <2> QED BY <2>1, FirstRow
  <1> QED BY <1>3, <1>4, <1>5

\* The nearest one when the list has changed under the cursor.
LEMMA ClampedRow ==
  ASSUME NEW d, IsList(d), NEW c \in Nat
  PROVE  clampPaletteCursor(d, c) \in Nat /\ OnRow(d, clampPaletteCursor(d, c))
  <1>1. PICK n \in Nat : DOMAIN d = 1 .. n
    BY ListHas
  <1>2. PICK from : from = IF c < 1 THEN 1 ELSE IF c > Len(d) THEN Len(d) ELSE c
    OBVIOUS
  <1>3. PICK after : after = {i \in DOMAIN d : i >= from /\ selectable(d[i])}
    OBVIOUS
  <1>4. CASE d = <<>>
    <2>1. clampPaletteCursor(d, c) = 0
      BY <1>4 DEF clampPaletteCursor
    <2>2. DOMAIN d = {}
      BY <1>4, NoRow
    <2> QED BY <2>1, <2>2 DEF OnRow
  <1>5. CASE d # <<>> /\ after # {}
    <2>1. \E i \in after : \A j \in after : i <= j
      <3>1. after \subseteq Nat
        BY <1>1, <1>3
      <3> QED BY <1>5, <3>1, Least
    <2>2. clampPaletteCursor(d, c) \in after
      BY <1>2, <1>3, <1>5, <2>1 DEF clampPaletteCursor
    <2>3. clampPaletteCursor(d, c) \in DOMAIN d /\ selectable(d[clampPaletteCursor(d, c)])
      BY <1>3, <2>2
    <2>4. clampPaletteCursor(d, c) \in Nat
      BY <1>1, <2>3
    <2> QED BY <2>3, <2>4 DEF OnRow
  <1>6. CASE d # <<>> /\ after = {}
    <2>1. clampPaletteCursor(d, c) = firstSelectable(d)
      BY <1>2, <1>3, <1>6 DEF clampPaletteCursor
    <2> QED BY <2>1, FirstRow
  <1> QED BY <1>4, <1>5, <1>6
-----------------------------------------------------------------------------
(* The workspace under the palette *)

\* The tabs and the projects of the model.
PalTabs == {"a", "b", "q"}
PalProjects == {"P", "Q"}
\* The tab a project remembers is one of its tabs, and the project on screen has one.
Standing ==
    /\ strips \in [PalProjects -> Seq(PalTabs)]
    /\ at \in [proj : PalProjects, tab : [PalProjects -> PalTabs]]
    /\ strips[at.proj] # <<>>
    /\ \A p \in PalProjects : strips[p] # <<>> => at.tab[p] \in Range(strips[p])

\* What a strip of tabs consists of.
LEMMA StripHas ==
  ASSUME NEW s \in Seq(PalTabs)
  PROVE  /\ Len(s) \in Nat /\ DOMAIN s = 1 .. Len(s) /\ \A i \in 1 .. Len(s) : s[i] \in PalTabs
         /\ Range(s) \subseteq PalTabs
         /\ (s # <<>> <=> Len(s) > 0) /\ (s # <<>> <=> Range(s) # {})
         /\ s # <<>> => s[1] \in Range(s)
  <1>1. Len(s) \in Nat /\ DOMAIN s = 1 .. Len(s) /\ \A i \in 1 .. Len(s) : s[i] \in PalTabs
    OBVIOUS
  <1>2. s # <<>> <=> Len(s) > 0
    BY <1>1, EmptySeq
  <1>3. Range(s) = {s[i] : i \in 1 .. Len(s)}
    BY <1>1 DEF Range
  <1>4. s # <<>> => 1 \in 1 .. Len(s)
    BY <1>1, <1>2
  <1> QED BY <1>1, <1>2, <1>3, <1>4

\* A tab taken out leaves the rest.
LEMMA TabGoes ==
  ASSUME NEW s \in Seq(PalTabs), NEW x \in Range(s)
  PROVE  /\ RemoveAt(s, Position(s, x)) \in Seq(PalTabs)
         /\ \A y \in Range(s) : y # x => y \in Range(RemoveAt(s, Position(s, x)))
         /\ s # <<x>> => RemoveAt(s, Position(s, x)) # <<>>
  <1>1. Len(s) \in Nat /\ DOMAIN s = 1 .. Len(s) /\ \A i \in 1 .. Len(s) : s[i] \in PalTabs
    BY StripHas
  <1>2. PICK i \in 1 .. Len(s) : i = Position(s, x) /\ s[i] = x
    BY <1>1 DEF Position, Range
  <1>3. PICK w \in Int, v \in Int, n \in Int : w = i - 1 /\ v = i + 1 /\ n = Len(s)
    <2>1. i - 1 \in Int /\ i + 1 \in Int /\ Len(s) \in Int
      BY <1>1
    <2> QED BY <2>1
  <1>4. PICK l \in Seq(PalTabs) : /\ l = SubSeq(s, 1, w) /\ Len(l) = w
                                  /\ \A k \in 1 .. w : l[k] = s[k]
    <2>1. \A k \in 1 .. w : s[k] \in PalTabs
      BY <1>1, <1>3
    <2>2. /\ SubSeq(s, 1, w) \in Seq(PalTabs)
          /\ Len(SubSeq(s, 1, w)) = IF 1 <= w THEN w - 1 + 1 ELSE 0
          /\ \A k \in 1 .. w - 1 + 1 : SubSeq(s, 1, w)[k] = s[1 + k - 1]
      BY <2>1, SubSeqProperties
    <2>3. Len(SubSeq(s, 1, w)) = w
      BY <1>1, <1>3, <2>2
    <2>4. \A k \in 1 .. w : k \in 1 .. w - 1 + 1 /\ 1 + k - 1 = k
      OBVIOUS
    <2> QED BY <2>2, <2>3, <2>4
  <1>5. PICK r \in Seq(PalTabs) : /\ r = SubSeq(s, v, n) /\ Len(r) = n - i
                                  /\ \A k \in v .. n : r[k - i] = s[k]
    <2>1. \A k \in v .. n : s[k] \in PalTabs
      BY <1>1, <1>3
    <2>2. /\ SubSeq(s, v, n) \in Seq(PalTabs)
          /\ Len(SubSeq(s, v, n)) = IF v <= n THEN n - v + 1 ELSE 0
          /\ \A k \in 1 .. n - v + 1 : SubSeq(s, v, n)[k] = s[v + k - 1]
      BY <2>1, SubSeqProperties
    <2>3. Len(SubSeq(s, v, n)) = n - i
      <3>1. i <= n /\ i \in Int
        BY <1>1, <1>3
      <3>2. (IF v <= n THEN n - v + 1 ELSE 0) = n - i
        BY <1>3, <3>1
      <3> QED BY <2>2, <3>2
    <2>4. \A k \in v .. n : k - i \in 1 .. n - v + 1 /\ v + (k - i) - 1 = k
      BY <1>1, <1>3
    <2>5. \A k \in v .. n : SubSeq(s, v, n)[k - i] = s[k]
      BY <2>2, <2>4
    <2> QED BY <2>2, <2>3, <2>5
  <1>6. PICK out \in Seq(PalTabs) :
           /\ out = RemoveAt(s, Position(s, x)) /\ Len(out) = n - 1
           /\ \A k \in 1 .. n - 1 : out[k] = IF k <= w THEN l[k] ELSE r[k - w]
    <2>1. RemoveAt(s, Position(s, x)) = l \o r
      BY <1>2, <1>3, <1>4, <1>5 DEF RemoveAt
    <2>2. /\ l \o r \in Seq(PalTabs) /\ Len(l \o r) = Len(l) + Len(r)
          /\ \A k \in 1 .. Len(l) + Len(r) : (l \o r)[k] = IF k <= Len(l) THEN l[k] ELSE r[k - Len(l)]
      BY ConcatProperties
    <2>3. Len(l) = w /\ Len(l) + Len(r) = n - 1
      <3>1. w + (n - i) = n - 1
        BY <1>3
      <3> QED BY <1>4, <1>5, <3>1
    <2> QED BY <2>1, <2>2, <2>3
  <1>7. /\ \A k \in 1 .. i - 1 : out[k] = s[k]
        /\ \A k \in i + 1 .. Len(s) : out[k - 1] = s[k]
    <2>1. ASSUME NEW k \in 1 .. i - 1 PROVE out[k] = s[k]
      <3>1. k \in 1 .. n - 1 /\ k <= w /\ k \in 1 .. w
        BY <1>1, <1>3
      <3> QED BY <1>4, <1>6, <3>1
    <2>2. ASSUME NEW k \in i + 1 .. Len(s) PROVE out[k - 1] = s[k]
      <3>1. k - 1 \in 1 .. n - 1 /\ ~(k - 1 <= w) /\ (k - 1) - w = k - i /\ k \in v .. n
        BY <1>1, <1>3
      <3>2. out[k - 1] = r[k - i]
        BY <1>6, <3>1
      <3> QED BY <1>5, <3>1, <3>2
    <2> QED BY <2>1, <2>2
  <1>8. ASSUME NEW y \in Range(s), y # x PROVE y \in Range(out)
    <2>1. PICK k \in 1 .. Len(s) : s[k] = y
      BY <1>1 DEF Range
    <2>2. k # i
      BY <1>2, <1>8, <2>1
    <2>3. \E j \in 1 .. Len(out) : out[j] = y
      <3>1. CASE k < i
        <4>1. k \in 1 .. i - 1 /\ k \in 1 .. Len(out)
          BY <1>1, <1>3, <1>6, <3>1
        <4> QED BY <1>7, <2>1, <4>1
      <3>2. CASE k > i
        <4>1. k \in i + 1 .. Len(s) /\ k - 1 \in 1 .. Len(out)
          BY <1>1, <1>3, <1>6, <3>2
        <4> QED BY <1>7, <2>1, <4>1
      <3> QED BY <1>1, <2>2, <3>1, <3>2
    <2> QED BY <2>3, StripHas DEF Range
  <1>9. ASSUME s # <<x>> PROVE out # <<>>
    <2>1. Len(s) # 1
      <3> SUFFICES ASSUME Len(s) = 1 PROVE FALSE
        OBVIOUS
      <3>1. s[1] = x
        BY <1>2
      <3> QED BY <1>9, <3>1
    <2>2. Len(out) > 0
      BY <1>1, <1>3, <1>6, <2>1
    <2> QED BY <2>2, StripHas
  <1> QED BY <1>6, <1>8, <1>9

\* Tabs that change places stay.
LEMMA TabsTurn ==
  ASSUME NEW s \in Seq(PalTabs)
  PROVE  Reverse(s) \in Seq(PalTabs) /\ Range(Reverse(s)) = Range(s)
  <1>1. Len(s) \in Nat /\ DOMAIN s = 1 .. Len(s) /\ \A i \in 1 .. Len(s) : s[i] \in PalTabs
    BY StripHas
  <1>2. PICK n \in Nat : n = Len(s)
    BY <1>1
  <1>3. Reverse(s) = [i \in 1 .. n |-> s[(n - i) + 1]]
    BY <1>2 DEF Reverse
  <1>4. \A i \in 1 .. n : (n - i) + 1 \in 1 .. n /\ (n - ((n - i) + 1)) + 1 = i
    OBVIOUS
  <1>5. Reverse(s) \in [1 .. n -> PalTabs]
    BY <1>1, <1>2, <1>3, <1>4
  <1>6. Reverse(s) \in Seq(PalTabs)
    BY <1>5, SeqDef
  <1>7. PICK t : t = Reverse(s)
    OBVIOUS
  <1>8. DOMAIN t = 1 .. n /\ \A i \in 1 .. n : t[i] = s[(n - i) + 1]
    BY <1>3, <1>7
  <1>9. \A x : x \in Range(t) => x \in Range(s)
    BY <1>1, <1>2, <1>4, <1>8 DEF Range
  <1>10. ASSUME NEW x, x \in Range(s) PROVE x \in Range(t)
    <2>1. PICK i \in 1 .. n : s[i] = x
      BY <1>1, <1>2, <1>10 DEF Range
    <2>2. t[(n - i) + 1] = x
      BY <1>4, <1>8, <2>1
    <2> QED BY <1>4, <1>8, <2>2 DEF Range
  <1> QED BY <1>6, <1>7, <1>9, <1>10

\* A tab that steps to the left takes none away.
LEMMA TabSteps ==
  ASSUME NEW s \in Seq(PalTabs), NEW i \in 2 .. Len(s)
  PROVE  MoveTab(s, i) \in Seq(PalTabs) /\ Range(MoveTab(s, i)) = Range(s)
  <1>1. Len(s) \in Nat /\ DOMAIN s = 1 .. Len(s) /\ \A k \in 1 .. Len(s) : s[k] \in PalTabs
    BY StripHas
  <1>2. PICK n \in Nat : n = Len(s)
    BY <1>1
  <1>3. s \in [1 .. n -> PalTabs] /\ i \in 1 .. n /\ i - 1 \in 1 .. n /\ i - 1 # i
    BY <1>1, <1>2
  <1>4. PICK t : t = MoveTab(s, i)
    OBVIOUS
  <1>5. /\ t \in [1 .. n -> PalTabs] /\ t[i - 1] = s[i] /\ t[i] = s[i - 1]
        /\ \A k \in 1 .. n : k # i /\ k # i - 1 => t[k] = s[k]
    BY <1>3, <1>4 DEF MoveTab
  <1>6. t \in Seq(PalTabs)
    BY <1>5, SeqDef
  <1>7. DOMAIN t = 1 .. n /\ DOMAIN s = 1 .. n
    BY <1>3, <1>5
  <1>8. \A x : x \in Range(t) => x \in Range(s)
    <2> SUFFICES ASSUME NEW k \in 1 .. n PROVE \E j \in 1 .. n : s[j] = t[k]
      BY <1>7 DEF Range
    <2> QED BY <1>3, <1>5
  <1>9. \A x : x \in Range(s) => x \in Range(t)
    <2> SUFFICES ASSUME NEW k \in 1 .. n PROVE \E j \in 1 .. n : t[j] = s[k]
      BY <1>7 DEF Range
    <2> QED BY <1>3, <1>5
  <1> QED BY <1>4, <1>6, <1>8, <1>9

\* The registry is a list.
LEMMA CommandsAreList == Standing => IsList(buildPaletteCommands)
  <1> SUFFICES ASSUME Standing PROVE IsList(buildPaletteCommands)
    OBVIOUS
  <1>1. \A act, ids : IsList(ids) => IsList(RowsOf(act, ids))
    <2> SUFFICES ASSUME NEW act, NEW ids, IsList(ids) PROVE IsList(RowsOf(act, ids))
      OBVIOUS
    <2>1. PICK n \in Nat : DOMAIN ids = 1 .. n
      BY ListHas
    <2>2. PICK out : out = [i \in 1 .. n |-> Row(act, ids[i], TRUE)]
      OBVIOUS
    <2>3. RowsOf(act, ids) = out
      BY <2>1, <2>2 DEF RowsOf
    <2>4. IsList(out)
      BY <2>2, ListIs
    <2> QED BY <2>3, <2>4
  <1>2. \A p \in PalProjects : IsList(strips[p])
    BY DEF Standing, IsList
  <1>3. IsList(strips["P"] \o strips["Q"]) /\ IsList(strips[at.proj])
    BY <1>2, ListsJoin DEF PalProjects, Standing
  <1>4. IsList(SetToSeq(Shown \ {at.proj}))
    <2>1. PICK T : T = Shown \ {at.proj}
      OBVIOUS
    <2>2. T \subseteq PalProjects \ {at.proj}
      BY <2>1 DEF Shown, Projects, Standing
    <2>3. \E n \in Nat : n = Cardinality(T) /\ \E f \in [1 .. n -> T] : IsInjective(f)
      <3>1. CASE T = {}
        <4>1. Cardinality(T) = 0
          BY <3>1, FS_EmptySet
        <4>2. PICK f : f = [i \in 1 .. 0 |-> 1]
          OBVIOUS
        <4>3. f \in [1 .. 0 -> T] /\ IsInjective(f)
          BY <4>2 DEF IsInjective
        <4>4. 0 \in Nat /\ 0 = Cardinality(T) /\ \E e \in [1 .. 0 -> T] : IsInjective(e)
          BY <4>1, <4>3
        <4> QED BY <4>4
      <3>2. CASE T # {}
        <4>1. PICK x \in T : T = {x}
          <5>1. at.proj \in {"P", "Q"}
            BY DEF PalProjects, Standing
          <5>2. PICK x \in T : TRUE
            BY <3>2
          <5>3. T \subseteq {"P", "Q"} \ {at.proj}
            BY <2>2 DEF PalProjects
          <5>4. T = {x}
            <6>1. CASE at.proj = "P"
              BY <5>2, <5>3, <6>1
            <6>2. CASE at.proj = "Q"
              BY <5>2, <5>3, <6>2
            <6> QED BY <5>1, <6>1, <6>2
          <5> QED BY <5>4
        <4>2. Cardinality(T) = 1
          BY <4>1, FS_Singleton
        <4>3. PICK f : f = [i \in 1 .. 1 |-> x]
          OBVIOUS
        <4>4. f \in [1 .. 1 -> T] /\ IsInjective(f)
          BY <4>1, <4>3 DEF IsInjective
        <4>5. 1 \in Nat /\ 1 = Cardinality(T) /\ \E e \in [1 .. 1 -> T] : IsInjective(e)
          BY <4>2, <4>4
        <4> QED BY <4>5
      <3> QED BY <3>1, <3>2
    <2>4. PICK n \in Nat : n = Cardinality(T) /\ \E f \in [1 .. n -> T] : IsInjective(f)
      BY <2>3
    <2>5. SetToSeq(T) \in [1 .. n -> T]
      BY <2>4 DEF SetToSeq
    <2>6. SetToSeq(T) \in Seq(T)
      BY <2>5, SeqDef
    <2> QED BY <2>1, <2>6 DEF IsList
  <1>5. PICK away : away = SetToSeq(Shown \ {at.proj}) /\ IsList(away)
    BY <1>4
  <1>6. PICK a, b, c, h, m, e :
          /\ a = RowsOf("GoToPane", strips["P"] \o strips["Q"]) /\ b = RowsOf("SwitchTab", strips[at.proj])
          /\ c = RowsOf("SwitchProject", away) /\ h = <<Line("header")>>
          /\ m = <<Row("MoveTabLeft", "", Position(strips[at.proj], Active) > 1)>>
          /\ e = <<Line("header"), Row("ActivePane", "", TRUE), Line("header"), Row("System", "", TRUE)>>
    OBVIOUS
  <1>7. IsList(a) /\ IsList(b) /\ IsList(c) /\ IsList(h) /\ IsList(m)
    BY <1>1, <1>3, <1>5, <1>6, OneRow
  <1>8. IsList(e)
    <2>1. PICK x, y, z : x = Line("header") /\ y = Row("ActivePane", "", TRUE) /\ z = Row("System", "", TRUE)
      OBVIOUS
    <2>2. <<x, y, x, z>> \in Seq({x, y, z})
      OBVIOUS
    <2> QED BY <1>6, <2>1, <2>2 DEF IsList
  <1>9. buildPaletteCommands = h \o a \o h \o b \o m \o h \o c \o e
    BY <1>5, <1>6 DEF buildPaletteCommands
  <1>10. IsList(h \o a \o h \o b \o m \o h \o c \o e)
    BY <1>7, <1>8, ListsJoin
  <1> QED BY <1>9, <1>10
-----------------------------------------------------------------------------
(* The palette *)

\* What the palette lists, wherever the cursor is.
Listed(p) ==
    /\ DOMAIN p = DOMAIN NoPalette
    /\ p.open \in BOOLEAN /\ p.searching \in BOOLEAN
    /\ IsList(p.commands) /\ IsList(p.filtered) /\ IsList(p.hits)
    /\ \A i \in DOMAIN p.hits : p.hits[i].from = p.query
    /\ p.searching => TrimSpace(p.query) # <<>>
\* And the cursor on a row of it.
Kept(p) == Listed(p) /\ p.cursor \in Nat /\ (p.open => OnRow(paletteDisplay(p), p.cursor))
\* Ticks in flight are counted.
Counted(b) == \A e \in DOMAIN b : b[e] \in Nat /\ b[e] > 0
\* Answers name finitely many panes.
Answerable(a) == \E S : a \in Seq(S) /\ \A r \in S : IsFiniteSet(DOMAIN r.panes)
\* The inductive invariant.
PalInv ==
    /\ Kept(pal) /\ Counted(debs) /\ Counted(outs) /\ Answerable(answers)
    /\ Standing /\ NeverStuckSearching /\ ~astray

\* A tick armed is in flight.
LEMMA TickAdded ==
  ASSUME NEW b, Counted(b), NEW q
  PROVE  Counted(b (+) SetToBag({q})) /\ DOMAIN (b (+) SetToBag({q})) = DOMAIN b \cup {q}
  <1>1. PICK c : c = b (+) SetToBag({q})
    OBVIOUS
  <1>2. c = [e \in DOMAIN b \cup {q} |-> (IF e \in DOMAIN b THEN b[e] ELSE 0) + (IF e \in {q} THEN 1 ELSE 0)]
    BY <1>1 DEF SetToBag, (+)
  <1>3. DOMAIN c = DOMAIN b \cup {q}
    BY <1>2
  <1>4. ASSUME NEW e \in DOMAIN c PROVE c[e] \in Nat /\ c[e] > 0
    BY <1>2 DEF Counted
  <1> QED BY <1>1, <1>3, <1>4 DEF Counted

\* A tick that fires leaves those of other queries.
LEMMA TickTaken ==
  ASSUME NEW b, Counted(b), NEW q
  PROVE  Counted(b (-) SetToBag({q})) /\ \A e \in DOMAIN b : e # q => e \in DOMAIN (b (-) SetToBag({q}))
  <1>1. PICK c : c = [e \in DOMAIN b |-> IF e \in {q} THEN b[e] - 1 ELSE b[e]]
    OBVIOUS
  <1>2. PICK r : r = [e \in {d \in DOMAIN c : c[d] > 0} |-> c[e]]
    OBVIOUS
  <1>3. b (-) SetToBag({q}) = r
    BY <1>1, <1>2 DEF SetToBag, (-)
  <1>4. ASSUME NEW e \in DOMAIN r PROVE r[e] \in Nat /\ r[e] > 0
    BY <1>1, <1>2 DEF Counted
  <1>5. ASSUME NEW e \in DOMAIN b, e # q PROVE e \in DOMAIN r
    BY <1>1, <1>2, <1>5 DEF Counted
  <1> QED BY <1>3, <1>4, <1>5 DEF Counted

\* What the cursor walks is a list.
LEMMA DisplayIsList ==
  ASSUME NEW p, IsList(p.filtered), IsList(p.hits)
  PROVE  IsList(paletteDisplay(p))
  <1>1. PICK h, e : h = <<Line("header")>> /\ e = <<Line("info")>>
    OBVIOUS
  <1>2. IsList(h) /\ IsList(e) /\ IsList(<<>>)
    BY <1>1, OneRow, NoRow
  <1>3. PICK t : t = IF p.truncated THEN e ELSE <<>>
    OBVIOUS
  <1>4. IsList(t)
    BY <1>2, <1>3
  <1>5. PICK w : w = IF p.hits # <<>> THEN p.hits \o t ELSE e
    OBVIOUS
  <1>6. IsList(w)
    BY <1>2, <1>4, <1>5, ListsJoin
  <1>7. paletteDisplay(p) = IF TrimSpace(p.query) = <<>> THEN p.filtered ELSE (p.filtered \o h) \o w
    BY <1>1, <1>3, <1>5 DEF paletteDisplay
  <1>8. IsList((p.filtered \o h) \o w)
    BY <1>2, <1>6, ListsJoin
  <1> QED BY <1>7, <1>8

\* It depends on these fields only.
LEMMA DisplaySame ==
  ASSUME NEW p, NEW r, p.query = r.query, p.filtered = r.filtered, p.hits = r.hits, p.truncated = r.truncated
  PROVE  paletteDisplay(p) = paletteDisplay(r)
  BY DEF paletteDisplay

\* The cursor may be put on any row that can be run.
LEMMA Placed ==
  ASSUME NEW p, Listed(p), NEW c \in Nat, OnRow(paletteDisplay(p), c)
  PROVE  /\ Kept([p EXCEPT !.cursor = c])
         /\ [p EXCEPT !.cursor = c].open = p.open /\ [p EXCEPT !.cursor = c].searching = p.searching
         /\ [p EXCEPT !.cursor = c].query = p.query
  <1>1. PICK r : r = [p EXCEPT !.cursor = c]
    OBVIOUS
  <1>2. /\ r.cursor = c /\ DOMAIN r = DOMAIN p /\ r.open = p.open /\ r.searching = p.searching
        /\ r.query = p.query /\ r.filtered = p.filtered /\ r.commands = p.commands
        /\ r.hits = p.hits /\ r.truncated = p.truncated
    BY <1>1 DEF Listed, NoPalette
  <1>3. paletteDisplay(r) = paletteDisplay(p)
    BY <1>2, DisplaySame
  <1>4. Listed(r)
    BY <1>2 DEF Listed
  <1>5. Kept(r)
    BY <1>2, <1>3, <1>4 DEF Kept
  <1> QED BY <1>1, <1>2, <1>5

\* The palette that is not there.
LEMMA NoneKept ==
  /\ Kept(NoPalette) /\ ~NoPalette.open /\ ~NoPalette.searching /\ DOMAIN NoPalette = DOMAIN NoPalette
  <1>1. PICK p : p = NoPalette
    OBVIOUS
  <1>2. /\ p.open = FALSE /\ p.searching = FALSE /\ p.commands = <<>> /\ p.filtered = <<>> /\ p.hits = <<>>
        /\ p.cursor = 0
    BY <1>1 DEF NoPalette
  <1>3. Listed(p)
    BY <1>1, <1>2, NoRow DEF Listed
  <1> QED BY <1>1, <1>2, <1>3 DEF Kept

\* It opens on the registry of now.
LEMMA PaletteOpens ==
  ASSUME PalInv, openCommandPalette
  PROVE  PalInv'
  <1>1. PICK cmds : cmds = buildPaletteCommands
    OBVIOUS
  <1>2. PICK c : c = firstSelectable(cmds)
    OBVIOUS
  <1>3. pal' = [NoPalette EXCEPT !.open = TRUE, !.commands = cmds, !.filtered = cmds, !.cursor = c]
    BY <1>1, <1>2 DEF openCommandPalette
  <1>4. IsList(cmds)
    BY <1>1, CommandsAreList DEF PalInv
  <1>5. c \in Nat /\ OnRow(cmds, c)
    BY <1>2, <1>4, FirstRow
  <1>6. PICK r : r = pal'
    OBVIOUS
  <1>7. /\ r.open = TRUE /\ r.searching = FALSE /\ r.query = <<>> /\ r.commands = cmds /\ r.filtered = cmds
        /\ r.hits = <<>> /\ r.cursor = c /\ DOMAIN r = DOMAIN NoPalette
    BY <1>3, <1>6 DEF NoPalette
  <1>8. paletteDisplay(r) = cmds
    BY <1>7, NoRow DEF paletteDisplay
  <1>9. Listed(r)
    BY <1>4, <1>7, NoRow DEF Listed
  <1>10. Kept(r)
    BY <1>5, <1>7, <1>8, <1>9 DEF Kept
  <1>11. Kept(pal)' /\ ~pal'.searching
    BY <1>6, <1>7, <1>10
  <1>12. UNCHANGED <<strips, at, gone, astray, debs, outs, reqs2, answers>>
    BY DEF openCommandPalette, workspace3, search
  <1> QED BY <1>11, <1>12 DEF PalInv, Standing, NeverStuckSearching, Active

\* It closes whatever was under way.
LEMMA ClosesPalette ==
  ASSUME PalInv, closeCommandPalette, UNCHANGED <<debs, outs, answers>>, Standing', ~astray'
  PROVE  PalInv'
  <1>1. Kept(pal)' /\ ~pal'.open
    BY NoneKept DEF closeCommandPalette
  <1> QED BY <1>1 DEF PalInv, NeverStuckSearching

\* An arrow key stays on rows that can be run.
LEMMA CursorMoves ==
  ASSUME PalInv, pal.open, NEW dir \in {-1, 1}, pal' = [pal EXCEPT !.cursor = nextSelectable(paletteDisplay(pal), @, dir)],
         UNCHANGED <<strips, at, astray, debs, outs, answers>>
  PROVE  PalInv'
  <1>1. Listed(pal) /\ pal.cursor \in Nat /\ "cursor" \in DOMAIN pal
    BY DEF PalInv, Kept, Listed, NoPalette
  <1>2. PICK c : c = nextSelectable(paletteDisplay(pal), pal.cursor, dir)
    OBVIOUS
  <1>3. IsList(paletteDisplay(pal))
    BY <1>1, DisplayIsList DEF Listed
  <1>4. c \in Nat /\ OnRow(paletteDisplay(pal), c)
    BY <1>1, <1>2, <1>3, NextRow
  <1>5. pal' = [pal EXCEPT !.cursor = c]
    BY <1>2
  <1>6. Kept(pal') /\ pal'.open = pal.open /\ pal'.searching = pal.searching /\ pal'.query = pal.query
    <2>1. PICK r : r = [pal EXCEPT !.cursor = c]
      OBVIOUS
    <2>2. Kept(r) /\ r.open = pal.open /\ r.searching = pal.searching /\ r.query = pal.query
      BY <1>1, <1>4, <2>1, Placed
    <2> QED BY <1>5, <2>1, <2>2
  <1> QED BY <1>6 DEF PalInv, Standing, NeverStuckSearching

\* A changed query drops the hits and arms its debounce.
LEMMA QueryChanges ==
  ASSUME PalInv, pal.open, NEW q, afterPaletteQueryChange(q), UNCHANGED <<strips, at, astray, outs, answers>>
  PROVE  PalInv'
  <1>1. Listed(pal)
    BY DEF PalInv, Kept
  <1>2. PICK filtered : filtered = filterPalette(q, pal.commands) /\ IsList(filtered)
    BY <1>1, FilterIsList DEF Listed
  <1>3. PICK p : p = [pal EXCEPT !.query = q, !.filtered = filtered, !.hits = <<>>,
                                 !.searching = ~(TrimSpace(q) = <<>>), !.timedOut = FALSE]
    OBVIOUS
  <1>4. /\ DOMAIN p = DOMAIN NoPalette /\ p.open = pal.open /\ p.query = q /\ p.filtered = filtered
        /\ p.hits = <<>> /\ p.commands = pal.commands
    BY <1>1, <1>3 DEF Listed, NoPalette
  <1>5. p.searching = ~(TrimSpace(q) = <<>>)
    BY <1>1, <1>3 DEF Listed, NoPalette
  <1>6. p.searching \in BOOLEAN /\ (p.searching => TrimSpace(q) # <<>>)
    BY <1>5
  <1>7. Listed(p)
    BY <1>1, <1>2, <1>4, <1>6, NoRow DEF Listed
  <1>8. PICK c : c = firstSelectable(paletteDisplay(p))
    OBVIOUS
  <1>9. IsList(paletteDisplay(p))
    BY <1>7, DisplayIsList DEF Listed
  <1>10. c \in Nat /\ OnRow(paletteDisplay(p), c)
    BY <1>8, <1>9, FirstRow
  <1>11. pal' = [p EXCEPT !.cursor = c]
    BY <1>2, <1>3, <1>8 DEF afterPaletteQueryChange
  <1>12. Kept(pal') /\ pal'.open = p.open /\ pal'.searching = p.searching /\ pal'.query = p.query
    BY <1>7, <1>10, <1>11, Placed
  <1>13. debs' = IF TrimSpace(q) = <<>> THEN debs ELSE debs (+) SetToBag({q})
    BY DEF afterPaletteQueryChange
  <1>14. Counted(debs') /\ (TrimSpace(q) # <<>> => q \in DOMAIN debs')
    <2>1. CASE TrimSpace(q) = <<>>
      BY <1>13, <2>1 DEF PalInv
    <2>2. CASE TrimSpace(q) # <<>>
      BY <1>13, <2>2, TickAdded DEF PalInv
    <2> QED BY <2>1, <2>2
  <1>15. NeverStuckSearching'
    BY <1>4, <1>6, <1>12, <1>14 DEF NeverStuckSearching, BagIn, BagToSet
  <1> QED BY <1>12, <1>14, <1>15 DEF PalInv, Standing

\* The dialog goes with the link.
LEMMA LinkTakesPalette ==
  ASSUME PalInv, LinkDropsPalette
  PROVE  PalInv'
  <1>1. Listed(pal) /\ pal.cursor \in Nat
    BY DEF PalInv, Kept
  <1>2. PICK r : r = pal'
    OBVIOUS
  <1>3. /\ DOMAIN r = DOMAIN NoPalette /\ r.open = FALSE /\ r.searching = pal.searching /\ r.query = pal.query
        /\ r.commands = pal.commands /\ r.filtered = pal.filtered /\ r.hits = pal.hits /\ r.cursor = pal.cursor
    BY <1>1, <1>2 DEF LinkDropsPalette, Listed, NoPalette
  <1>4. Listed(r)
    BY <1>1, <1>3 DEF Listed
  <1>5. Kept(pal)' /\ ~pal'.open
    BY <1>1, <1>2, <1>3, <1>4 DEF Kept
  <1>6. UNCHANGED <<strips, at, gone, astray, debs, outs, reqs2, answers>>
    BY DEF LinkDropsPalette, workspace3, search
  <1> QED BY <1>5, <1>6 DEF PalInv, Standing, NeverStuckSearching

\* A tick of the debounce hands the query over to the timeout's.
LEMMA DebounceKeeps ==
  ASSUME PalInv, DebounceFires
  PROVE  PalInv'
  <1>1. PICK q \in DOMAIN debs :
           /\ debs' = debs (-) SetToBag({q})
           /\ IF pal.open /\ pal.query = q /\ TrimSpace(q) # <<>>
              THEN /\ pal' = [pal EXCEPT !.searching = TRUE]
                   /\ outs' = outs (+) SetToBag({q})
              ELSE UNCHANGED <<pal, outs>>
    BY DEF DebounceFires, BagToSet
  <1>2. UNCHANGED <<strips, at, gone, astray, answers>>
    BY DEF DebounceFires, workspace3
  <1>3. Counted(debs') /\ \A e \in DOMAIN debs : e # q => e \in DOMAIN debs'
    BY <1>1, TickTaken DEF PalInv
  <1>4. Kept(pal) /\ Counted(outs) /\ Listed(pal)
    BY DEF PalInv, Kept
  <1>5. CASE pal.open /\ pal.query = q /\ TrimSpace(q) # <<>>
    <2>1. Counted(outs') /\ q \in DOMAIN outs'
      <3>1. outs' = outs (+) SetToBag({q})
        BY <1>1, <1>5
      <3>2. Counted(outs (+) SetToBag({q})) /\ q \in DOMAIN (outs (+) SetToBag({q}))
        BY <1>4, TickAdded
      <3> QED BY <3>1, <3>2
    <2>2. PICK r : r = pal'
      OBVIOUS
    <2>3. /\ DOMAIN r = DOMAIN NoPalette /\ r.open = pal.open /\ r.query = pal.query /\ r.truncated = pal.truncated
          /\ r.commands = pal.commands /\ r.filtered = pal.filtered /\ r.hits = pal.hits /\ r.cursor = pal.cursor
      BY <1>1, <1>4, <1>5, <2>2 DEF Listed, NoPalette
    <2>4. r.searching = TRUE
      BY <1>1, <1>4, <1>5, <2>2 DEF Listed, NoPalette
    <2>5. paletteDisplay(r) = paletteDisplay(pal)
      BY <2>3, DisplaySame
    <2>6. Listed(r)
      BY <1>4, <1>5, <2>3, <2>4 DEF Listed
    <2>7. Kept(pal)'
      BY <1>4, <2>2, <2>3, <2>5, <2>6 DEF Kept
    <2>8. NeverStuckSearching'
      BY <1>5, <2>1, <2>2, <2>3 DEF NeverStuckSearching, BagIn, BagToSet
    <2> QED BY <1>2, <1>3, <2>1, <2>7, <2>8 DEF PalInv, Standing
  <1>6. CASE ~(pal.open /\ pal.query = q /\ TrimSpace(q) # <<>>)
    <2>1. UNCHANGED <<pal, outs>>
      BY <1>1, <1>6
    <2>2. pal.open /\ pal.searching => pal.query # q
      BY <1>4, <1>6 DEF Listed
    <2>3. pal.open /\ pal.searching => pal.query \in DOMAIN debs \/ pal.query \in DOMAIN outs
      BY DEF PalInv, NeverStuckSearching, BagIn, BagToSet
    <2>4. NeverStuckSearching'
      BY <1>3, <2>1, <2>2, <2>3 DEF NeverStuckSearching, BagIn, BagToSet
    <2> QED BY <1>2, <1>3, <2>1, <2>4 DEF PalInv, Standing
  <1> QED BY <1>5, <1>6

\* A timeout gives up on its own query only.
LEMMA TimeoutKeeps ==
  ASSUME PalInv, SearchTimeoutFires
  PROVE  PalInv'
  <1>1. PICK q \in DOMAIN outs :
           /\ outs' = outs (-) SetToBag({q})
           /\ pal' = IF pal.open /\ pal.query = q /\ pal.searching
                     THEN [pal EXCEPT !.searching = FALSE, !.timedOut = TRUE] ELSE pal
    BY DEF SearchTimeoutFires, BagToSet
  <1>2. UNCHANGED <<strips, at, gone, astray, answers, debs>>
    BY DEF SearchTimeoutFires, workspace3
  <1>3. Counted(outs') /\ \A e \in DOMAIN outs : e # q => e \in DOMAIN outs'
    BY <1>1, TickTaken DEF PalInv
  <1>4. Kept(pal) /\ Listed(pal)
    BY DEF PalInv, Kept
  <1>5. CASE pal.open /\ pal.query = q /\ pal.searching
    <2>1. PICK r : r = pal'
      OBVIOUS
    <2>2. /\ DOMAIN r = DOMAIN NoPalette /\ r.open = pal.open /\ r.query = pal.query /\ r.truncated = pal.truncated
          /\ r.commands = pal.commands /\ r.filtered = pal.filtered /\ r.hits = pal.hits /\ r.cursor = pal.cursor
      BY <1>1, <1>4, <1>5, <2>1 DEF Listed, NoPalette
    <2>3. r.searching = FALSE
      BY <1>1, <1>4, <1>5, <2>1 DEF Listed, NoPalette
    <2>4. paletteDisplay(r) = paletteDisplay(pal)
      BY <2>2, DisplaySame
    <2>5. Listed(r)
      BY <1>4, <2>2, <2>3 DEF Listed
    <2>6. Kept(pal)' /\ ~pal'.searching
      BY <1>4, <2>1, <2>2, <2>3, <2>4, <2>5 DEF Kept
    <2> QED BY <1>2, <1>3, <2>6 DEF PalInv, Standing, NeverStuckSearching
  <1>6. CASE ~(pal.open /\ pal.query = q /\ pal.searching)
    <2>1. pal' = pal
      BY <1>1, <1>6
    <2>2. pal.open /\ pal.searching => pal.query \in DOMAIN debs \/ pal.query \in DOMAIN outs
      BY DEF PalInv, NeverStuckSearching, BagIn, BagToSet
    <2>3. NeverStuckSearching'
      BY <1>2, <1>3, <1>6, <2>1, <2>2 DEF NeverStuckSearching, BagIn, BagToSet
    <2> QED BY <1>2, <1>3, <2>1, <2>3 DEF PalInv, Standing
  <1> QED BY <1>5, <1>6

\* An answer joins those on their way.
LEMMA AnswerSent ==
  ASSUME PalInv, handlePaneSearchReq
  PROVE  PalInv'
  <1>1. UNCHANGED <<pal, strips, at, gone, astray, debs, outs>>
    BY DEF handlePaneSearchReq, workspace3
  <1>2. PICK r : /\ r = [query |-> Head(reqs2), panes |-> searchPanes(Head(reqs2)).panes,
                         truncated |-> searchPanes(Head(reqs2)).truncated]
                 /\ answers' = answers \/ answers' = Append(answers, r)
    BY DEF handlePaneSearchReq
  <1>3. IsFiniteSet(DOMAIN r.panes)
    <2>1. r.panes = searchPanes(Head(reqs2)).panes
      BY <1>2
    <2> QED BY <2>1, AnswerIs
  <1>4. PICK S : answers \in Seq(S) /\ \A e \in S : IsFiniteSet(DOMAIN e.panes)
    BY DEF PalInv, Answerable
  <1>5. answers' \in Seq(S \cup {r})
    <2>1. answers \in Seq(S \cup {r})
      BY <1>4
    <2>2. Append(answers, r) \in Seq(S \cup {r})
      BY <2>1
    <2> QED BY <1>2, <2>1, <2>2
  <1>6. \A e \in S \cup {r} : IsFiniteSet(DOMAIN e.panes)
    BY <1>3, <1>4
  <1>7. Answerable(answers')
    BY <1>5, <1>6 DEF Answerable
  <1> QED BY <1>1, <1>7 DEF PalInv, Standing, NeverStuckSearching

\* An answer is stored if it is to the query in the box, and the cursor clamped.
LEMMA AnswerStored ==
  ASSUME NEW resp, PalInv, IsFiniteSet(DOMAIN resp.panes), resp.query = pal.query
  PROVE  Kept(Stored(pal, resp)) /\ ~Stored(pal, resp).searching
  <1>1. Listed(pal) /\ pal.cursor \in Nat
    BY DEF PalInv, Kept
  <1>2. PICK hits : hits = Hits(resp) /\ IsList(hits) /\ \A i \in DOMAIN hits : hits[i].from = pal.query
    BY HitsAreOf
  <1>3. PICK p : p = [pal EXCEPT !.hits = hits, !.searching = FALSE, !.timedOut = FALSE, !.truncated = resp.truncated]
    OBVIOUS
  <1>4. /\ DOMAIN p = DOMAIN NoPalette /\ p.open = pal.open /\ p.query = pal.query /\ p.filtered = pal.filtered
        /\ p.hits = hits /\ p.commands = pal.commands
    BY <1>1, <1>3 DEF Listed, NoPalette
  <1>5. p.searching = FALSE
    BY <1>1, <1>3 DEF Listed, NoPalette
  <1>6. Listed(p)
    BY <1>1, <1>2, <1>4, <1>5 DEF Listed
  <1>7. PICK c : c = clampPaletteCursor(paletteDisplay(p), pal.cursor)
    OBVIOUS
  <1>8. IsList(paletteDisplay(p))
    BY <1>6, DisplayIsList DEF Listed
  <1>9. c \in Nat /\ OnRow(paletteDisplay(p), c)
    BY <1>1, <1>7, <1>8, ClampedRow
  <1>10. Stored(pal, resp) = [p EXCEPT !.cursor = c]
    BY <1>2, <1>3, <1>7 DEF Stored
  <1> QED BY <1>5, <1>6, <1>9, <1>10, Placed

\* An answer to another query is dropped.
LEMMA AnswerArrives ==
  ASSUME PalInv, PaneSearchArrives
  PROVE  PalInv'
  <1>1. /\ answers # <<>> /\ answers' = Tail(answers) /\ applyPaneSearch(Head(answers))
        /\ UNCHANGED <<strips, at, gone, astray, debs, outs>>
    BY DEF PaneSearchArrives, workspace3
  <1>2. PICK S : answers \in Seq(S) /\ \A e \in S : IsFiniteSet(DOMAIN e.panes)
    BY DEF PalInv, Answerable
  <1>3. Head(answers) \in S /\ Tail(answers) \in Seq(S)
    BY <1>1, <1>2
  <1>4. Answerable(answers')
    BY <1>1, <1>2, <1>3 DEF Answerable
  <1>5. PICK resp : resp = Head(answers)
    OBVIOUS
  <1>6. IsFiniteSet(DOMAIN resp.panes)
    BY <1>2, <1>3, <1>5
  <1>7. CASE resp.query = pal.query
    <2>1. pal' = Stored(pal, resp)
      BY <1>1, <1>5, <1>7 DEF applyPaneSearch
    <2>2. Kept(Stored(pal, resp)) /\ ~Stored(pal, resp).searching
      BY <1>6, <1>7, AnswerStored
    <2>3. Kept(pal)' /\ ~pal'.searching
      BY <2>1, <2>2
    <2> QED BY <1>1, <1>4, <2>3 DEF PalInv, Standing, NeverStuckSearching
  <1>8. CASE resp.query # pal.query
    <2>1. pal' = pal
      BY <1>1, <1>5, <1>8 DEF applyPaneSearch
    <2> QED BY <1>1, <1>4, <2>1 DEF PalInv, Standing, NeverStuckSearching
  <1> QED BY <1>7, <1>8
-----------------------------------------------------------------------------
(* Navigation *)

\* A row leads to its target, or nowhere when that has gone.
LEMMA RowRuns ==
  ASSUME PalInv, NEW c, executePaletteCommand(c)
  PROVE  Standing' /\ ~astray' /\ closeCommandPalette
  <1>1. Standing /\ ~astray
    BY DEF PalInv
  <1>2. PICK tab, cur : tab = at.tab /\ cur = at.proj
    OBVIOUS
  <1>3. /\ strips \in [PalProjects -> Seq(PalTabs)] /\ at = [proj |-> cur, tab |-> tab]
        /\ cur \in PalProjects /\ tab \in [PalProjects -> PalTabs] /\ strips[cur] # <<>>
        /\ \A p \in PalProjects : strips[p] # <<>> => tab[p] \in Range(strips[p])
    BY <1>1, <1>2 DEF Standing
  <1>4. Projects = PalProjects /\ Active = tab[cur]
    BY <1>2, <1>3 DEF Projects, Active
  <1>5. /\ closeCommandPalette
        /\ CASE c.act = "GoToPane" -> goToPane(c.arg)
             [] c.act = "SwitchTab" -> SwitchTab(c.arg)
             [] c.act = "SwitchProject" -> SwitchProject(c.arg)
             [] OTHER -> UNCHANGED at
        /\ strips' = IF c.act = "MoveTabLeft" /\ Position(strips[at.proj], Active) > 1
                     THEN [strips EXCEPT ![at.proj] = MoveTab(@, Position(@, Active))]
                     ELSE strips
        /\ astray' = (astray \/ (at'.tab[at'.proj] \notin {Active, Target(c)}))
    BY DEF executePaletteCommand
  <1>6. SUFFICES /\ strips' \in [PalProjects -> Seq(PalTabs)]
                 /\ at' \in [proj : PalProjects, tab : [PalProjects -> PalTabs]]
                 /\ strips'[at'.proj] # <<>>
                 /\ \A p \in PalProjects : strips'[p] # <<>> => at'.tab[p] \in Range(strips'[p])
                 /\ at'.tab[at'.proj] \in {Active, Target(c)}
    BY <1>1, <1>5 DEF Standing, PalProjects, PalTabs
  <1>7. CASE c.act = "GoToPane"
    <2>1. strips' = strips /\ goToPane(c.arg) /\ Target(c) = c.arg
      BY <1>5, <1>7 DEF Target
    <2>2. CASE c.arg \in UNION {Range(strips[p]) : p \in Projects}
      <3>1. PICK p \in PalProjects : p = InProject(c.arg) /\ c.arg \in Range(strips[p])
        BY <1>4, <2>2 DEF InProject
      <3>2. at' = [proj |-> p, tab |-> [tab EXCEPT ![p] = c.arg]]
        BY <1>2, <2>1, <2>2, <3>1 DEF goToPane
      <3>3. c.arg \in PalTabs /\ strips[p] # <<>>
        BY <1>3, <3>1, StripHas
      <3>4. [tab EXCEPT ![p] = c.arg] \in [PalProjects -> PalTabs]
        BY <1>3, <3>3
      <3>5. at'.proj = p /\ at'.tab[p] = c.arg /\ \A r \in PalProjects : r # p => at'.tab[r] = tab[r]
        BY <1>3, <3>2
      <3> QED BY <1>3, <2>1, <3>1, <3>2, <3>3, <3>4, <3>5
    <2>3. CASE c.arg \notin UNION {Range(strips[p]) : p \in Projects}
      <3>1. at' = at
        BY <2>1, <2>3 DEF goToPane
      <3> QED BY <1>3, <1>4, <2>1, <3>1
    <2> QED BY <2>2, <2>3
  <1>8. CASE c.act = "SwitchTab"
    <2>1. strips' = strips /\ SwitchTab(c.arg) /\ Target(c) = c.arg
      BY <1>5, <1>8 DEF Target
    <2>2. CASE c.arg \in Range(strips[cur])
      <3>1. at' = [proj |-> cur, tab |-> [tab EXCEPT ![cur] = c.arg]]
        BY <1>2, <1>3, <2>1, <2>2 DEF SwitchTab
      <3>2. c.arg \in PalTabs
        BY <1>3, <2>2, StripHas
      <3>3. [tab EXCEPT ![cur] = c.arg] \in [PalProjects -> PalTabs]
        BY <1>3, <3>2
      <3>4. at'.proj = cur /\ at'.tab[cur] = c.arg /\ \A r \in PalProjects : r # cur => at'.tab[r] = tab[r]
        BY <1>3, <3>1
      <3> QED BY <1>3, <2>1, <2>2, <3>1, <3>3, <3>4
    <2>3. CASE c.arg \notin Range(strips[cur])
      <3>1. at' = at
        BY <1>2, <2>1, <2>3 DEF SwitchTab
      <3> QED BY <1>3, <1>4, <2>1, <3>1
    <2> QED BY <2>2, <2>3
  <1>9. CASE c.act = "SwitchProject"
    <2>1. strips' = strips /\ SwitchProject(c.arg) /\ Target(c) = tab[c.arg]
      BY <1>2, <1>5, <1>9 DEF Target
    <2>2. CASE c.arg \in Shown
      <3>1. c.arg \in PalProjects /\ strips[c.arg] # <<>>
        BY <1>4, <2>2 DEF Shown
      <3>2. at' = [proj |-> c.arg, tab |-> tab]
        BY <1>3, <2>1, <2>2 DEF SwitchProject
      <3> QED BY <1>3, <2>1, <3>1, <3>2
    <2>3. CASE c.arg \notin Shown
      <3>1. at' = at
        BY <2>1, <2>3 DEF SwitchProject
      <3> QED BY <1>3, <1>4, <2>1, <3>1
    <2> QED BY <2>2, <2>3
  <1>10. CASE c.act \notin {"GoToPane", "SwitchTab", "SwitchProject"}
    <2>1. at' = at
      BY <1>5, <1>10
    <2>2. CASE strips' = strips
      BY <1>3, <1>4, <2>1, <2>2
    <2>3. CASE strips' # strips
      <3>1. PICK s : s = strips[cur] /\ s \in Seq(PalTabs) /\ s # <<>> /\ tab[cur] \in Range(s)
        BY <1>3
      <3>2. PICK i : i = Position(s, tab[cur])
        OBVIOUS
      <3>3. i > 1 /\ strips' = [strips EXCEPT ![cur] = MoveTab(s, i)]
        BY <1>2, <1>4, <1>5, <2>3, <3>1, <3>2
      <3>4. i \in 1 .. Len(s)
        <4>1. DOMAIN s = 1 .. Len(s)
          BY <3>1, StripHas
        <4> QED BY <3>1, <3>2, <4>1 DEF Position, Range
      <3>5. i \in 2 .. Len(s)
        <4>1. Len(s) \in Nat
          BY <3>1, StripHas
        <4> QED BY <3>3, <3>4, <4>1
      <3>6. PICK t : t = MoveTab(s, i) /\ t \in Seq(PalTabs) /\ Range(t) = Range(s)
        BY <3>1, <3>5, TabSteps
      <3>7. t # <<>>
        BY <3>1, <3>6, StripHas
      <3>8. strips'[cur] = t /\ \A r \in PalProjects : r # cur => strips'[r] = strips[r]
        BY <1>3, <3>3, <3>6
      <3>9. strips' \in [PalProjects -> Seq(PalTabs)]
        BY <1>3, <3>3, <3>6
      <3> QED BY <1>3, <1>4, <2>1, <3>1, <3>6, <3>7, <3>8, <3>9
    <2> QED BY <2>2, <2>3
  <1> QED BY <1>7, <1>8, <1>9, <1>10

\* A closed tab takes its project with it when it was the last, and the active
\* ones move to what is left.
LEMMA TabsStand ==
  ASSUME Standing, TabCloses
  PROVE  Standing'
  <1>1. PICK p \in Shown :
          \E x \in Range(strips[p]) :
            /\ \E r \in Projects : strips[r] \notin {<<>>, <<x>>}
            /\ LET s == [strips EXCEPT ![p] = RemoveAt(@, Position(@, x))]
                   remain == {r \in Projects : s[r] # <<>>}
               IN /\ strips' = s
                  /\ at' = [proj |-> IF at.proj \in remain THEN at.proj
                                     ELSE CHOOSE r \in remain : TRUE,
                            tab |-> [r \in Projects |->
                                        IF at.tab[r] = x /\ s[r] # <<>> THEN s[r][1]
                                        ELSE at.tab[r]]]
    BY DEF TabCloses
  <1>2. PICK x \in Range(strips[p]) :
          /\ \E r \in Projects : strips[r] \notin {<<>>, <<x>>}
          /\ LET s == [strips EXCEPT ![p] = RemoveAt(@, Position(@, x))]
                 remain == {r \in Projects : s[r] # <<>>}
             IN /\ strips' = s
                /\ at' = [proj |-> IF at.proj \in remain THEN at.proj
                                   ELSE CHOOSE r \in remain : TRUE,
                          tab |-> [r \in Projects |->
                                      IF at.tab[r] = x /\ s[r] # <<>> THEN s[r][1]
                                      ELSE at.tab[r]]]
    BY <1>1
  <1>3. /\ strips \in [PalProjects -> Seq(PalTabs)] /\ Projects = PalProjects /\ p \in PalProjects
        /\ at \in [proj : PalProjects, tab : [PalProjects -> PalTabs]]
        /\ \A r \in PalProjects : strips[r] # <<>> => at.tab[r] \in Range(strips[r])
        /\ strips[p] # <<>>
    BY DEF Standing, Projects, Shown
  <1>4. PICK o : o = strips[p] /\ o \in Seq(PalTabs) /\ x \in Range(o)
    BY <1>2, <1>3
  <1>5. PICK t : /\ t = RemoveAt(o, Position(o, x)) /\ t \in Seq(PalTabs)
                 /\ \A y \in Range(o) : y # x => y \in Range(t)
                 /\ o # <<x>> => t # <<>>
    BY <1>4, TabGoes
  <1>6. PICK s : s = [strips EXCEPT ![p] = t]
    OBVIOUS
  <1>7. PICK remain : remain = {r \in PalProjects : s[r] # <<>>}
    OBVIOUS
  <1>8. /\ strips' = s
        /\ at' = [proj |-> IF at.proj \in remain THEN at.proj ELSE CHOOSE r \in remain : TRUE,
                  tab |-> [r \in PalProjects |-> IF at.tab[r] = x /\ s[r] # <<>> THEN s[r][1] ELSE at.tab[r]]]
    BY <1>2, <1>3, <1>4, <1>5, <1>6, <1>7
  <1>9. s \in [PalProjects -> Seq(PalTabs)] /\ s[p] = t /\ \A r \in PalProjects : r # p => s[r] = strips[r]
    BY <1>3, <1>5, <1>6
  <1>10. remain # {}
    <2>1. PICK r \in PalProjects : strips[r] # <<>> /\ strips[r] # <<x>>
      BY <1>2, <1>3
    <2>2. s[r] # <<>>
      BY <1>4, <1>5, <1>9, <2>1
    <2> QED BY <1>7, <2>1, <2>2
  <1>11. PICK cur : cur = at'.proj /\ cur \in PalProjects /\ s[cur] # <<>>
    <2>1. at'.proj \in remain
      BY <1>8, <1>10
    <2> QED BY <1>7, <2>1
  <1>12. PICK tab : tab = at'.tab /\ at' = [proj |-> cur, tab |-> tab]
                    /\ tab = [r \in PalProjects |-> IF at.tab[r] = x /\ s[r] # <<>> THEN s[r][1] ELSE at.tab[r]]
    BY <1>8, <1>11
  <1>13. ASSUME NEW r \in PalProjects
         PROVE  tab[r] \in PalTabs /\ (s[r] # <<>> => tab[r] \in Range(s[r]))
    <2>1. s[r] \in Seq(PalTabs) /\ at.tab[r] \in PalTabs
      BY <1>3, <1>9
    <2>2. CASE at.tab[r] = x /\ s[r] # <<>>
      <3>1. tab[r] = s[r][1]
        BY <1>12, <2>2
      <3>2. s[r][1] \in Range(s[r]) /\ Range(s[r]) \subseteq PalTabs
        BY <2>1, <2>2, StripHas
      <3> QED BY <3>1, <3>2
    <2>3. CASE ~(at.tab[r] = x /\ s[r] # <<>>)
      <3>1. tab[r] = at.tab[r]
        BY <1>12, <2>3
      <3>2. ASSUME s[r] # <<>> PROVE at.tab[r] \in Range(s[r])
        <4>1. at.tab[r] # x
          BY <2>3, <3>2
        <4>2. CASE r = p
          BY <1>3, <1>4, <1>5, <1>9, <4>1, <4>2
        <4>3. CASE r # p
          BY <1>3, <1>9, <3>2, <4>3
        <4> QED BY <4>2, <4>3
      <3> QED BY <2>1, <3>1, <3>2
    <2> QED BY <2>2, <2>3
  <1>14. tab \in [PalProjects -> PalTabs]
    BY <1>12, <1>13
  <1>15. at' \in [proj : PalProjects, tab : [PalProjects -> PalTabs]]
    BY <1>11, <1>12, <1>14
  <1> QED BY <1>8, <1>9, <1>11, <1>12, <1>13, <1>15 DEF Standing, PalProjects, PalTabs

\* A reordered strip keeps its tabs.
LEMMA TabsReorder ==
  ASSUME Standing, TabMoves
  PROVE  Standing'
  <1>1. PICK p \in Shown : strips' = [strips EXCEPT ![p] = Reverse(@)]
    BY DEF TabMoves
  <1>2. /\ strips \in [PalProjects -> Seq(PalTabs)] /\ p \in PalProjects /\ strips[p] # <<>>
        /\ at' = at /\ at \in [proj : PalProjects, tab : [PalProjects -> PalTabs]] /\ strips[at.proj] # <<>>
        /\ \A r \in PalProjects : strips[r] # <<>> => at.tab[r] \in Range(strips[r])
    BY DEF Standing, Projects, Shown, TabMoves
  <1>3. PICK s : s = strips[p] /\ s \in Seq(PalTabs) /\ s # <<>>
    BY <1>2
  <1>4. PICK t : t = Reverse(s) /\ t \in Seq(PalTabs) /\ Range(t) = Range(s)
    BY <1>3, TabsTurn
  <1>5. t # <<>>
    BY <1>3, <1>4, StripHas
  <1>6. /\ strips' \in [PalProjects -> Seq(PalTabs)] /\ strips'[p] = t
        /\ \A r \in PalProjects : r # p => strips'[r] = strips[r]
    BY <1>1, <1>2, <1>3, <1>4
  <1>7. strips'[at.proj] # <<>>
    BY <1>2, <1>5, <1>6
  <1>8. \A r \in PalProjects : strips'[r] # <<>> => at.tab[r] \in Range(strips'[r])
    BY <1>2, <1>3, <1>4, <1>6
  <1> QED BY <1>2, <1>6, <1>7, <1>8 DEF Standing, PalProjects, PalTabs
-----------------------------------------------------------------------------
\* Every key of the palette.
LEMMA PaletteKeyKeeps ==
  ASSUME PalInv, handleCommandPaletteKey
  PROVE  PalInv'
  <1>1. pal.open
    BY DEF handleCommandPaletteKey
  <1>2. CASE closeCommandPalette /\ UNCHANGED <<workspace3, search>>
    <2>1. UNCHANGED <<strips, at, gone, astray, debs, outs, reqs2, answers>>
      BY <1>2 DEF workspace3, search
    <2>2. Standing' /\ ~astray'
      BY <2>1 DEF PalInv, Standing, PalProjects, PalTabs
    <2> QED BY <1>2, <2>1, <2>2, ClosesPalette
  <1>3. CASE \E c : executePaletteCommand(c) /\ UNCHANGED search
    <2>1. UNCHANGED <<debs, outs, answers>>
      BY <1>3 DEF search
    <2> QED BY <1>3, <2>1, RowRuns, ClosesPalette
  <1>4. CASE \E dir \in {-1, 1} : /\ pal' = [pal EXCEPT !.cursor = nextSelectable(paletteDisplay(pal), @, dir)]
                                  /\ UNCHANGED <<workspace3, search>>
    <2>1. UNCHANGED <<strips, at, gone, astray, debs, outs, reqs2, answers>>
      BY <1>4 DEF workspace3, search
    <2> QED BY <1>1, <1>4, <2>1, CursorMoves
  <1>5. CASE \E q : afterPaletteQueryChange(q) /\ UNCHANGED <<workspace3, outs, reqs2, answers>>
    <2>1. UNCHANGED <<strips, at, gone, astray, outs, answers>>
      BY <1>5 DEF workspace3
    <2> QED BY <1>1, <1>5, <2>1, QueryChanges
  <1> QED BY <1>2, <1>3, <1>4, <1>5 DEF handleCommandPaletteKey

\* A paste is a changed query.
LEMMA PalettePasteKeeps ==
  ASSUME PalInv, PasteIntoPalette
  PROVE  PalInv'
  <1>1. PICK q : afterPaletteQueryChange(q)
    BY DEF PasteIntoPalette
  <1>2. pal.open /\ UNCHANGED <<strips, at, gone, astray, outs, answers>>
    BY DEF PasteIntoPalette, workspace3
  <1> QED BY <1>1, <1>2, QueryChanges

\* At first no palette is open.
LEMMA PaletteStarts == PalInit => PalInv
  <1> SUFFICES ASSUME PalInit PROVE PalInv
    OBVIOUS
  <1>1. Kept(pal) /\ ~pal.open
    BY NoneKept DEF PalInit
  <1>2. Counted(debs) /\ Counted(outs)
    BY DEF PalInit, Counted, EmptyBag, SetToBag
  <1>3. Answerable(answers)
    <2>1. answers \in Seq({})
      BY DEF PalInit
    <2> QED BY <2>1 DEF Answerable
  <1>4. Standing
    <2>1. PICK v, w : v = <<"a", "b">> /\ w = <<"q">>
      OBVIOUS
    <2>2. v \in Seq(PalTabs) /\ w \in Seq(PalTabs) /\ v # <<>> /\ "a" \in Range(v) /\ "q" \in Range(w)
      BY <2>1 DEF PalTabs, Range
    <2>3. strips = [P |-> v, Q |-> w] /\ at = [proj |-> "P", tab |-> [P |-> "a", Q |-> "q"]]
      BY <2>1 DEF PalInit
    <2> QED BY <2>2, <2>3 DEF Standing, PalProjects, PalTabs
  <1> QED BY <1>1, <1>2, <1>3, <1>4 DEF PalInit, PalInv, NeverStuckSearching

\* Every step keeps the invariant.
LEMMA PaletteStep == PalInv /\ [PalNext]_palVars => PalInv'
  <1> SUFFICES ASSUME PalInv, [PalNext]_palVars PROVE PalInv'
    OBVIOUS
  <1>1. CASE openCommandPalette
    BY <1>1, PaletteOpens
  <1>2. CASE handleCommandPaletteKey
    BY <1>2, PaletteKeyKeeps
  <1>3. CASE PasteIntoPalette
    BY <1>3, PalettePasteKeeps
  <1>4. CASE LinkDropsPalette
    BY <1>4, LinkTakesPalette
  <1>5. CASE DebounceFires
    BY <1>5, DebounceKeeps
  <1>6. CASE SearchTimeoutFires
    BY <1>6, TimeoutKeeps
  <1>7. CASE handlePaneSearchReq
    BY <1>7, AnswerSent
  <1>8. CASE PaneSearchArrives
    BY <1>8, AnswerArrives
  <1>9. CASE TabCloses
    <2>1. UNCHANGED <<pal, astray, debs, outs, reqs2, answers>>
      BY <1>9 DEF TabCloses, search
    <2>2. Standing'
      BY <1>9, TabsStand DEF PalInv
    <2> QED BY <2>1, <2>2 DEF PalInv, NeverStuckSearching
  <1>10. CASE TabMoves
    <2>1. UNCHANGED <<pal, at, astray, debs, outs, reqs2, answers>>
      BY <1>10 DEF TabMoves, search
    <2>2. Standing'
      BY <1>10, TabsReorder DEF PalInv
    <2> QED BY <2>1, <2>2 DEF PalInv, NeverStuckSearching
  <1>11. CASE UNCHANGED palVars
    BY <1>11 DEF palVars, PalInv, Standing, NeverStuckSearching
  <1> QED BY <1>1, <1>2, <1>3, <1>4, <1>5, <1>6, <1>7, <1>8, <1>9, <1>10, <1>11 DEF PalNext

\* What an open palette lists answers the query in the box, the cursor is on a
\* row Enter can run whenever there is one, a search that is shown as running
\* will end, and a row leads to its target or nowhere: with late answers, for
\* any alphabet, length of query and number of ticks, and any number of tabs
\* closed or moved under the frozen registry
\* (palette.go afterPaletteQueryChange, palette_search.go applyPaneSearch).
THEOREM PaletteIsSound == PalSpec => []PaletteSound
  <1>1. PalInv => PaletteSound
    BY DEF PalInv, PaletteSound, Kept, Listed, OnRow
  <1> QED BY <1>1, PaletteStarts, PaletteStep, PTL DEF PalSpec
=============================================================================

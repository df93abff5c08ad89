------------------------------- MODULE Notes -------------------------------
(* The notes editor bound to a pane (internal/tui/notes.go, the notes parts  *)
(* of model.go, internal/persist/notes.go): a wrapper around the text editor *)
(* with a dirty flag of its own beside the inner one's, saved on ctrl+s, on  *)
(* every way out, and by a chain of ticks once the window has passed since   *)
(* the last key.  Text is a version number; each edit makes a new one.  The  *)
(* file is replaced by a rename, so a save is one step that fails or not,    *)
(* and a client killed inside it leaves the old file.                        *)
EXTENDS Integers, TLC

CONSTANTS
    NotePanes,  \* panes whose notes are edited
    Debounce,   \* notesDebounceWindow in ticks
    MaxNotes,   \* versions of one pane's notes
    MaxFailures \* saves and loads that fail

ASSUME NotesAssumption == "none" \notin NotePanes /\ Debounce \in Nat

VARIABLES
    note,       \* NotesEditor of notesMode, or NoNote
    disk,       \* pane -> the version in its file, 0 for none
    noteTyped,  \* pane -> the last version its user saw
    lost,       \* panes whose last editor closed on a failed save
    noteTicks,  \* notesTickMsgs in flight
    noteChain,  \* notesTickRunning
    pasting,    \* editorPasteMsgs in flight
    quitting,   \* tea.Quit was returned; FlushNotes is still to come
    failures
noteVars == <<note, disk, noteTyped, lost, noteTicks, noteChain, pasting, quitting, failures>>

NoNote == [pane |-> "none", ver |-> 0, dirty |-> FALSE, inner |-> FALSE, idle |-> 0, err |-> FALSE]
Open == note.pane # "none"

NotesInit ==
    /\ note = NoNote
    /\ disk = [p \in NotePanes |-> 0] /\ noteTyped = disk /\ lost = {}
    /\ noteTicks = 0 /\ noteChain = FALSE /\ pasting = 0 /\ quitting = FALSE /\ failures = 0

Fail(n) == failures + n <= MaxFailures /\ failures' = failures + n

-----------------------------------------------------------------------------
(* SaveNotes and NotesEditor.Save                                            *)

\* Save does nothing unless dirty; a failure keeps both flags and its message.
\* ok says whether the file could be replaced.
NSave(n, ok) ==
    IF ~n.dirty THEN n
    ELSE IF ok THEN [n EXCEPT !.dirty = FALSE, !.inner = FALSE, !.err = FALSE]
    ELSE [n EXCEPT !.err = TRUE]

\* The file after it.
Written(n, ok) == IF n.dirty /\ ok THEN [disk EXCEPT ![n.pane] = n.ver] ELSE disk

\* A save that may fail is tried: a clean editor's cannot.
Tried(n, ok) == IF ok \/ ~n.dirty THEN ok /\ UNCHANGED failures ELSE Fail(1)

-----------------------------------------------------------------------------
(* Opening and leaving                                                       *)

\* Mutation: every opening starts a chain of its own.
startNotesTickAgain == noteChain' = TRUE /\ noteTicks' = noteTicks + 1

startNotesTick == noteChain' = TRUE /\ noteTicks' = IF noteChain THEN noteTicks ELSE noteTicks + 1

\* toggleNotesMode loads the pane's file; one that cannot be read opens nothing.
OpenNotes(p) ==
    /\ ~Open /\ ~quitting
    /\ note' = [NoNote EXCEPT !.pane = p, !.ver = disk[p]]
    /\ noteTyped' = [noteTyped EXCEPT ![p] = disk[p]] /\ lost' = lost \ {p}
    /\ startNotesTick
    /\ UNCHANGED <<disk, pasting, quitting, failures>>

\* exitNotesModeInPlace: toggle, esc, the structural and exempt keys, a switch of
\* tab or project, a jump, a broadcast without the pane.  The editor goes even
\* when its save fails.
ExitNotes ==
    /\ Open /\ ~quitting
    /\ \E ok \in BOOLEAN :
         /\ Tried(note, ok)
         /\ disk' = Written(note, ok)
         /\ lost' = IF NSave(note, ok).dirty THEN lost \cup {note.pane} ELSE lost
    /\ note' = NoNote
    /\ UNCHANGED <<noteTyped, noteTicks, noteChain, pasting, quitting>>

-----------------------------------------------------------------------------
(* Editing                                                                   *)

\* A key that changes the text marks the inner editor, and the wrapper takes the
\* mark over.
NoteKey ==
    /\ Open /\ ~quitting /\ note.ver < MaxNotes
    /\ note' = [note EXCEPT !.ver = @ + 1, !.inner = TRUE, !.dirty = TRUE, !.idle = 0]
    /\ noteTyped' = [noteTyped EXCEPT ![note.pane] = note.ver + 1]
    /\ UNCHANGED <<disk, lost, noteTicks, noteChain, pasting, quitting, failures>>

\* A key that moves the cursor counts as an edit while the inner editor is dirty.
CursorKey ==
    /\ Open /\ ~quitting
    /\ note' = IF note.inner THEN [note EXCEPT !.dirty = TRUE, !.idle = 0] ELSE note
    /\ UNCHANGED <<disk, noteTyped, lost, noteTicks, noteChain, pasting, quitting, failures>>

\* ctrl+v reads the clipboard in a command; the text goes to whichever notes are
\* open when it comes back, and nowhere when none are.
PasteKey ==
    /\ Open /\ ~quitting /\ pasting = 0
    /\ pasting' = 1
    /\ UNCHANGED <<note, disk, noteTyped, lost, noteTicks, noteChain, quitting, failures>>

\* Mutation: only the inner editor's own keys mark the notes dirty.
HandlePasteClean ==
    /\ pasting = 1 /\ pasting' = 0
    /\ IF Open /\ ~quitting /\ note.ver < MaxNotes
       THEN /\ note' = [note EXCEPT !.ver = @ + 1, !.idle = 0]
            /\ noteTyped' = [noteTyped EXCEPT ![note.pane] = note.ver + 1]
       ELSE UNCHANGED <<note, noteTyped>>
    /\ UNCHANGED <<disk, lost, noteTicks, noteChain, quitting, failures>>

\* A paste marks the wrapper only.
HandlePaste ==
    /\ pasting = 1 /\ pasting' = 0
    /\ IF Open /\ ~quitting /\ note.ver < MaxNotes
       THEN /\ note' = [note EXCEPT !.ver = @ + 1, !.dirty = TRUE, !.idle = 0]
            /\ noteTyped' = [noteTyped EXCEPT ![note.pane] = note.ver + 1]
       ELSE UNCHANGED <<note, noteTyped>>
    /\ UNCHANGED <<disk, lost, noteTicks, noteChain, quitting, failures>>

\* ctrl+s.
SaveKey ==
    /\ Open /\ ~quitting
    /\ \E ok \in BOOLEAN : /\ Tried(note, ok)
                           /\ note' = NSave(note, ok) /\ disk' = Written(note, ok)
    /\ UNCHANGED <<noteTyped, lost, noteTicks, noteChain, pasting, quitting>>

-----------------------------------------------------------------------------
(* The tick chain, quitting and being killed                                 *)

\* MaybeAutoSave: the window is surely over one tick after it may be.
Due == note.dirty /\ note.idle >= Debounce
NotesTick ==
    /\ noteTicks > 0 /\ ~quitting
    /\ IF ~Open THEN noteTicks' = noteTicks - 1 /\ noteChain' = FALSE /\ UNCHANGED <<note, disk, failures>>
       ELSE /\ UNCHANGED <<noteTicks, noteChain>>
            /\ \/ /\ ~Due \/ note.idle = Debounce
                  /\ note' = [note EXCEPT !.idle = IF @ > Debounce THEN @ ELSE @ + 1]
                  /\ UNCHANGED <<disk, failures>>
               \/ /\ Due
                  /\ \E ok \in BOOLEAN :
                       /\ Tried(note, ok)
                       /\ note' = NSave(note, ok) /\ disk' = Written(note, ok)
    /\ UNCHANGED <<noteTyped, lost, pasting, quitting>>

\* app.quit closes the editor and quits; the editor stays for FlushNotes.
QuitKey ==
    /\ Open /\ ~quitting /\ quitting' = TRUE
    /\ \E ok \in BOOLEAN : /\ Tried(note, ok)
                           /\ note' = NSave(note, ok) /\ disk' = Written(note, ok)
    /\ UNCHANGED <<noteTyped, lost, noteTicks, noteChain, pasting>>

\* FlushNotes tries once more after the program's loop has ended, and the next
\* client starts.
FlushNotes ==
    /\ quitting /\ quitting' = FALSE
    /\ \E ok \in BOOLEAN :
         /\ Tried(note, ok)
         /\ disk' = Written(note, ok)
         /\ lost' = IF NSave(note, ok).dirty THEN lost \cup {note.pane} ELSE lost
    /\ note' = NoNote /\ noteTicks' = 0 /\ noteChain' = FALSE /\ pasting' = 0
    /\ UNCHANGED noteTyped

\* The client is killed: what was not saved is gone.
Killed ==
    /\ Open \/ noteTicks > 0
    /\ note' = NoNote /\ noteTicks' = 0 /\ noteChain' = FALSE /\ pasting' = 0 /\ quitting' = FALSE
    /\ noteTyped' = IF Open THEN [noteTyped EXCEPT ![note.pane] = disk[note.pane]] ELSE noteTyped
    /\ UNCHANGED <<disk, lost, failures>>

NotesNext ==
    \/ \E p \in NotePanes : OpenNotes(p)
    \/ ExitNotes \/ NoteKey \/ CursorKey \/ PasteKey \/ HandlePaste \/ SaveKey
    \/ NotesTick \/ QuitKey \/ FlushNotes \/ Killed

NotesSpec == NotesInit /\ [][NotesNext]_noteVars
-----------------------------------------------------------------------------
\* While notes are open one tick is on its way and no more, however often they
\* are closed and opened before it comes, and no chain outlives its flag.
OneChain == /\ noteTicks <= 1 /\ (noteChain <=> noteTicks = 1)
            /\ Open /\ ~quitting => noteTicks = 1

\* What a user typed is in the file, or in the open editor and marked dirty, or
\* its save failed on the way out; and an open editor with no failed save is
\* never dirty longer than the window and one tick.
NotesKept ==
    /\ OneChain
    /\ \A p \in NotePanes :
         \/ noteTyped[p] = disk[p]
         \/ note.pane = p /\ note.dirty /\ note.ver = noteTyped[p]
         \/ p \in lost /\ failures > 0
    /\ Open /\ note.dirty /\ ~note.err => note.idle <= Debounce + 1
=============================================================================

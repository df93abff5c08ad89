------------------------------ MODULE PaneSize ------------------------------
(***************************************************************************)
(* One pane's size, from the terminal window to the child's PTY            *)
(* (internal/tui/model.go WindowSizeMsg, resizeTickMsg, resizeAllPanes and *)
(* diffResizes, internal/daemon/daemon.go handleResizePane and resizeKick).*)
(* Window changes are debounced, resizes leave in goroutines nothing       *)
(* orders, the daemon only reports its size in broadcasts, a restored pane *)
(* may have no PTY yet, and a resize and a spawn each leave the lock       *)
(* between their halves.                                                   *)
(***************************************************************************)
EXTENDS Naturals, Sequences, FiniteSets

CONSTANTS
  WinSizes,     \* paintable window sizes, positive
  MaxWins,      \* bound: window changes
  MaxReports,   \* bound: broadcasts
  MaxSpawns,    \* bound: children
  MaxCuts       \* bound: times the link is lost

ASSUME SizeAssumption == WinSizes \subseteq Nat \ {0}

VARIABLES
  win,          \* the terminal's size; 0 is too small to paint
  tui,          \* the client: applied and pending size, debounce, sized panes
  sizeTicks,        \* debounce timers running
  sends,        \* resize commands not run yet
  toDaemon,     \* resizes on their way
  resizing,     \* handleResizePane calls past their guard; two alike are one
  proc,         \* the daemon's pane
  kicks,        \* resizeKick calls that have read a size to apply
  reports,      \* broadcasts on their way
  left          \* what the bounds still allow

sizeVars == <<win, tui, sizeTicks, sends, toDaemon, resizing, proc, kicks, reports, left>>

Windows == WinSizes \cup {0}
AtRunTime == 0        \* resizeAllPanes reads the pane's size when it runs

SizeInit ==
  /\ win \in Windows
  /\ tui = [sized |-> FALSE, width |-> 0, pending |-> 0, seq |-> 0, box |-> 0, once |-> FALSE, up |-> TRUE,
            fullscreen |-> FALSE, heard |-> FALSE]
  /\ \E stored \in WinSizes :
       proc = [pty |-> FALSE, real |-> 0, applied |-> 0, stored |-> stored, boot |-> 0, spawns |-> 0,
               pending |-> TRUE, raced |-> FALSE, asked |-> FALSE]
  /\ sizeTicks = {} /\ sends = {} /\ toDaemon = <<>> /\ resizing = {} /\ kicks = {} /\ reports = <<>>
  /\ left = [wins |-> MaxWins, reports |-> MaxReports, cuts |-> MaxCuts]

terminalPaintable(size) == size # 0

resizeTabs(t) == [t EXCEPT !.box = t.width]
resizeAllPanes(t) == IF terminalPaintable(t.width) THEN {AtRunTime} ELSE {}

----------------------------------------------------------------------------
WindowChanges ==
  /\ left.wins > 0
  /\ \E s \in Windows \ {win} : win' = s
  /\ left' = [left EXCEPT !.wins = @ - 1]
  /\ tui' = [tui EXCEPT !.heard = FALSE]
  /\ UNCHANGED <<sizeTicks, sends, toDaemon, resizing, proc, kicks, reports>>

(* WindowSizeMsg, from the terminal or from the size poll.  The first one  *)
(* is applied at once, later ones after a pause with no other; a           *)
(* fullscreen dialog takes the size without touching the panes.  A poll    *)
(* that repeats the pending size restarts the pause and is left out.       *)
WindowSize ==
  /\ ~(tui.sized /\ win = tui.width /\ win = tui.pending)
  /\ ~tui.sized \/ win # tui.pending
  /\ LET t == [tui EXCEPT !.pending = win, !.seq = @ + 1]
     IN \/ /\ ~tui.sized
           /\ LET first == resizeTabs([t EXCEPT !.sized = TRUE, !.width = win])
              IN tui' = first /\ sends' = sends \cup resizeAllPanes(first)
           /\ UNCHANGED sizeTicks
        \/ /\ tui.sized /\ tui.fullscreen
           /\ tui' = [t EXCEPT !.width = win]
           /\ UNCHANGED <<sizeTicks, sends>>
        \/ /\ tui.sized /\ ~tui.fullscreen
           /\ tui' = t /\ sizeTicks' = sizeTicks \cup {t.seq}
           /\ UNCHANGED sends
  /\ UNCHANGED <<win, toDaemon, resizing, proc, kicks, reports, left>>

ResizeTick(s) ==
  /\ sizeTicks' = sizeTicks \ {s}
  /\ IF s # tui.seq THEN UNCHANGED <<tui, sends>>
     ELSE LET t == resizeTabs([tui EXCEPT !.width = tui.pending])
          IN tui' = t /\ sends' = sends \cup resizeAllPanes(t)
  /\ UNCHANGED <<win, toDaemon, resizing, proc, kicks, reports, left>>

(* The disclaimer opens before the first size and closes once.             *)
FullscreenDialog ==
  /\ \/ ~tui.sized /\ ~tui.fullscreen
     \/ tui.fullscreen
  /\ tui' = [tui EXCEPT !.fullscreen = ~@]
  /\ UNCHANGED <<win, sizeTicks, sends, toDaemon, resizing, proc, kicks, reports, left>>

----------------------------------------------------------------------------
(* What a broadcast makes the client send: nothing to a pane without a     *)
(* PTY, and otherwise the first resize of this connection whatever the     *)
(* daemon's size, and later ones when the sizes differ.                    *)
ResizeDue(t, r) == terminalPaintable(t.width) /\ ~r.pending /\ ~(t.once /\ r.size = t.box)
diffResizesMarked(t, r) ==
  [tui |-> [t EXCEPT !.once = TRUE], sends |-> IF ResizeDue(t, r) THEN {t.box} ELSE {}]
diffResizes(t, r) ==
  [tui |-> [t EXCEPT !.once = @ \/ ResizeDue(t, r)], sends |-> IF ResizeDue(t, r) THEN {t.box} ELSE {}]

ApplyReport ==
  /\ reports # <<>> /\ tui.sized
  /\ LET r == Head(reports)
         d == diffResizes(resizeTabs(tui), r)
     IN /\ tui' = [d.tui EXCEPT !.heard = /\ terminalPaintable(tui.width) /\ tui.width = win
                                          /\ r = [size |-> proc.stored, pending |-> proc.pending]]
        /\ sends' = sends \cup d.sends
  /\ reports' = Tail(reports)
  /\ UNCHANGED <<win, sizeTicks, toDaemon, resizing, proc, kicks, left>>

(* A command's goroutine sends; a link that is down takes it nowhere.      *)
RunSend(s) ==
  /\ sends' = sends \ {s}
  /\ toDaemon' = IF tui.up THEN Append(toDaemon, IF s = AtRunTime THEN tui.box ELSE s) ELSE toDaemon
  /\ UNCHANGED <<win, tui, sizeTicks, resizing, proc, kicks, reports, left>>

(* armReattachReset forgets that the pane was sized; a handler of the old   *)
(* connection goes on beside those of the new one.                         *)
SizeLinkCut ==
  /\ tui.up /\ tui.sized /\ left.cuts > 0
  /\ tui' = [tui EXCEPT !.up = FALSE, !.heard = FALSE]
  /\ toDaemon' = <<>> /\ reports' = <<>>
  /\ proc' = [proc EXCEPT !.asked = FALSE]
  /\ resizing' = {[h EXCEPT !.now = FALSE] : h \in resizing}
  /\ left' = [left EXCEPT !.cuts = @ - 1]
  /\ UNCHANGED <<win, sizeTicks, sends, kicks>>
LinkBack ==
  /\ ~tui.up
  /\ tui' = [tui EXCEPT !.up = TRUE, !.once = FALSE]
  /\ UNCHANGED <<win, sizeTicks, sends, toDaemon, resizing, proc, kicks, reports, left>>

----------------------------------------------------------------------------
(* A broadcast waits for spawnMu, which the pane's first spawn holds.      *)
BroadcastSize ==
  /\ left.reports > 0 /\ tui.up
  /\ ~(proc.pending /\ proc.boot # 0)
  /\ reports' = Append(reports, [size |-> proc.stored, pending |-> proc.pending])
  /\ left' = [left EXCEPT !.reports = @ - 1]
  /\ UNCHANGED <<win, tui, sizeTicks, sends, toDaemon, resizing, proc, kicks>>

degenerateSize(s) == s = 0

(* handleResizePane's first span.  A size with no area is refused, a pane   *)
(* without a PTY drops it, and an equal one is already applied; a           *)
(* connection's requests are handled one at a time.                        *)
(* asked: a client has sized the child since this connection began.        *)
HandleResizePane ==
  /\ toDaemon # <<>> /\ \A h \in resizing : ~h.now
  /\ toDaemon' = Tail(toDaemon)
  /\ LET s == Head(toDaemon)
         takes == proc.pty /\ ~degenerateSize(s)
     IN /\ proc' = [proc EXCEPT !.asked = @ \/ takes]
        /\ resizing' = IF ~takes \/ s = proc.applied THEN resizing
                       ELSE resizing \cup {[size |-> s, gen |-> proc.spawns, at |-> "resize",
                                            now |-> TRUE, crossed |-> FALSE]}
  /\ UNCHANGED <<win, tui, sizeTicks, sends, kicks, reports, left>>

(* Those that have resized the child and not recorded it, when something    *)
(* else sizes the same child, or reads a size for it.                      *)
Crossed(handlers, gen, s) ==
  {[h EXCEPT !.crossed = @ \/ (h.at = "record" /\ h.gen = gen /\ h.size # s)] : h \in handlers}

(* The call, out of the lock, on the PTY read under it: the child's of that *)
(* time, which may be closed by now.                                       *)
ResizeChild(h) ==
  /\ h.at = "resize"
  /\ \/ /\ resizing' = resizing \ {h} /\ tui' = [tui EXCEPT !.heard = FALSE]
        /\ UNCHANGED proc
     \/ /\ resizing' = Crossed(resizing \ {h}, h.gen, h.size)
                        \cup {[h EXCEPT !.at = "record", !.crossed = kicks \ {h.size} # {}]}
        /\ proc' = IF h.gen = proc.spawns THEN [proc EXCEPT !.real = h.size] ELSE proc
        /\ UNCHANGED tui
  /\ UNCHANGED <<win, sizeTicks, sends, toDaemon, kicks, reports, left>>

(* The second span, for whatever child the pane has by then.               *)
RecordSize(h) ==
  /\ h.at = "record"
  /\ resizing' = resizing \ {h}
  /\ proc' = [proc EXCEPT !.applied = h.size, !.stored = h.size,
                          !.raced = IF h.gen = proc.spawns THEN h.crossed ELSE @ \/ h.size # proc.stored]
  /\ tui' = IF h.size = proc.stored THEN tui ELSE [tui EXCEPT !.heard = FALSE]
  /\ UNCHANGED <<win, sizeTicks, sends, toDaemon, kicks, reports, left>>

(* The first child of a deferred pane, or a restart, which drops the old    *)
(* PTY: the size is read, and the child is started at it later, or fails.  *)
SpawnRead ==
  /\ proc.boot = 0 /\ proc.spawns < MaxSpawns
  /\ proc' = [proc EXCEPT !.pty = FALSE, !.boot = proc.stored, !.spawns = @ + 1, !.raced = FALSE, !.asked = FALSE]
  /\ tui' = [tui EXCEPT !.heard = FALSE]
  /\ kicks' = {}
  /\ UNCHANGED <<win, sizeTicks, sends, toDaemon, resizing, reports, left>>

SpawnPublish ==
  /\ proc.boot # 0
  /\ \/ proc' = [proc EXCEPT !.pty = TRUE, !.real = proc.boot, !.applied = 0, !.boot = 0, !.pending = FALSE]
     \/ proc' = [proc EXCEPT !.boot = 0, !.pending = FALSE]
  /\ tui' = [tui EXCEPT !.heard = FALSE]
  /\ UNCHANGED <<win, sizeTicks, sends, toDaemon, resizing, kicks, reports, left>>

(* resizeKick, on the first output or for a client that attaches.          *)
ReadKick ==
  /\ proc.pty /\ kicks = {}
  /\ kicks' = {proc.stored}
  /\ resizing' = Crossed(resizing, proc.spawns, proc.stored)
  /\ UNCHANGED <<win, tui, sizeTicks, sends, toDaemon, proc, reports, left>>

ApplyKick ==
  /\ \E s \in kicks : proc' = [proc EXCEPT !.real = s]
  /\ kicks' = {}
  /\ UNCHANGED <<win, tui, sizeTicks, sends, toDaemon, resizing, reports, left>>

SizeNext ==
  \/ WindowChanges \/ WindowSize \/ FullscreenDialog \/ (\E s \in sizeTicks : ResizeTick(s))
  \/ ApplyReport \/ (\E s \in sends : RunSend(s)) \/ SizeLinkCut \/ LinkBack
  \/ BroadcastSize \/ HandleResizePane \/ (\E h \in resizing : ResizeChild(h) \/ RecordSize(h))
  \/ SpawnRead \/ SpawnPublish \/ ReadKick \/ ApplyKick

SizeSpec == SizeInit /\ [][SizeNext]_sizeVars

----------------------------------------------------------------------------
(* Once nothing is on its way and the client has applied a broadcast that  *)
(* told the daemon's present size, the child runs at the size the client   *)
(* draws it, but for the crossings the code does not guard: a resizeKick   *)
(* or another connection's resize between a resize and its record, and a   *)
(* record left over from the child before.  And the first child of the     *)
(* pane has been asked for the resize every connection owes it, which is   *)
(* what makes a restored pane repaint.                                     *)
SizesMeet ==
  /\ tui.heard /\ tui.up /\ proc.pty
  /\ sizeTicks = {} /\ sends = {} /\ toDaemon = <<>> /\ resizing = {} /\ kicks = {} /\ reports = <<>>
  => /\ proc.stored = win
     /\ proc.real = win \/ proc.raced
     /\ proc.spawns = 1 => proc.asked
=============================================================================

------------------------------ MODULE Attention -----------------------------
(***************************************************************************)
(* What the client tells the user about panes that want them               *)
(* (internal/tui/workstate.go, notify.go): a pane's work state from hook   *)
(* events, the "unseen" mark of a finished turn, which the daemon stores,  *)
(* and desktop toasts, withdrawn when their reason has gone.  Every        *)
(* message runs Update's prologue first: acknowledge the focused pane,     *)
(* sweep stale toasts, and raise deferred ones if the focus has moved.     *)
(***************************************************************************)
EXTENDS Naturals

CONSTANTS
  APanes,     \* panes
  AgentPanes, \* those that run an agent, and can be muted
  SubCap      \* bound: subagents tracked before overflow (maxTrackedSubagents)

ASSUME AttentionAssumption ==
  /\ AgentPanes \subseteq APanes
  /\ "none" \notin APanes

VARIABLES
  marks,      \* pane -> its work state and its marks, a record
  toast,      \* pane -> the toast showing, or "none"
  cooling,    \* panes whose last toast is within the cooldown
  excused,    \* panes whose toast was refused: muted, cooling, failed, or swept
  stored,     \* pane -> the unseen mark the daemon stores
  focusOn,    \* the terminal window has the focus
  activeP,    \* the active pane
  lastFocused,\* the focused pane the last prologue saw, or NoFocus
  linkUp

attVars == <<marks, toast, cooling, excused, stored, focusOn, activeP, lastFocused, linkUp>>

NoFocus == "none"

Rested == [turn |-> FALSE, subs |-> 0, over |-> FALSE, blocked |-> FALSE, unseen |-> FALSE,
           seed |-> FALSE, muted |-> FALSE]

AttInit ==
  /\ marks = [q \in APanes |-> Rested]
  /\ toast = [q \in APanes |-> "none"]
  /\ cooling = {} /\ excused = {}
  /\ stored = [q \in APanes |-> FALSE]
  /\ focusOn = TRUE
  /\ activeP \in APanes
  /\ lastFocused = NoFocus
  /\ linkUp = TRUE

----------------------------------------------------------------------------
working(r) == r.turn \/ r.subs > 0 \/ r.over

FocusedPaneID == IF focusOn THEN activeP ELSE NoFocus
userIsWatchingOnScreen(q) == q = activeP
userIsWatching(q) == focusOn /\ q = activeP

liveNow(kind, r) == (kind = "blocked" /\ r.blocked) \/ (kind = "done" /\ r.unseen)

(* The whole state a message works on; n.ok is whether the desktop takes   *)
(* a toast in this step.                                                   *)
AttNow(ok) == [marks |-> marks, toast |-> toast, cooling |-> cooling, excused |-> excused,
            stored |-> stored, seen |-> lastFocused, ok |-> ok]

reportUnseen(n, q) ==
  IF linkUp THEN [n EXCEPT !.stored[q] = n.marks[q].unseen] ELSE n

emitToast(n, q, kind) ==
  IF n.marks[q].muted \/ q \in n.cooling \/ ~n.ok
  THEN [n EXCEPT !.excused = @ \cup {q}]
  ELSE [n EXCEPT !.toast[q] = kind, !.cooling = @ \cup {q}, !.excused = @ \ {q}]

raiseAttentionToast(n, q, wasBlocked, wasUnseen) ==
  CASE userIsWatching(q) -> n
    [] ~userIsWatching(q) /\ n.marks[q].blocked /\ ~wasBlocked -> emitToast(n, q, "blocked")
    [] ~userIsWatching(q) /\ ~(n.marks[q].blocked /\ ~wasBlocked) /\ n.marks[q].unseen /\ ~wasUnseen ->
         emitToast(n, q, "done")
    [] OTHER -> n

(* Panes that want the user, show nothing and are not watched.             *)
Deferred(n) ==
  {q \in APanes : /\ n.toast[q] = "none" /\ ~userIsWatching(q)
                  /\ n.marks[q].blocked \/ (n.marks[q].unseen /\ ~n.marks[q].seed)}

raiseDeferredToasts(n) ==
  LET D == Deferred(n)
      Refused == {q \in D : n.marks[q].muted \/ q \in n.cooling \/ ~n.ok}
  IN [n EXCEPT !.toast = [q \in APanes |-> IF q \in D \ Refused
                                           THEN IF n.marks[q].blocked THEN "blocked" ELSE "done"
                                           ELSE @[q]],
               !.cooling = @ \cup (D \ Refused),
               !.excused = (@ \ (D \ Refused)) \cup Refused]

ackFocusedPane(n) ==
  IF focusOn /\ n.marks[activeP].unseen
  THEN reportUnseen([n EXCEPT !.marks[activeP].unseen = FALSE], activeP)
  ELSE n

Wants(r) == r.blocked \/ (r.unseen /\ ~r.seed)

(* A toast goes when the reason it names has gone; nothing announces the   *)
(* pane's other reason, if it has one, until the focus moves.              *)
sweepOutstandingToasts(n) ==
  LET gone == {q \in APanes : n.toast[q] # "none" /\ ~liveNow(n.toast[q], n.marks[q])}
  IN [n EXCEPT !.toast = [q \in APanes |->
                            IF q \in gone \/ userIsWatching(q) THEN "none" ELSE @[q]],
               !.excused = @ \cup {q \in gone : Wants(n.marks[q]) /\ ~userIsWatching(q)}]

AttPrologue(ok) ==
  LET n == sweepOutstandingToasts(ackFocusedPane(AttNow(ok)))
  IN IF lastFocused = FocusedPaneID THEN n
     ELSE raiseDeferredToasts([n EXCEPT !.seen = FocusedPaneID])

(* A pane that wants nobody any more needs no excuse.                      *)
Became(n) ==
  /\ marks' = n.marks /\ toast' = n.toast /\ cooling' = n.cooling /\ stored' = n.stored
  /\ excused' = {q \in n.excused : n.marks[q].blocked \/ n.marks[q].unseen}
  /\ lastFocused' = n.seen

----------------------------------------------------------------------------
(* paneEventMsg: a hook event moves the pane's work state.                 *)
Transition(r, kind) ==
  CASE kind \in {"start", "heartbeat"} -> [r EXCEPT !.turn = TRUE, !.blocked = FALSE]
    [] kind = "subStart" -> IF r.subs = SubCap THEN [r EXCEPT !.over = TRUE] ELSE [r EXCEPT !.subs = @ + 1]
    [] kind = "subStop" -> [r EXCEPT !.subs = IF @ > 0 THEN @ - 1 ELSE 0]
    [] kind = "stop" -> [r EXCEPT !.turn = FALSE, !.blocked = FALSE]
    [] kind = "final" -> [r EXCEPT !.turn = FALSE, !.blocked = FALSE, !.subs = 0, !.over = FALSE]
    [] kind = "park" -> [r EXCEPT !.blocked = TRUE]
    [] kind = "idleNote" -> [r EXCEPT !.blocked = @ \/ r.turn]
    [] OTHER -> [r EXCEPT !.turn = FALSE, !.subs = 0, !.over = FALSE, !.blocked = FALSE]

applyWorkTransition(n, q, kind) ==
  LET r == n.marks[q]
      moved == Transition(r, kind)
      begins == working(moved) /\ ~working(r)
      ends == ~working(moved) /\ working(r) /\ kind # "abort"
      r2 == CASE begins /\ kind # "heartbeat" -> [moved EXCEPT !.unseen = FALSE]
              [] ends /\ ~userIsWatching(q) -> [moved EXCEPT !.unseen = TRUE, !.seed = FALSE]
              [] OTHER -> moved
      (* A completion on a pane that wears the previous client's mark     *)
      (* is not announced: the mark does not rise.                        *)
      quiet == IF r.seed /\ ~r2.seed /\ r.unseen THEN {q} ELSE {}
      n2 == raiseAttentionToast([n EXCEPT !.marks[q] = r2, !.excused = @ \cup quiet],
                                q, r.blocked, r.unseen)
  IN IF r2.unseen # r.unseen THEN reportUnseen(n2, q) ELSE n2

WorkEvents == {"start", "heartbeat", "subStart", "subStop", "stop", "final", "park", "idleNote", "abort"}

PaneEvent(q, kind, ok) ==
  /\ linkUp
  /\ Became(applyWorkTransition(AttPrologue(ok), q, kind))
  /\ UNCHANGED <<focusOn, activeP, linkUp>>

(* Keys reach the active pane: an answer clears its blocked mark, and      *)
(* escape, the agent's interrupt, ends its turn and leaves its subagents.  *)
answerBlockedByInput(ok) ==
  /\ focusOn /\ linkUp
  /\ LET n == AttPrologue(ok) IN Became([n EXCEPT !.marks[activeP].blocked = FALSE])
  /\ UNCHANGED <<focusOn, activeP, linkUp>>

interruptWorkingPane(ok) ==
  /\ focusOn /\ linkUp
  /\ Became(applyWorkTransition(AttPrologue(ok), activeP, "stop"))
  /\ UNCHANGED <<focusOn, activeP, linkUp>>

(* Any other message: a tick, a key that goes nowhere.                     *)
AnyMessage(ok) ==
  /\ Became(AttPrologue(ok))
  /\ UNCHANGED <<focusOn, activeP, linkUp>>

attJumpToPane(q, ok) ==
  /\ q # activeP
  /\ Became(AttPrologue(ok))
  /\ activeP' = q
  /\ UNCHANGED <<focusOn, linkUp>>

FocusMsg(ok) ==
  /\ ~focusOn
  /\ Became(AttPrologue(ok))
  /\ focusOn' = TRUE
  /\ UNCHANGED <<activeP, linkUp>>

(* Losing the window's focus raises what was held back for the watcher.    *)
BlurMsg(ok) ==
  /\ focusOn
  /\ LET n == AttPrologue(ok)
         D == {q \in APanes : /\ n.toast[q] = "none"
                              /\ n.marks[q].blocked \/ (n.marks[q].unseen /\ ~n.marks[q].seed)}
         Refused == {q \in D : n.marks[q].muted \/ q \in n.cooling \/ ~ok}
     IN Became([n EXCEPT !.toast = [q \in APanes |-> IF q \in D \ Refused
                                                     THEN IF n.marks[q].blocked THEN "blocked" ELSE "done"
                                                     ELSE @[q]],
                         !.cooling = @ \cup (D \ Refused),
                         !.excused = (@ \ (D \ Refused)) \cup Refused])
  /\ focusOn' = FALSE
  /\ UNCHANGED <<activeP, linkUp>>

ToggleMuted(q, ok) ==
  /\ LET n == AttPrologue(ok) IN Became([n EXCEPT !.marks[q].muted = ~@])
  /\ UNCHANGED <<focusOn, activeP, linkUp>>

CooldownPasses(q) ==
  /\ q \in cooling
  /\ cooling' = cooling \ {q}
  /\ UNCHANGED <<marks, toast, excused, stored, focusOn, activeP, lastFocused, linkUp>>

LinkDrops ==
  /\ linkUp /\ linkUp' = FALSE
  /\ UNCHANGED <<marks, toast, cooling, excused, stored, focusOn, activeP, lastFocused>>

resetWorkState(n) == [q \in APanes |-> [n.marks[q] EXCEPT !.turn = FALSE, !.subs = 0, !.over = FALSE]]

(* finishReconnect: work state starts over, every mark is reported again.  *)
Reattached(ok) ==
  /\ ~linkUp /\ linkUp' = TRUE
  /\ LET n == AttPrologue(ok)
     IN Became([n EXCEPT !.marks = resetWorkState(n), !.stored = [q \in APanes |-> n.marks[q].unseen]])
  /\ UNCHANGED <<focusOn, activeP>>

(* A new client process knows only what the daemon stored.                 *)
ClientRestarts ==
  /\ linkUp
  /\ marks' = [q \in APanes |-> [Rested EXCEPT !.unseen = stored[q], !.seed = stored[q], !.muted = marks[q].muted]]
  /\ toast' = [q \in APanes |-> "none"]
  /\ cooling' = {} /\ excused' = {} /\ lastFocused' = NoFocus /\ focusOn' = TRUE
  /\ UNCHANGED <<stored, activeP, linkUp>>

AttNext ==
  \/ \E ok \in BOOLEAN :
       \/ \E q \in AgentPanes, k \in WorkEvents : PaneEvent(q, k, ok)
       \/ answerBlockedByInput(ok) \/ interruptWorkingPane(ok) \/ AnyMessage(ok)
       \/ FocusMsg(ok) \/ BlurMsg(ok) \/ Reattached(ok)
       \/ \E q \in APanes : attJumpToPane(q, ok)
       \/ \E q \in AgentPanes : ToggleMuted(q, ok)
  \/ \E q \in APanes : CooldownPasses(q)
  \/ LinkDrops \/ ClientRestarts

AttSpec == AttInit /\ [][AttNext]_attVars

----------------------------------------------------------------------------
(* A pane that waits for the user, or has finished a turn nobody saw, has  *)
(* a toast, unless the user is watching it, its toast was refused (muted   *)
(* pane, cooldown, desktop error) or the toast of its other reason was     *)
(* withdrawn; and the mark the daemon would give the next client is the    *)
(* mark this client shows.                                                 *)
AttentionRaised ==
  /\ lastFocused = FocusedPaneID =>
       \A q \in APanes :
         /\ ~(focusOn /\ q = activeP) /\ q \notin excused
         /\ Wants(marks[q])
         => toast[q] # "none"
  /\ linkUp => \A q \in APanes : stored[q] = marks[q].unseen
=============================================================================

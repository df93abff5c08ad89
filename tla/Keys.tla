-------------------------------- MODULE Keys --------------------------------
(***************************************************************************)
(* Keyboard, mouse and paste in the client (internal/tui/model.go          *)
(* handleKey, stepSequence and the mouse messages, ctxmenu.go,             *)
(* viewer_mouse.go, reconnect.go freezeInput).  Every input is routed by   *)
(* what is open when it arrives, while broadcasts, jumps asked for by MCP, *)
(* clipboard reads and timers change the panes between two inputs.         *)
(***************************************************************************)
EXTENDS Naturals, FiniteSets, FiniteSetsExt

CONSTANTS
  KeyTabs,     \* tab -> the panes it starts with
  NoneKey,     \* no pane
  MaxInputs    \* bound: inputs and outside events in a behaviour

VARIABLES
  u,           \* the part of the Model that routes inputs
  inputs       \* inputs and events so far

keyVars == <<u, inputs>>

KeyPanes == UNION {KeyTabs[t] : t \in DOMAIN KeyTabs}
KeyTabOf(p) == CHOOSE t \in DOMAIN KeyTabs : p \in KeyTabs[t]
Leaves(m, t) == KeyTabs[t] \cap m.live
ActivePane(m) == m.act[m.tab]

(* What the last input did, to which pane, and the pane the user meant.    *)
Nothing == [kind |-> "nothing", at |-> NoneKey, aim |-> NoneKey]
Did(m, kind, at, aim) == [m EXCEPT !.did = [kind |-> kind, at |-> at, aim |-> aim]]

KeyInit ==
  /\ inputs = 0
  /\ \E t \in DOMAIN KeyTabs, f \in [DOMAIN KeyTabs -> KeyPanes] :
       /\ \A x \in DOMAIN KeyTabs : f[x] \in KeyTabs[x]
       /\ u = [live |-> KeyPanes, tab |-> t, act |-> f, dialog |-> "none", confirm |-> NoneKey,
               rename |-> "none", menu |-> NoneKey, notes |-> NoneKey, notesPane |-> FALSE,
               overlay |-> {}, sidebar |-> FALSE, sel |-> NoneKey, drags |-> {},
               pending |-> FALSE, pendingPane |-> NoneKey, gen |-> 0, armed |-> NoneKey,
               timers |-> {}, clip |-> {}, frozen |-> FALSE, did |-> Nothing]

----------------------------------------------------------------------------
(* Keys: a chord that starts a sequence, a chord that completes one for an *)
(* action, a key bound to an action by itself, and the rest.               *)
Early == {"notification.focus", "notification.toggle", "pane.quick_actions", "pane.toggle_lazygit"}
Structural == {"pane.close"}
Late == {"pane.close", "pane.restart", "pane.next", "tab.next", "pane.rename", "tab.rename", "pane.paste",
         "pane.notes_toggle", "pane.left", "pane.right", "about"}
Actions == Early \cup Late
NoAction == "none"

Key(chord, action) == [chord |-> chord, action |-> action]
AllKeys == {Key(c, NoAction) : c \in {"prefix", "esc", "enter", "text", "extend"}}
           \cup {Key("single", a) : a \in Actions} \cup {Key("second", a) : a \in Actions}
isAction(k, a) == k.chord = "single" /\ k.action = a

cancelSequence(m) ==
  IF m.pending THEN [m EXCEPT !.pending = FALSE, !.gen = @ + 1, !.armed = NoneKey] ELSE m

(* A tick is started for the chord that is pending now.                    *)
armSequenceTimeout(m) == IF m.pending THEN [m EXCEPT !.timers = @ \cup {m.gen}] ELSE m

Step(m, action, consumed) == [m |-> m, action |-> action, consumed |-> consumed]

stepFrom(m, k) ==
  LET pend == [m EXCEPT !.pending = TRUE, !.pendingPane = ActivePane(m), !.gen = @ + 1,
                        !.armed = IF m.pending THEN m.armed ELSE ActivePane(m)]
  IN IF k.chord = "prefix" /\ m.pending THEN Step(cancelSequence(m), NoAction, FALSE)
     ELSE IF k.chord = "prefix" THEN Step(pend, NoAction, TRUE)
     ELSE IF ~m.pending THEN Step(m, NoAction, FALSE)
     ELSE IF k.chord = "second" THEN Step(cancelSequence(m), k.action, FALSE)
     ELSE Step(cancelSequence(m), NoAction, TRUE)

stepSequenceAnywhere(m, k) == stepFrom(m, k)

(* A pending sequence belongs to the pane it was begun in.                 *)
stepSequence(m, k) ==
  stepFrom(IF m.pending /\ ActivePane(m) # m.pendingPane THEN cancelSequence(m) ELSE m, k)

----------------------------------------------------------------------------
clearDragState(m) == [m EXCEPT !.drags = {}]
Drag(m, what) == [clearDragState(m) EXCEPT !.drags = {what}]
closeCtxMenu(m) == [m EXCEPT !.menu = NoneKey]

(* A menu too large for the window is not opened at all.                   *)
openCtxMenu(m, p) == [clearDragState(m) EXCEPT !.menu = p, !.sel = NoneKey]

exitNotesModeInPlace(m) == [m EXCEPT !.notes = NoneKey, !.notesPane = FALSE]
toggleNotesMode(m) ==
  IF m.notes # NoneKey THEN exitNotesModeInPlace(m)
  ELSE [m EXCEPT !.notes = ActivePane(m), !.notesPane = FALSE]

keysOpenClosePaneConfirm(m) == [m EXCEPT !.dialog = "confirm", !.confirm = ActivePane(m)]

(* The clipboard is read in a goroutine, for the pane active now.          *)
pasteClipboard(m) == [m EXCEPT !.clip = @ \cup {ActivePane(m)}]

NextPane(m) ==
  IF m.notes # NoneKey \/ Leaves(m, m.tab) = {ActivePane(m)} THEN m
  ELSE [m EXCEPT !.act[m.tab] = CHOOSE p \in Leaves(m, m.tab) : p # ActivePane(m)]

(* Every way to another tab leaves notes mode first.                       *)
keysSwitchTab(m, t) == [exitNotesModeInPlace(m) EXCEPT !.tab = t]
keysJumpToPane(m, p) == [keysSwitchTab(m, KeyTabOf(p)) EXCEPT !.act[KeyTabOf(p)] = p]

(* With one tab this is a switch to the tab on screen.                     *)
NextTab(m) ==
  LET others == {t \in DOMAIN KeyTabs : t # m.tab /\ Leaves(m, t) # {}}
  IN keysSwitchTab(m, IF others = {} THEN m.tab ELSE CHOOSE t \in others : TRUE)

(* enqueueInput drops what is meant for a link that is down.               *)
enqueueInput(m, p, aim) == IF m.frozen \/ p \notin m.live THEN m ELSE Did(m, "input", p, aim)

forwardKey(m) ==
  LET n == [m EXCEPT !.sel = NoneKey]
  IN IF m.tab \in m.overlay THEN m ELSE enqueueInput(n, ActivePane(m), ActivePane(m))

(* The two tiers of actions.  aim is the pane the user began the input in. *)
Perform(m, a, aim) ==
  CASE a = "notification.toggle" -> [m EXCEPT !.sidebar = FALSE]
    [] a = "notification.focus" -> [m EXCEPT !.sidebar = TRUE]
    [] a = "pane.quick_actions" -> IF m.notes # NoneKey THEN m ELSE openCtxMenu(m, ActivePane(m))
    [] a = "pane.toggle_lazygit" -> [m EXCEPT !.overlay = {m.tab} \ @]
    [] a \in {"pane.close", "pane.restart"} -> Did(keysOpenClosePaneConfirm(m), a, ActivePane(m), aim)
    [] a = "pane.next" -> Did(NextPane(m), a, ActivePane(m), aim)
    [] a = "tab.next" -> NextTab(m)
    [] a \in {"pane.rename", "tab.rename"} -> Did([m EXCEPT !.rename = a], a, ActivePane(m), aim)
    [] a = "pane.paste" -> Did(pasteClipboard(m), a, ActivePane(m), aim)
    [] a = "pane.notes_toggle" -> Did(toggleNotesMode(m), a, ActivePane(m), aim)
    [] a \in {"pane.left", "pane.right"} -> NextPane(m)
    [] a = "about" -> [m EXCEPT !.dialog = "modal"]

(* The notification sidebar has the keyboard: Enter goes to a pane.        *)
handleNotificationKey(m, k) ==
  CASE k.chord = "esc" -> {[m EXCEPT !.sidebar = FALSE]}
    [] k.chord = "enter" -> {keysJumpToPane([m EXCEPT !.sidebar = FALSE], p) : p \in m.live}
    [] OTHER -> {m}

(* Shift+arrows begin a selection in the active pane or extend the one     *)
(* there is, and move the shell's cursor along with it.                    *)
handleSelectionKey(m) ==
  enqueueInput([m EXCEPT !.sel = IF @ = NoneKey THEN ActivePane(m) ELSE @], ActivePane(m), ActivePane(m))

(* After the sequence machine: actions, the sidebar, the selection, text.  *)
handleTiers(m, seqAction, aim, k) ==
  LET single == IF k.chord = "single" THEN k.action ELSE NoAction
  IN IF seqAction # NoAction THEN {Perform(m, seqAction, aim)}
     ELSE IF single \in Early THEN {Perform(m, single, ActivePane(m))}
     ELSE IF m.sidebar THEN handleNotificationKey(m, k)
     ELSE IF m.sel # NoneKey /\ k.chord \in {"esc", "enter"} THEN {[m EXCEPT !.sel = NoneKey]}
     ELSE IF k.chord = "extend" THEN {handleSelectionKey(m)}
     ELSE IF single \in Late THEN {Perform(m, single, ActivePane(m))}
     ELSE {forwardKey(m)}

seqInNotes(m, a) ==
  CASE a = "pane.notes_toggle" -> exitNotesModeInPlace(m)
    [] a = "pane.left" -> [m EXCEPT !.notesPane = TRUE]
    [] a = "pane.right" -> [m EXCEPT !.notesPane = FALSE]

handleSequenced(m, k) ==
  LET s == IF m.sidebar \/ m.sel # NoneKey THEN Step(m, NoAction, FALSE) ELSE stepSequence(m, k)
      inNotes == s.m.notes # NoneKey
  IN IF s.consumed THEN {armSequenceTimeout(s.m)}
     ELSE IF inNotes /\ s.action \in {"pane.notes_toggle", "pane.left", "pane.right"}
          THEN {seqInNotes(s.m, s.action)}
     ELSE handleTiers(IF inNotes /\ s.action \in Structural THEN exitNotesModeInPlace(s.m) ELSE s.m,
                      s.action, m.armed, k)

handleOverlayKey(m, k) ==
  IF isAction(k, "pane.toggle_lazygit") THEN {[m EXCEPT !.overlay = @ \ {m.tab}]}
  ELSE IF isAction(k, "tab.next") THEN {NextTab(m)}
  ELSE {forwardKey(m)}

handleAfterNotes(m, k) ==
  IF m.tab \in m.overlay THEN handleOverlayKey(m, k) ELSE handleSequenced(m, k)

(* With the notes editor open its own keys come first; structural keys and *)
(* the exempt ones close it and then do their work.                        *)
notesKeyExempt(k) ==
  k.chord = "single" /\ k.action \notin {"pane.paste", "pane.toggle_lazygit"}

handleNotesKey(m, k) ==
  IF isAction(k, "pane.notes_toggle") THEN {exitNotesModeInPlace(m)}
  ELSE IF isAction(k, "pane.left") THEN {[m EXCEPT !.notesPane = TRUE]}
  ELSE IF isAction(k, "pane.right") THEN {[m EXCEPT !.notesPane = FALSE]}
  ELSE IF k.chord = "single" /\ k.action \in Structural THEN handleAfterNotes(exitNotesModeInPlace(m), k)
  ELSE IF m.notesPane THEN handleAfterNotes(m, k)
  ELSE IF notesKeyExempt(k) THEN handleAfterNotes(exitNotesModeInPlace(m), k)
  ELSE IF k.chord = "esc" THEN {exitNotesModeInPlace(m)}
  ELSE {m}

(* Only the menu's own pane is acted on, and only in the tab on screen.    *)
executeCtxMenuItem(m, a) ==
  LET n == closeCtxMenu(m)
      p == m.menu
  IN IF p \notin m.live \/ KeyTabOf(p) # m.tab THEN n
     ELSE Perform([n EXCEPT !.act[m.tab] = p], a, p)

CtxActions == {"pane.close", "pane.restart", "pane.rename", "pane.notes_toggle", "pane.toggle_lazygit"}

handleCtxMenuKey(m, k) ==
  CASE k.chord = "esc" -> {closeCtxMenu(m)}
    [] k.chord = "enter" -> {executeCtxMenuItem(m, a) : a \in CtxActions}
    [] OTHER -> {m}

(* Enter takes the pane or tab active then.                                *)
handleRenameKey(m, k) ==
  IF k.chord = "enter" THEN {[m EXCEPT !.rename = "none"]} ELSE {m}

(* The confirm dialog acts on the pane it was opened for; the about dialog *)
(* leads to the log viewer.                                                *)
keysHandleDialogKey(m, k) ==
  CASE k.chord = "esc" -> {[m EXCEPT !.dialog = "none", !.confirm = NoneKey]}
    [] k.chord = "enter" /\ m.dialog \in {"confirm", "prompt"} ->
         {[m EXCEPT !.dialog = "none", !.confirm = NoneKey]}
    [] k.chord = "enter" /\ m.dialog = "modal" -> {[m EXCEPT !.dialog = "viewer"]}
    [] OTHER -> {m}

handleKey(m, k) ==
  IF m.dialog # "none" THEN keysHandleDialogKey(cancelSequence(m), k)
  ELSE IF m.rename # "none" THEN handleRenameKey(m, k)
  ELSE IF m.menu # NoneKey THEN handleCtxMenuKey(m, k)
  ELSE IF m.notes # NoneKey THEN handleNotesKey(m, k)
  ELSE handleAfterNotes(m, k)

----------------------------------------------------------------------------
(* A press, by the region it lands in.                                     *)
focusSidebarPane(m, p) ==
  IF KeyTabOf(p) = m.tab THEN [m EXCEPT !.act[KeyTabOf(p)] = p] ELSE keysJumpToPane(m, p)

sidebarPress(m) ==
  {Drag([m EXCEPT !.sel = NoneKey], "sidebar"), Drag(m, "project")}
  \cup {focusSidebarPane(clearDragState(m), p) : p \in m.live}
  \cup {Drag(keysSwitchTab(m, t), "sideTab") : t \in {x \in DOMAIN KeyTabs : Leaves(m, x) # {}}}
  \cup {[clearDragState(m) EXCEPT !.sidebar = FALSE]}

contentPress(m) ==
  LET quiet == [m EXCEPT !.sel = NoneKey]
      inNotes == m.notes # NoneKey
  IN {Drag(keysSwitchTab(m, t), "tab") : t \in {x \in DOMAIN KeyTabs : Leaves(m, x) # {}}}
     \cup (IF inNotes THEN {Drag([quiet EXCEPT !.notesPane = FALSE], "notes")} ELSE {Drag(quiet, "split")})
     \cup {Drag(quiet, "scroll"), Drag([quiet EXCEPT !.notesPane = inNotes], "select")}

rightPress(m) ==
  IF m.sel # NoneKey THEN {[m EXCEPT !.sel = NoneKey]}
  ELSE IF m.notes # NoneKey \/ m.rename # "none" THEN {m}
  ELSE {openCtxMenu(m, p) : p \in Leaves(m, m.tab)}

(* A right press on a pane's row in the sidebar first goes to that pane.   *)
rightSidebarPress(m) ==
  {openCtxMenu(focusSidebarPane(clearDragState(m), p), p) : p \in m.live}

pressElsewhere(m, right) ==
  IF right THEN rightPress(m) \cup rightSidebarPress(m) ELSE sidebarPress(m) \cup contentPress(m)

MouseClick(old, right) ==
  LET m == cancelSequence(old)
  IN IF m.dialog = "viewer" THEN {IF right THEN m ELSE Drag(m, "viewer")}
     ELSE IF m.dialog # "none" \/ m.tab \in m.overlay THEN {clearDragState(m)}
     ELSE IF m.menu = NoneKey THEN pressElsewhere(m, right)
     ELSE {m} \cup (IF right THEN pressElsewhere(closeCtxMenu(m), TRUE)
                    ELSE {closeCtxMenu(m)} \cup {executeCtxMenuItem(m, a) : a \in CtxActions})

(* The selection follows the pane under the press, or the focused one.     *)
MouseMotion(m) ==
  IF m.dialog # "none" \/ m.tab \in m.overlay \/ m.menu # NoneKey THEN {m}
  ELSE CASE "split" \in m.drags -> {m, clearDragState(m)}
         [] "select" \in m.drags ->
              {[m EXCEPT !.sel = p] : p \in IF m.notes # NoneKey THEN {ActivePane(m)} ELSE Leaves(m, m.tab)}
         [] OTHER -> {m}

(* A press that selected nothing focuses the pane it landed on.            *)
MouseRelease(m) ==
  IF m.dialog = "viewer" THEN {[m EXCEPT !.drags = @ \ {"viewer"}]}
  ELSE IF m.dialog # "none" \/ m.tab \in m.overlay THEN {clearDragState(m)}
  ELSE IF m.menu # NoneKey THEN {m}
  ELSE IF "select" \notin m.drags \/ m.sel # NoneKey \/ m.notes # NoneKey THEN {clearDragState(m)}
  ELSE {[clearDragState(m) EXCEPT !.act[m.tab] = p] : p \in Leaves(m, m.tab)}

(* A bracketed paste from the terminal goes to whatever takes text now.    *)
Paste(old) ==
  LET m == cancelSequence(old)
  IN IF m.dialog # "none" \/ m.notes # NoneKey THEN {m}
     ELSE {pasteClipboard(m), enqueueInput(m, ActivePane(m), ActivePane(m))}

sendClipboardToPaneID(m, p) == enqueueInput([m EXCEPT !.clip = @ \ {p}], p, p)

----------------------------------------------------------------------------
(* The prologue of every Update closes a menu whose pane is gone.          *)
Prologue(m) == IF m.menu # NoneKey /\ m.menu \notin m.live THEN closeCtxMenu(m) ELSE m

Input(outcomes) ==
  /\ inputs < MaxInputs /\ inputs' = inputs + 1
  /\ u' \in outcomes

(* freezeInput: while the active link is down its inputs are dropped.      *)
Begun == [Prologue(u) EXCEPT !.did = Nothing]
Typed(outcomes) == Input(IF u.frozen THEN {Begun} ELSE outcomes)

PressKey(k) == Typed(handleKey(Begun, k))
PressMouse(right) == Typed(MouseClick(Begun, right))
MoveMouse == u.drags # {} /\ Typed(MouseMotion(Begun))
ReleaseMouse == u.drags # {} /\ Typed(MouseRelease(Begun))
PasteText == Typed(Paste(Begun))

ClipboardRead == \E p \in u.clip : Input({sendClipboardToPaneID(Begun, p)})

SequenceTimeout ==
  \E g \in u.timers :
    Input({[(IF g = u.gen THEN cancelSequence(Begun) ELSE Begun) EXCEPT !.timers = @ \ {g}]})

(* A pane ends: its tab's active pane moves on, and an emptied tab gives   *)
(* way to another.  A notes editor open for the pane closes.               *)
PaneGoes(p) ==
  LET t == KeyTabOf(p)
      left == u.live \ {p}
      m == [Begun EXCEPT !.live = left,
                          !.act[t] = IF @ = p /\ KeyTabs[t] \cap left # {} THEN CHOOSE x \in KeyTabs[t] \cap left : TRUE ELSE @,
                          !.tab = IF @ = t /\ KeyTabs[t] \cap left = {} THEN KeyTabOf(CHOOSE x \in left : TRUE) ELSE @]
  IN /\ p \in u.live /\ left # {}
     /\ Input({IF m.notes = p THEN exitNotesModeInPlace(m)
               ELSE IF m.notes # NoneKey THEN [m EXCEPT !.act[KeyTabOf(m.notes)] = m.notes] ELSE m})

(* set_active_pane asked for through MCP.                                  *)
JumpedTo(p) == p \in u.live /\ p # ActivePane(u) /\ Input({keysJumpToPane(Begun, p)})

(* A dialog nobody asked for now: an upgrade or migration prompt.          *)
PromptOpens == u.dialog = "none" /\ Input({[Begun EXCEPT !.dialog = "prompt"]})

LinkFreezes == Input({[Begun EXCEPT !.frozen = ~@]})

KeyNext ==
  \/ \E k \in AllKeys : PressKey(k)
  \/ \E right \in BOOLEAN : PressMouse(right)
  \/ MoveMouse \/ ReleaseMouse \/ PasteText
  \/ ClipboardRead \/ SequenceTimeout
  \/ \E p \in KeyPanes : PaneGoes(p) \/ JumpedTo(p)
  \/ PromptOpens \/ LinkFreezes

KeySpec == KeyInit /\ [][KeyNext]_keyVars

----------------------------------------------------------------------------
(* What an input does reaches the pane the user meant: the second chord of *)
(* a sequence acts in the pane where the first was pressed, a menu item on *)
(* the pane of its menu, a clipboard read however late on the pane that    *)
(* asked for it, and nothing is typed into a pane that has gone or whose   *)
(* link is down.  A pending chord has its timeout running; there is never  *)
(* a second drag, nor a drag or a selection behind an open menu, and the   *)
(* menu is of a pane that exists once an Update has begun.                 *)
InputsAimed ==
  /\ u.did.at = u.did.aim
  /\ u.did.kind = "input" => ~u.frozen /\ u.did.at \in u.live
  /\ u.pending => u.gen \in u.timers
  /\ Cardinality(u.drags) <= 1
  /\ u.menu # NoneKey => u.drags = {} /\ u.sel = NoneKey
=============================================================================

------------------------------- MODULE Dialogs ------------------------------
(***************************************************************************)
(* The client's dialogs (internal/tui dialog.go, update.go, migration.go,  *)
(* history.go, whatsnew.go, worktree_close.go, offline.go): one screen at  *)
(* a time, keys that answer it, and messages that arrive under it: plugin  *)
(* errors, broadcasts, late answers, timers, and hosts that must be        *)
(* upgraded.                                                               *)
(***************************************************************************)
EXTENDS Integers, Sequences

CONSTANTS DlgPanes,     \* panes of the active tab
          WtPanes,      \* those whose worktree is theirs to remove
          DlgHosts,     \* hosts that need an install or an upgrade
          MaxPresses,   \* bound: keys pressed
          MaxIntrusions \* bound: plugin errors, broadcasts, link losses

VARIABLES dlg,      \* the Model's dialog fields
          owed,     \* timers, answers and installs to come
          quit,     \* tea.Quit was returned
          asked,    \* history: [toggled, landed] since the confirm opened, and
                    \* whether a lost link closed the palette, or no size came yet
          presses,
          intrusions

dlgVars == <<dlg, owed, quit, asked, presses, intrusions>>

NoDlg == "none"
NoDlgGen == 0
Nothing0 == [cmd |-> "none", id |-> NoDlg, remove |-> FALSE]
Clean == [kind |-> "none", id |-> NoDlg, rows |-> "none", remove |-> FALSE, gen |-> NoDlgGen]

\* NewModel: a migration, the release notes or the disclaimer comes first.
\* SeedOfflineDest has queued the hosts that were found outdated.
DlgInit ==
    /\ \E stale \in {0, 2}, first \in {NoDlg, "whatsNew", "disclaimer"}, q \in {<<>>} \cup {<<h>> : h \in DlgHosts} :
         /\ stale > 0 => first = NoDlg
         /\ dlg = [dialog |-> first, back |-> NoDlg, confirm |-> Clean, gens |-> 0, edit |-> FALSE,
                 editor |-> "none", hist |-> [pane |-> NoDlg, st |-> "none"],
                 stale |-> stale, migrating |-> FALSE,
                 update |-> "none", inFlight |-> FALSE, pending |-> FALSE, first |-> FALSE,
                 queue |-> q, installed |-> {}, upgrading |-> {}, out |-> Nothing0,
                 offline |-> {h \in DlgHosts : q = <<h>>}]
    /\ owed = {} /\ quit = FALSE /\ presses = 0 /\ intrusions = 0
    /\ asked = [toggled |-> FALSE, landed |-> FALSE, free |-> TRUE]
-----------------------------------------------------------------------------
(* Confirms. *)

resetConfirmWorktreesNot(c) == c
resetConfirmWorktrees(c) == [c EXCEPT !.rows = "none", !.remove = FALSE, !.gen = NoDlgGen]

Confirm(m, kind, id) ==
    [m EXCEPT !.dialog = "confirm",
              !.confirm = [resetConfirmWorktrees(@) EXCEPT !.kind = kind, !.id = id]]

\* confirmKillProcess leaves the worktree fields as they are.
confirmKillProcess(m, p) ==
    [m EXCEPT !.dialog = "confirm", !.confirm.kind = "kill", !.confirm.id = p]

\* collectConfirmWorktrees and requestWorktreeStatus: rows only for
\* worktrees of the panes that would close, and a request per opening.
WithWorktrees(m, panes) ==
    IF panes \cap WtPanes = {} THEN m
    ELSE [m EXCEPT !.gens = @ + 1, !.confirm.rows = "asked", !.confirm.gen = m.gens + 1]

openClosePaneConfirm(m, p) == WithWorktrees(Confirm(m, "pane", p), {p})
openCloseTabConfirm(m) == WithWorktrees(Confirm(m, "tab", NoDlg), DlgPanes)
openRestartPaneConfirm(m, p) == Confirm(m, "restart", p)

\* openApplyConfirm never displaces another dialog.
openApplyConfirm(m) == IF m.dialog # NoDlg THEN m ELSE Confirm(m, "apply", NoDlg)
-----------------------------------------------------------------------------
(* Hosts to upgrade. *)

enqueueUpgradePrompt(m, h) ==
    IF h \in m.installed \/ \E i \in DOMAIN m.queue : m.queue[i] = h THEN m
    ELSE [m EXCEPT !.queue = Append(@, h)]

Worth(m, h) == h \notin m.installed /\ h \in m.offline

\* promptNextUpgrade drops hosts that no longer need asking.
promptNextUpgrade(m) ==
    LET due == {i \in DOMAIN m.queue : Worth(m, m.queue[i])}
    IN  IF m.dialog # NoDlg \/ m.queue = <<>> THEN m
        ELSE IF due = {} THEN [m EXCEPT !.queue = <<>>]
        ELSE LET i == CHOOSE j \in due : \A k \in due : j <= k
             IN  Confirm([m EXCEPT !.queue = SubSeq(@, i + 1, Len(@))], "upgrade", m.queue[i])
-----------------------------------------------------------------------------
(* Updates. *)

sendStageUpdateReq(m) == [m EXCEPT !.inFlight = TRUE]

\* handleUpdateAction: one request at a time, and only a staged release is
\* applied by its answer; the confirm it may lead to goes back to About.
handleUpdateAction(m) ==
    LET closed == [m EXCEPT !.dialog = NoDlg, !.back = IF m.dialog = "about" THEN "about" ELSE NoDlg]
        clear == [closed EXCEPT !.pending = FALSE]
    IN  CASE m.inFlight -> closed
          [] ~m.inFlight /\ m.update \in {"none", "available"} -> sendStageUpdateReq(clear)
          [] ~m.inFlight /\ m.update = "manual" -> clear
          [] ~m.inFlight /\ m.update = "staged" -> sendStageUpdateReq([clear EXCEPT !.pending = TRUE])

\* applyStageUpdateResp: success, a failed check, or nothing newer.
applyStageUpdateResp(m, answer) ==
    LET done == [m EXCEPT !.pending = FALSE, !.inFlight = FALSE]
    IN  IF m.pending /\ answer \in {"ok", "unchecked"} THEN openApplyConfirm(done) ELSE done

\* maybeShowUpdateNotice: once per client, at the first local broadcast, over
\* nothing but the disclaimer.
noteWorkspaceState(m, info) ==
    LET told == [m EXCEPT !.update = info, !.first = TRUE]
    IN  IF ~m.first /\ info # "none" /\ m.dialog \in {NoDlg, "disclaimer"}
        THEN [told EXCEPT !.dialog = "updateNotice"] ELSE told

\* openMigrationDialog displaces whatever is shown.
openMigrationDialog(m) == [m EXCEPT !.dialog = "migration", !.migrating = TRUE]
-----------------------------------------------------------------------------
(* Keys.  Each handler returns the ways its keys can go. *)

Send(m, cmd, id, remove) == [m EXCEPT !.out = [cmd |-> cmd, id |-> id, remove |-> remove]]
Closed(m) == [m EXCEPT !.dialog = NoDlg]
To(m, screen) == [m EXCEPT !.dialog = screen]

openHistoryDialog(m, p, supported) ==
    [m EXCEPT !.dialog = "history", !.hist = [pane |-> p, st |-> IF supported THEN "loading" ELSE "none"]]

\* What opens a dialog from the panes: keys, menus and the palette.
OpenKeys(m) ==
    {openClosePaneConfirm(m, p) : p \in DlgPanes} \cup {openRestartPaneConfirm(m, p) : p \in DlgPanes}
    \cup {openCloseTabConfirm(m), To(m, "about"), To(m, "palette"), To(m, "processes"),
          To(m, "createPane"), To(m, "projects"), To(m, "repoPick")}
    \cup {openHistoryDialog(m, p, s) : p \in DlgPanes, s \in BOOLEAN}

\* openLogViewer, openMCPLogsViewer.
openLogViewer(m) == [m EXCEPT !.dialog = "logViewer", !.editor = "log", !.back = "about"]
openReadonlyText(m) == [m EXCEPT !.dialog = "logViewer", !.editor = "log", !.back = "history"]
openWhatsNew(m, ret) == [m EXCEPT !.dialog = "whatsNew", !.back = ret]

handleAboutKey(m) ==
    {Closed(m), To(m, "settings"), To(m, "shortcuts"), To(m, "plugins"), To(m, "processes"),
     openLogViewer(m), openWhatsNew(m, "about"), handleUpdateAction(m), Confirm(m, "shutdown", NoDlg)}

\* Esc leaves an edit before it leaves the dialog.
handleSettingsKey(m) ==
    IF m.edit THEN {[m EXCEPT !.edit = FALSE]}
    ELSE {To(m, "about"), To(m, "notifySettings"), [m EXCEPT !.edit = TRUE]}

handlePluginsKey(m) ==
    {To(m, "about"), [m EXCEPT !.dialog = "tomlEditor", !.editor = "toml"], Send(Closed(m), "reload", NoDlg, FALSE)}
handleTOMLEditorKey(m) ==
    IF m.editor = "none" THEN {To(m, "plugins")}
    ELSE {Send([m EXCEPT !.dialog = "plugins", !.editor = "none"], "reload", NoDlg, FALSE),
          [m EXCEPT !.dialog = "plugins", !.editor = "none"]}
handleLogViewerKey(m) ==
    {[m EXCEPT !.dialog = IF m.back = NoDlg THEN "about" ELSE m.back, !.back = NoDlg, !.editor = "none"]}

handleCommandHistoryKey(m) ==
    {Closed(m)}
    \cup (IF m.hist.st = "timedOut" THEN {Send([m EXCEPT !.hist.st = "loading"], "history", m.hist.pane, FALSE)} ELSE {})
    \cup (IF m.hist.st = "listed" THEN {Send(m, "entry", m.hist.pane, FALSE)} ELSE {})

\* handleMigrationKey: Esc is swallowed; the dialog ends with the last save.
handleMigrationKey(m) ==
    {m} \cup (IF m.stale = 0 THEN {} ELSE
      {IF m.stale > 1 THEN openMigrationDialog([m EXCEPT !.stale = @ - 1])
       ELSE Send([m EXCEPT !.stale = 0, !.migrating = FALSE, !.dialog = NoDlg], "reload", NoDlg, FALSE)})

\* Esc and n.
ConfirmNo(m) ==
    LET c == m.confirm
        kept == [m EXCEPT !.confirm = resetConfirmWorktrees(@)]
    IN  CASE c.kind = "instance" -> To(kept, "createPane")
          [] c.kind = "shutdown" -> To(kept, "about")
          [] c.kind = "kill"     -> To(kept, "processes")
          [] c.kind = "apply"    -> To(kept, m.back)
          [] c.kind = "upgrade"  -> promptNextUpgrade(Closed(kept))
          [] OTHER               -> Closed(kept)

\* Enter and y; some kinds take only y.
ConfirmYes(m, y) ==
    LET c == m.confirm
        kept == [m EXCEPT !.confirm = resetConfirmWorktrees(@)]
    IN  CASE c.kind \in {"shutdown", "kill", "upgrade", "apply"} /\ ~y -> kept
          [] c.kind = "kill" /\ y -> Send(To(kept, "processes"), "kill", c.id, FALSE)
          [] c.kind = "upgrade" /\ y ->
               Send([Closed(kept) EXCEPT !.installed = @ \cup {c.id}, !.upgrading = @ \cup {c.id}],
                    "install", c.id, FALSE)
          [] c.kind = "instance" -> Send(To(kept, "createPane"), "instance", c.id, FALSE)
          [] c.kind = "disconnect" ->
               Send([Closed(kept) EXCEPT !.installed = @ \ {c.id}, !.offline = @ \ {c.id}], "disconnect", c.id, FALSE)
          [] c.kind \in {"pane", "tab"} -> Send(Closed(kept), c.kind, c.id, c.remove)
          [] OTHER -> Send(Closed(kept), c.kind, c.id, FALSE)

handleConfirmKey(m) ==
    {ConfirmNo(m), ConfirmYes(m, TRUE), ConfirmYes(m, FALSE)}
    \cup (IF m.confirm.rows # "none" THEN {[m EXCEPT !.confirm.remove = ~@, !.out.cmd = "toggle"]} ELSE {})

handleNotifySettingsKey(m) == {m, To(m, "settings")}
handleShortcutsKey(m) == {To(m, "about")}
handleUpdateNoticeKey(m) == {Closed(m), handleUpdateAction(m)}
handleWhatsNewKey(m) == {To(m, m.back)}
handleGitRepoPickKey(m) == {Closed(m), Send(Closed(m), "overlay", NoDlg, FALSE)}
handleDisclaimerKey(m) == {Closed(m)}
handlePluginErrorKey(m) == {Closed(m)}

dispatchDialogKey(m) ==
    CASE m.dialog = "about"          -> handleAboutKey(m)
      [] m.dialog = "settings"       -> handleSettingsKey(m)
      [] m.dialog = "notifySettings" -> handleNotifySettingsKey(m)
      [] m.dialog = "shortcuts"      -> handleShortcutsKey(m)
      [] m.dialog = "confirm"        -> handleConfirmKey(m)
      [] m.dialog = "plugins"        -> handlePluginsKey(m)
      [] m.dialog = "tomlEditor"     -> handleTOMLEditorKey(m)
      [] m.dialog = "logViewer"      -> handleLogViewerKey(m)
      [] m.dialog = "history"        -> handleCommandHistoryKey(m)
      [] m.dialog = "migration"      -> handleMigrationKey(m)
      [] m.dialog = "updateNotice"   -> handleUpdateNoticeKey(m)
      [] m.dialog = "whatsNew"       -> handleWhatsNewKey(m)
      [] m.dialog = "processes"      -> {Closed(m)} \cup {confirmKillProcess(m, p) : p \in DlgPanes}
      [] m.dialog = "createPane"     -> {Closed(m), Confirm(m, "instance", NoDlg)}
      [] m.dialog = "projects"       ->
           {Closed(m), Confirm(m, "project", NoDlg)} \cup {Confirm(m, "disconnect", h) : h \in DlgHosts}
      [] m.dialog = "repoPick"       -> handleGitRepoPickKey(m)
      [] m.dialog = "palette"        -> {Closed(m)} \cup OpenKeys(Closed(m))
      [] m.dialog = "disclaimer"     -> handleDisclaimerKey(m)
      [] m.dialog = "pluginError"    -> handlePluginErrorKey(m)

\* handleDialogKey: a dialog that closed makes room for a host's prompt.
handleDialogKeyOnly(m) == dispatchDialogKey(m)
handleDialogKey(m) ==
    {IF n.dialog = NoDlg THEN promptNextUpgrade(n) ELSE n : n \in dispatchDialogKey(m)}

\* The history: a confirm that just opened has not been toggled, and no answer
\* of its own has landed.
Noted(n, landed) ==
    LET still == dlg.dialog = "confirm" /\ n.dialog = "confirm"
    IN  [toggled |-> CASE n.out.cmd = "toggle" -> ~asked.toggled
                       [] n.out.cmd # "toggle" /\ still -> asked.toggled
                       [] OTHER -> FALSE,
         landed |-> landed \/ (still /\ asked.landed),
         free |-> n.dialog = NoDlg /\ asked.free]

\* Commands and the messages they bring back.
Owed(msg, of, gen) == [msg |-> msg, of |-> of, gen |-> gen]
Brings(m) ==
    (IF m.hist.st = "loading" /\ dlg.hist # m.hist
     THEN {Owed("list", m.hist.pane, 0), Owed("histTimer", m.hist.pane, 0)} ELSE {})
    \cup (IF m.out.cmd = "entry" THEN {Owed("entry", m.hist.pane, 0)} ELSE {})
    \cup (IF m.out.cmd = "install" THEN {Owed("installed", m.out.id, 0)} ELSE {})
    \cup (IF m.inFlight /\ ~dlg.inFlight THEN {Owed("staged", NoDlg, 0)} ELSE {})
    \cup (IF m.gens # dlg.gens THEN {Owed("status", NoDlg, m.gens), Owed("statusTimer", NoDlg, m.gens)} ELSE {})

Become(m, landed) ==
    /\ dlg' = m
    /\ asked' = Noted(m, landed)

\* What a key or a message starts from: the last command has left.
Idle0 == [dlg EXCEPT !.out = Nothing0]

PressInDialog ==
    /\ presses < MaxPresses /\ presses' = presses + 1
    /\ \E m \in (IF dlg.dialog = NoDlg THEN OpenKeys(Idle0) ELSE handleDialogKey(Idle0)) :
         /\ Become(m, FALSE) /\ owed' = owed \cup Brings(m)
         /\ quit' = (m.out.cmd \in {"shutdown", "apply"})
    /\ UNCHANGED intrusions
-----------------------------------------------------------------------------
(* Messages. *)

Intrudes(m) ==
    /\ intrusions < MaxIntrusions /\ intrusions' = intrusions + 1
    /\ Become(m, FALSE) /\ UNCHANGED <<owed, quit, presses>>
Lands(o, m, more) ==
    /\ Become(m, o.msg \in {"status", "statusTimer"} /\ o.gen = dlg.gens)
    /\ owed' = (owed \ {o}) \cup Brings(m) \cup more
    /\ UNCHANGED <<quit, presses, intrusions>>

\* PluginErrorMsg takes the screen.
PluginError == Intrudes(To(Idle0, "pluginError"))

\* The first WindowSizeMsg, and every later one.
WindowSized ==
    /\ intrusions < MaxIntrusions /\ intrusions' = intrusions + 1
    /\ dlg' = promptNextUpgrade(Idle0) /\ asked' = [Noted(dlg', FALSE) EXCEPT !.free = FALSE]
    /\ UNCHANGED <<owed, quit, presses>>

\* WorkspaceStateMsg: the notice, then a waiting migration.
StateArrives ==
    \E info \in {"none", "available", "staged", "manual"} :
      LET m == noteWorkspaceState(Idle0, info)
      IN  Intrudes(IF m.stale > 0 /\ ~m.migrating THEN openMigrationDialog(m) ELSE m)

\* handleLinkLost closes the palette, and nothing else.
PaletteCloses ==
    /\ dlg.dialog = "palette"
    /\ intrusions < MaxIntrusions /\ intrusions' = intrusions + 1
    /\ dlg' = Closed(Idle0) /\ asked' = [asked EXCEPT !.free = TRUE]
    /\ UNCHANGED <<owed, quit, presses>>

\* A redial that met an older daemon, for a host that has a project here.
Outdated(m, h) == promptNextUpgrade(enqueueUpgradePrompt(m, h))
HostOutdated(h) == Intrudes(Outdated([Idle0 EXCEPT !.offline = @ \cup {h}], h))
\* The host comes back by itself; retryOfflineDest re-arms the offer.
HostBack(h) == h \in dlg.offline /\ Intrudes([Idle0 EXCEPT !.offline = @ \ {h}])
retryOfflineDest(h) == h \in dlg.offline /\ dlg.dialog = NoDlg /\ Intrudes([Idle0 EXCEPT !.installed = @ \ {h}])

\* applyWorktreeStatus and applyWorktreeStatusTimeout.
applyWorktreeStatusAny(m, gen) == [m EXCEPT !.confirm.gen = NoDlgGen, !.confirm.rows = "loaded"]
applyWorktreeStatus(m, gen) ==
    IF m.confirm.gen = NoDlgGen \/ gen # m.confirm.gen THEN m
    ELSE [m EXCEPT !.confirm.gen = NoDlgGen, !.confirm.rows = "loaded"]

applyHistoryList(m, p) == IF p # m.hist.pane THEN m ELSE [m EXCEPT !.hist.st = "listed"]
applyHistoryTimeout(m, p) ==
    IF m.dialog # "history" \/ p # m.hist.pane \/ m.hist.st # "loading" THEN m
    ELSE [m EXCEPT !.hist.st = "timedOut"]

\* An entry opens only over the list it was chosen from; one that is gone
\* has the list asked for again.
HistoryEntry(m, p, found) ==
    IF p # m.hist.pane \/ m.dialog # "history" THEN m
    ELSE IF found THEN openReadonlyText(m) ELSE [m EXCEPT !.hist.st = "loading"]

\* finishDestUpgrade: a host that is still offline is dialled again, unless
\* the push failed.
finishDestUpgrade(h, ok) ==
    IF h \in dlg.upgrading /\ h \in dlg.offline /\ ok THEN {Owed("redial", h, 0)} ELSE {}

MessageLands(o) ==
    \/ o.msg \in {"status", "statusTimer"} /\ Lands(o, applyWorktreeStatus(Idle0, o.gen), {})
    \/ o.msg = "list" /\ Lands(o, applyHistoryList(Idle0, o.of), {})
    \/ o.msg = "histTimer" /\ Lands(o, applyHistoryTimeout(Idle0, o.of), {})
    \/ o.msg = "entry" /\ \E found \in BOOLEAN : Lands(o, HistoryEntry(Idle0, o.of, found), {})
    \/ o.msg = "staged" /\ \E a \in {"ok", "unchecked", "none"} : Lands(o, applyStageUpdateResp(Idle0, a), {})
    \/ o.msg = "installed" /\ \E ok \in BOOLEAN :
         Lands(o, [Idle0 EXCEPT !.upgrading = @ \ {o.of}], finishDestUpgrade(o.of, ok))
    \/ o.msg = "redial" /\ \E m \in {Outdated(Idle0, o.of), [Idle0 EXCEPT !.offline = @ \ {o.of}]} : Lands(o, m, {})

DlgNext ==
    /\ ~quit
    /\ \/ PressInDialog
       \/ PluginError \/ WindowSized \/ StateArrives \/ PaletteCloses
       \/ \E h \in DlgHosts : HostOutdated(h) \/ HostBack(h) \/ retryOfflineDest(h)
       \/ \E o \in owed : MessageLands(o)

DlgSpec == DlgInit /\ [][DlgNext]_dlgVars
-----------------------------------------------------------------------------
\* What a confirm shows about worktrees came with its own answer or timer,
\* and the removal it would send is what its toggle keys chose.
ConfirmIsItsOwn ==
    dlg.dialog = "confirm" =>
      /\ dlg.confirm.kind \in {"pane", "tab"} => dlg.confirm.remove = asked.toggled
      /\ dlg.confirm.rows = "loaded" /\ dlg.confirm.kind # "kill" => asked.landed

\* A host that needs installing is asked about: no offer waits behind an empty
\* screen, save before the first window size and after a lost link closed the
\* palette; and a host the user accepted is not asked about again until they
\* retry or disconnect it.
OffersAreMade ==
    /\ dlg.dialog = NoDlg /\ ~asked.free => \A i \in DOMAIN dlg.queue : ~Worth(dlg, dlg.queue[i])
    /\ dlg.dialog = "confirm" /\ dlg.confirm.kind = "upgrade" => dlg.confirm.id \notin dlg.installed

\* The dialogs (dialog.go handleConfirmKey, worktree_close.go, offline.go): a
\* confirm speaks of and sends what it was opened for, however many dialogs,
\* errors and late answers came before it, and every waiting host is offered.
DialogsSound == ConfirmIsItsOwn /\ OffersAreMade
=============================================================================

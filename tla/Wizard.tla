------------------------------- MODULE Wizard -------------------------------
(***************************************************************************)
(* The TUI's create-pane dialog (internal/tui/dialog.go, sessions.go and   *)
(* the *_client.go files): choose a plugin, fill in its setup page, say    *)
(* where the pane goes.  Everything the page lists (directories,           *)
(* repositories, recent directories, kube contexts, worktrees, sessions)   *)
(* is asked of a daemon and arrives later: after its timer, after the user *)
(* has moved to another directory, or after the dialog has gone.           *)
(***************************************************************************)
EXTENDS Naturals, Sequences, FiniteSets

CONSTANTS
  Dirs,      \* directories a daemon can list
  Here,      \* the directory of the active pane
  Home,      \* what "~" lists
  NoDir,     \* no directory, no session, no request
  MaxListings    \* bound: requests sent

Plugins == {"plain", "agent", "git", "kube", "form"}

VARIABLES
  w,        \* the dialog's fields, a record
  wizWire,     \* requests a daemon has not answered
  clocks,   \* running timers of those requests
  made      \* the create request the last step sent, or NoDir

wizVars == <<w, wizWire, clocks, made>>

WizQuiet == [gen |-> 0, of |-> NoDir, st |-> "idle"]

WizInit ==
  /\ w = [dlg |-> "none", target |-> "split",
          plug |-> "plain", cur |-> NoDir, pick |-> {}, selCWD |-> NoDir, cands |-> <<>>,
          focus |-> "cwd", wt |-> FALSE, branch |-> "none", sbx |-> "off", ctx |-> FALSE, args |-> 0,
          scan |-> [k \in {"browse", "repo", "recent", "kube", "trees"} |-> WizQuiet],
          sess |-> [of |-> NoDir, st |-> "idle"], sid |-> NoDir,
          last |-> NoDir, recent |-> {}, gen |-> 0, asked |-> {}]
  /\ wizWire = {} /\ clocks = {} /\ made = NoDir

----------------------------------------------------------------------------
(* What the plugins ask for (plugin.PanePlugin.Command).                   *)
PromptsCWD(p) == p \in {"agent", "git"}
needsSetup(p) == PromptsCWD(p) \/ p = "kube"

(* A worktree chosen under directory d is a directory of its own.          *)
setupSpawnDir(s) == IF s.wt THEN <<"worktree", s.cur>> ELSE s.cur

(* Every request is stamped with a fresh generation, and a timer runs      *)
(* beside it.  s.asked collects the requests of one step.                  *)
WizAsk(s, kind, dir) ==
  [s EXCEPT !.gen = @ + 1, !.scan[kind] = [gen |-> s.gen + 1, of |-> dir, st |-> "pending"],
            !.asked = @ \cup {[kind |-> kind, of |-> dir, gen |-> s.gen + 1]}]

onSetupCWDChanged(s, dir) ==
  [s EXCEPT !.cur = dir, !.wt = FALSE, !.branch = "none", !.scan["trees"] = WizQuiet]

resetSessionSelection(s) == [s EXCEPT !.sess = [of |-> NoDir, st |-> "idle"], !.sid = NoDir]

nextBrowseCandidate(s) ==
  LET rest == SelectSeq(s.cands, LAMBDA d : d # NoDir)
  IN IF rest = <<>> THEN [s EXCEPT !.cands = <<>>]
     ELSE WizAsk([s EXCEPT !.cands = Tail(rest)], "browse", Head(rest))

dedupeAdjacent(q) ==
  IF Len(q) > 1 /\ q[1] = q[2] THEN Tail(q) ELSE q

initSetupBrowser(s) ==
  nextBrowseCandidate([s EXCEPT !.cands = dedupeAdjacent(<<s.last, Here, Home>>)])

fallbackToRecentOrBrowser(s) ==
  IF s.recent # {} THEN WizAsk(s, "recent", NoDir) ELSE initSetupBrowser(s)

sandboxSpec(s) == s.sbx = "on"

(* The request leaves, the page's choices are read before they are reset.  *)
(* A new branch whose repository is not known yet is refused; the sandbox  *)
(* row is not among the fields reset here.                                 *)
handleCreatePaneSplit(s) ==
  LET root == IF s.scan["trees"].st = "loaded" THEN s.scan["trees"].of ELSE NoDir
      req == [plug |-> s.plug, cwd |-> s.selCWD, sid |-> s.sid, sandbox |-> sandboxSpec(s),
              branch |-> s.branch # "none", root |-> root, args |-> s.args]
      refused == req.branch /\ root = NoDir
      s1 == [s EXCEPT !.dlg = "none", !.selCWD = NoDir, !.cur = NoDir, !.wt = FALSE, !.branch = "none",
                      !.scan["trees"] = WizQuiet,
                      !.last = IF s.selCWD \in Dirs THEN s.selCWD ELSE @,
                      !.recent = IF s.selCWD \in Dirs THEN @ \cup {s.selCWD} ELSE @]
  IN [s |-> resetSessionSelection(s1), req |-> IF refused THEN NoDir ELSE req]

Goes(s) == [s |-> s, req |-> NoDir]

advanceFromPluginChoice(s) ==
  IF s.target = "tab" THEN handleCreatePaneSplit(s) ELSE Goes([s EXCEPT !.dlg = "split"])

(* The way into the setup page clears the page; the sandbox row only when  *)
(* the plugin has such a page.                                             *)
enterSetupOrSplit(s) ==
  LET s1 == resetSessionSelection(onSetupCWDChanged(
              [s EXCEPT !.selCWD = NoDir, !.pick = {}, !.cands = <<>>, !.ctx = FALSE, !.focus = "cwd",
                        !.scan = [k \in DOMAIN s.scan |-> WizQuiet]], NoDir))
      s2 == [s1 EXCEPT !.sbx = "off", !.dlg = "setup"]
      s3 == IF s.plug = "git" THEN WizAsk(s2, "repo", Here)
            ELSE IF PromptsCWD(s.plug) THEN fallbackToRecentOrBrowser(s2)
            ELSE WizAsk(s2, "kube", NoDir)
  IN IF ~needsSetup(s.plug) THEN advanceFromPluginChoice(s1) ELSE Goes(s3)

(* Taking the result of a handler: requests go out, timers start.          *)
Take(r) ==
  /\ w' = [r.s EXCEPT !.asked = {}]
  /\ wizWire' = wizWire \cup r.s.asked
  /\ clocks' = clocks \cup r.s.asked
  /\ made' = r.req

WizKey(r) == w.gen < MaxListings /\ Take(r)

----------------------------------------------------------------------------
(* Keys outside the setup page.                                            *)
openCreatePaneDialogFor(target) ==
  /\ w.dlg = "none"
  /\ WizKey(Goes([w EXCEPT !.dlg = "plugins", !.target = target]))

handleCreatePaneSelect(p) ==
  /\ w.dlg = "plugins"
  /\ LET s == [w EXCEPT !.plug = p, !.args = 0]
     IN WizKey(IF p = "form" THEN Goes([s EXCEPT !.dlg = "form"]) ELSE enterSetupOrSplit(s))

submitInstanceForm ==
  /\ w.dlg = "form"
  /\ WizKey(enterSetupOrSplit([w EXCEPT !.args = 0]))

handleCreatePaneKeyEsc ==
  /\ w.dlg \in {"plugins", "form", "split"}
  /\ WizKey(Goes([w EXCEPT !.dlg = CASE w.dlg = "plugins" -> "none"
                                  [] w.dlg = "form" -> "plugins"
                                  [] OTHER -> IF w.plug = "form" THEN "form" ELSE "plugins"]))

SplitHere ==
  /\ w.dlg = "split"
  /\ WizKey(handleCreatePaneSplit(w))

----------------------------------------------------------------------------
(* Keys of the setup page.                                                 *)
InSetup == w.dlg = "setup"

SetupEsc ==
  /\ InSetup
  /\ WizKey(Goes([w EXCEPT !.dlg = "plugins"]))

ensureSessionScan(s) ==
  LET dir == setupSpawnDir(s) IN
  IF dir = NoDir THEN [s EXCEPT !.sess.st = "idle"]
  ELSE IF s.sess.of = dir /\ s.sess.st \in {"scanning", "ready"} THEN s
  ELSE [s EXCEPT !.sess = [of |-> dir, st |-> "scanning"], !.sid = NoDir, !.gen = @ + 1,
                 !.asked = @ \cup {[kind |-> "sess", of |-> dir, gen |-> 0]}]

requestWorktrees(s) ==
  LET t == s.scan["trees"] IN
  IF s.cur = NoDir \/ t.st = "pending" \/ (t.st \in {"loaded", "norepo"} /\ t.of = s.cur) THEN s
  ELSE WizAsk(s, "trees", s.cur)

(* Moving the cursor onto a field; the session row is hidden while the     *)
(* sandbox row is on.                                                      *)
moveSetupCursor(f) ==
  /\ InSetup /\ w.focus # f
  /\ IF PromptsCWD(w.plug) THEN f = "session" => w.plug = "agent" /\ w.sbx = "off"
                           ELSE f = "continue"
  /\ LET s == [w EXCEPT !.focus = f]
     IN WizKey(Goes(CASE f = "session" -> ensureSessionScan(s)
                   [] f = "worktree" -> requestWorktrees(s)
                   [] OTHER -> s))

(* Enter on a listed directory, a pasted path, or the parent.              *)
browseTo(dir) ==
  /\ InSetup /\ w.focus = "cwd" /\ PromptsCWD(w.plug) /\ w.pick = {}
  /\ WizKey(Goes(WizAsk([w EXCEPT !.cands = <<>>], "browse", dir)))

showRootsList ==
  /\ InSetup /\ w.focus = "cwd" /\ w.pick = {} /\ w.cur # NoDir
  /\ WizKey(Goes(onSetupCWDChanged(w, NoDir)))

handleSetupPickKey ==
  /\ InSetup /\ w.focus = "cwd" /\ w.pick # {}
  /\ \/ \E dir \in w.pick \ {w.cur} : WizKey(Goes(onSetupCWDChanged(w, dir)))
     \/ WizKey(Goes(initSetupBrowser(onSetupCWDChanged([w EXCEPT !.pick = {}], NoDir))))

handleSetupKubeKey ==
  /\ InSetup /\ w.plug = "kube" /\ w.scan["kube"].st = "loaded" /\ ~w.ctx
  /\ WizKey(Goes([w EXCEPT !.ctx = TRUE]))

worktreeFieldInteractive == w.scan["trees"].st = "loaded"

(* The worktree row: off, an existing worktree, or a new branch, typed and *)
(* possibly one that exists already.                                       *)
handleSetupWorktreeKey ==
  /\ InSetup /\ w.focus = "worktree" /\ worktreeFieldInteractive
  /\ \E wt \in BOOLEAN, branch \in {"none", "fresh", "taken"} :
       /\ wt => branch = "none"
       /\ <<wt, branch>> # <<w.wt, w.branch>>
       /\ WizKey(Goes([w EXCEPT !.wt = wt, !.branch = branch, !.sid = NoDir]))

editSandboxRow ==
  /\ InSetup /\ w.focus = "sandbox"
  /\ \E v \in {"off", "on", "noimage"} \ {w.sbx} : WizKey(Goes([w EXCEPT !.sbx = v]))

(* Without the last check a session listed for another directory goes out. *)
submitKeepsSession(s) ==
  LET s1 == IF PromptsCWD(s.plug) THEN [s EXCEPT !.selCWD = setupSpawnDir(s)] ELSE s
      s3 == IF s.ctx THEN [s1 EXCEPT !.args = @ + 1] ELSE s1
  IN IF s.branch = "taken" THEN Goes(s1)
     ELSE IF s.sbx = "noimage" THEN Goes([s1 EXCEPT !.focus = "sandbox"])
     ELSE advanceFromPluginChoice(s3)

submitSetupDialog(s) ==
  LET s1 == IF PromptsCWD(s.plug) THEN [s EXCEPT !.selCWD = setupSpawnDir(s)] ELSE s
      s2 == IF s.sess.of # setupSpawnDir(s) THEN [s1 EXCEPT !.sid = NoDir] ELSE s1
      s3 == IF s.ctx THEN [s2 EXCEPT !.args = @ + 1] ELSE s2
  IN IF s.branch = "taken" THEN Goes(s1)
     ELSE IF s.sbx = "noimage" THEN Goes([s1 EXCEPT !.focus = "sandbox"])
     ELSE advanceFromPluginChoice(s3)

SubmitKey ==
  /\ InSetup /\ w.focus # "session"
  /\ WizKey(submitSetupDialog(w))

(* Enter on the session list commits the row and submits.                  *)
handleSetupSessionKey ==
  /\ InSetup /\ w.focus = "session"
  /\ \E row \in {NoDir} \cup (IF w.sess.st = "ready" THEN {w.sess.of} ELSE {}) :
       WizKey(submitSetupDialog([w EXCEPT !.sid = row]))

----------------------------------------------------------------------------
(* Answers.  A daemon answers in any order, or never.                      *)
Current(a) == w.scan[a.kind].gen = a.gen

applyBrowseDir(ok, a) ==
  LET s1 == [w EXCEPT !.scan["browse"].st = IF ok THEN "loaded" ELSE "failed"]
      s2 == [s1 EXCEPT !.cands = <<>>, !.cur = a.of]
      failed == [s1 EXCEPT !.last = IF w.last = a.of THEN NoDir ELSE @]
  IN IF ok THEN IF InSetup THEN onSetupCWDChanged(s2, a.of) ELSE s2
     ELSE IF w.cands = <<>> THEN s1 ELSE nextBrowseCandidate(failed)

applyGitRepos(ok, a) ==
  LET s1 == [w EXCEPT !.scan["repo"] = WizQuiet] IN
  IF ~InSetup THEN s1
  ELSE IF ok THEN onSetupCWDChanged([s1 EXCEPT !.pick = Dirs], a.of)
  ELSE fallbackToRecentOrBrowser(s1)

applyExistingDirs(ok) ==
  LET s1 == [w EXCEPT !.scan["recent"] = WizQuiet] IN
  IF ~InSetup THEN s1
  ELSE IF ok THEN onSetupCWDChanged([s1 EXCEPT !.pick = w.recent], CHOOSE d \in w.recent : TRUE)
  ELSE initSetupBrowser(s1)

applyKubeContexts(ok) ==
  IF InSetup THEN [w EXCEPT !.scan["kube"].st = IF ok THEN "loaded" ELSE "failed", !.ctx = FALSE] ELSE w

applyWorktreeList(ok) ==
  IF w.scan["trees"].st # "pending" THEN w
  ELSE [w EXCEPT !.scan["trees"].st = IF ok THEN "loaded" ELSE "norepo"]

applyClaudeSessions(ok, a) ==
  IF w.sess.of # a.of THEN w
  ELSE [w EXCEPT !.sess.st = IF ok THEN "ready" ELSE "failed"]

Answered(a, ok) ==
  IF a.kind = "sess" THEN applyClaudeSessions(ok, a)
  ELSE IF ~Current(a) THEN w
  ELSE CASE a.kind = "browse" -> applyBrowseDir(ok, a)
         [] a.kind = "repo" -> applyGitRepos(ok, a)
         [] a.kind = "recent" -> applyExistingDirs(ok)
         [] a.kind = "kube" -> applyKubeContexts(ok)
         [] OTHER -> applyWorktreeList(ok)

Answer(a, ok) ==
  LET s == Answered(a, ok) IN
  /\ w' = [s EXCEPT !.asked = {}]
  /\ wizWire' = (wizWire \ {a}) \cup s.asked
  /\ clocks' = clocks \cup s.asked
  /\ made' = NoDir

(* Timers.  A timer that finds its scan answered or replaced does nothing. *)
TimedOut(a) ==
  IF a.kind = "sess" THEN
    IF w.sess = [of |-> a.of, st |-> "scanning"] THEN [w EXCEPT !.sess.st = "timedOut"] ELSE w
  ELSE IF ~Current(a) \/ w.scan[a.kind].st # "pending" THEN w
  ELSE CASE a.kind = "browse" -> [w EXCEPT !.scan["browse"].st = "failed"]
         [] a.kind = "repo" -> [w EXCEPT !.scan["repo"] = WizQuiet]
         [] a.kind = "recent" ->
              LET s == [w EXCEPT !.scan["recent"] = WizQuiet] IN IF InSetup THEN initSetupBrowser(s) ELSE s
         [] a.kind = "kube" -> IF InSetup THEN [w EXCEPT !.scan["kube"].st = "failed"] ELSE w
         [] OTHER -> [w EXCEPT !.scan["trees"].st = "failed"]

Timeout(a) ==
  LET s == TimedOut(a) IN
  /\ w' = [s EXCEPT !.asked = {}]
  /\ clocks' = (clocks \ {a}) \cup s.asked
  /\ wizWire' = wizWire \cup s.asked
  /\ made' = NoDir

WizNext ==
  \/ \E t \in {"split", "tab"} : openCreatePaneDialogFor(t)
  \/ \E p \in Plugins : handleCreatePaneSelect(p)
  \/ submitInstanceForm \/ handleCreatePaneKeyEsc \/ SplitHere \/ SetupEsc
  \/ \E f \in {"cwd", "worktree", "sandbox", "session", "continue"} : moveSetupCursor(f)
  \/ \E d \in Dirs : browseTo(d)
  \/ showRootsList \/ handleSetupPickKey \/ handleSetupKubeKey \/ handleSetupWorktreeKey
  \/ editSandboxRow \/ SubmitKey \/ handleSetupSessionKey
  \/ \E a \in wizWire, ok \in BOOLEAN : Answer(a, ok)
  \/ \E a \in clocks : Timeout(a)

WizSpec == WizInit /\ [][WizNext]_wizVars

----------------------------------------------------------------------------
(* What leaves the dialog is what it showed: a resumed session was listed  *)
(* for the very directory the pane is created in (or in which its new      *)
(* branch is cut), a new branch is cut in the repository of that           *)
(* directory, the setup's arguments are passed once; and no list stays     *)
(* "Scanning" without an answer or a timer still to come.                  *)
AskedAsShown ==
  /\ made # NoDir =>
       /\ made.sid # NoDir => made.sid = made.cwd
       /\ made.branch => made.root = made.cwd
       /\ made.args <= 1
  /\ \A k \in {"browse", "repo", "recent", "trees"} :
       w.scan[k].st = "pending" => \E a \in clocks : a.kind = k /\ a.gen = w.scan[k].gen
  /\ w.sess.st = "scanning" => \E a \in clocks : a.kind = "sess" /\ a.of = w.sess.of

(* "A flag surviving one of them would put the next plain create in a      *)
(* container" (dialog.go): a pane of a plugin that shows no sandbox row is *)
(* never created with a sandbox.                                           *)
SandboxOnlyIfOffered ==
  made # NoDir => (made.sandbox => PromptsCWD(made.plug))
=============================================================================

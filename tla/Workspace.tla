----------------------------- MODULE Workspace -----------------------------
(***************************************************************************)
(* The daemon's request handlers over the session manager                  *)
(* (internal/daemon/daemon.go, create_req.go, worktree_add.go, overlay.go).*)
(* A worker is a goroutine serving one request: a connection's dispatch    *)
(* goroutine, a worktree worker, a pane's exit callback or the idle sweep. *)
(* Handlers hold no lock of their own, so every call into the session      *)
(* manager is a step and the steps of two handlers interleave.  Process    *)
(* spawning, artifacts on disk and replies are left out; a failed spawn    *)
(* matters only where the handler then removes the pane.                   *)
(***************************************************************************)
EXTENDS Session

CONSTANTS Workers,       \* goroutines serving requests
          Mixes,         \* what a behaviour may see: [ops, left, width], the kinds of
                         \* request, how many arrive, how many are served at once
          MaxLive        \* overlayPolicy().MaxLive, 0 for no cap

ASSUME WorkspaceAssumption == MaxLive \in Nat /\ IsFiniteSet(Workers)

VARIABLES work,   \* work[w]: where worker w stands and what it remembers
          mix     \* the member of Mixes chosen, left the requests still to come

wvars == <<session, work, mix>>

Ops == mix.ops

Idle == [pc |-> "idle", tab |-> None, proj |-> None, pane |-> None, kind |-> "plain", todo |-> {}]

Kinds == {"plain", "badImage", "worktree", "overlay"}

\* Identifiers are random in the code, so a new one is neither live nor
\* remembered by any worker.
FreeTabs == Tabs \ (Live(tabs) \cup {work[w].tab : w \in Workers})
FreePanes == (Panes \ Live(panes))
             \ ({work[w].pane : w \in Workers} \cup UNION {work[w].todo : w \in Workers})
FreeProjs == Projects \ (Live(projects) \cup {work[w].proj : w \in Workers})

NewTab == CHOOSE t \in FreeTabs : TRUE
NewPane == CHOOSE q \in FreePanes : TRUE
NewProj == CHOOSE p \in FreeProjs : TRUE

\* Bound: a behaviour goes no further than the identifiers do.
IdsLeft == FreeTabs # {} /\ FreePanes # {} /\ FreeProjs # {}

\* Worker w goes on at label pc with the given changes to what it remembers.
Go(w, pc, mem) ==
    work' = [work EXCEPT ![w] = [f \in DOMAIN work[w] |-> IF f = "pc" THEN pc
                                                          ELSE IF f \in DOMAIN mem THEN mem[f]
                                                          ELSE work[w][f]]]

Finish(w) == work' = [work EXCEPT ![w] = Idle]

At(w, pc) == work[w].pc = pc /\ UNCHANGED mix

\* Request op reaches an idle worker.
Take(w, op) ==
    /\ work[w].pc = "idle"
    /\ op \in Ops
    /\ mix.left > 0
    /\ Cardinality({v \in Workers : work[v].pc # "idle"}) < mix.width
    /\ mix' = [mix EXCEPT !.left = @ - 1]

Normal(t) == {q \in Live(panes) : panes[q].tab = t /\ ~panes[q].overlay}

Overlays == {q \in Live(panes) : panes[q].overlay}
-----------------------------------------------------------------------------
(* Creating a tab and its first pane. *)

\* handleCreateTab: CreateTabInProject, SwitchTab, then the first pane.
HandleCreateTab(w, p, kind) ==
    /\ Take(w, "createTab")
    /\ kind \in {"plain"} \cup (Ops \cap {"badImage", "worktree"})
    /\ CreateTab(p, NewTab, NewProj)
    /\ Go(w, "switchNew", [tab |-> NewTab, kind |-> kind])

SwitchNew(w) ==
    LET t == work[w].tab
    IN  /\ At(w, "switchNew")
        /\ IF t \in Live(tabs) THEN SwitchTab(t) ELSE UNCHANGED session
        /\ Go(w, "firstPane", [proj |-> None])

\* handleCreateTabReq: no switch, and a pane that could not be built is
\* repaired by ensureTabNotEmpty.
HandleCreateTabReq(w, p, kind) ==
    /\ Take(w, "createTabReq")
    /\ kind \in {"plain", "badImage"} \cup (Ops \cap {"worktree"})
    /\ p \in Live(projects) \cup {None}
    /\ CreateTab(p, NewTab, NewProj)
    /\ Go(w, "firstPaneReq", [tab |-> NewTab, kind |-> kind])

\* constructPaneAt, or constructPreparingPane for a worktree.  The image is
\* validated only after CreatePane has published the pane.
FirstPane(w) ==
    LET m == work[w]
    IN  /\ At(w, "firstPane")
        /\ IF m.tab \in Live(tabs)
           THEN /\ CreatePane(m.tab, NewPane)
                /\ CASE m.kind = "badImage" -> Go(w, "reject", [pane |-> NewPane])
                     [] m.kind = "worktree" -> Go(w, "addTree", [pane |-> NewPane])
                     [] OTHER -> Finish(w)
           ELSE UNCHANGED session /\ Finish(w)

FirstPaneReq(w) ==
    LET m == work[w]
    IN  /\ At(w, "firstPaneReq")
        /\ IF m.tab \in Live(tabs)
           THEN /\ CreatePane(m.tab, NewPane)
                /\ CASE m.kind = "badImage" -> Go(w, "rejectReq", [pane |-> NewPane])
                     [] m.kind = "worktree" -> Go(w, "addTree", [pane |-> NewPane])
                     [] OTHER -> Finish(w)
           ELSE UNCHANGED session /\ Go(w, "ensure", [pane |-> None])

\* DestroyPane's "pane not found" is ignored by every handler below.
Discard(q) == IF q \in Live(panes) THEN DestroyPane(q) ELSE UNCHANGED session

Reject(w) == At(w, "reject") /\ Discard(work[w].pane) /\ Finish(w)

RejectReq(w) == At(w, "rejectReq") /\ Discard(work[w].pane) /\ Go(w, "ensure", [pane |-> None])

\* handleAttach creates the default workspace when there are no tabs.  It
\* drops CreatePane's error and dereferences the pane: a tab closed in
\* between is a panic.
HandleAttach(w) ==
    /\ Take(w, "attach")
    /\ tabs = <<>>
    /\ Go(w, "attachTab", [proj |-> None])
    /\ UNCHANGED session

AttachTab(w) ==
    /\ At(w, "attachTab")
    /\ CreateTab(None, NewTab, NewProj)
    /\ Go(w, "attachPane", [tab |-> NewTab])

AttachPane(w) ==
    /\ At(w, "attachPane")
    /\ IF work[w].tab \in Live(tabs)
       THEN CreatePane(work[w].tab, NewPane) /\ Finish(w)
       ELSE Go(w, "panic", [pane |-> None]) /\ UNCHANGED session
-----------------------------------------------------------------------------
(* Panes. *)

\* handleCreatePane and createPaneAt.  "badImage" also stands for a pane made
\* in a worktree whose spawn fails: createPaneInWorktree removes it again.
HandleCreatePane(w, t, kind) ==
    /\ Take(w, "createPane")
    /\ kind \in {"plain"} \cup (Ops \cap {"badImage", "overlay"})
    /\ CreatePane(t, NewPane)
    /\ CASE kind = "badImage" -> Go(w, "reject", [pane |-> NewPane])
         [] kind = "overlay" -> Go(w, "flag", [pane |-> NewPane])
         [] OTHER -> Finish(w)

\* The overlay flag is set after CreatePane has published the pane.
Flag(w) ==
    /\ At(w, "flag")
    /\ IF work[w].pane \in Live(panes) THEN SetOverlay(work[w].pane) ELSE UNCHANGED session
    /\ Go(w, "cap", [tab |-> None])

\* Mutant of Keep: the overlay being admitted is not counted.
KeepAll == MaxLive

\* How many other overlays enforceOverlayCap leaves.
Keep == MaxLive - 1

\* enforceOverlayCap(exclude): the least recently shown overlays beyond the
\* cap.  Any of them may be the least recent ones.
EnforceOverlayCap(w) ==
    LET others == Overlays \ {work[w].pane}
        excess == IF MaxLive > 0 /\ Cardinality(others) > Keep
                  THEN Cardinality(others) - Keep ELSE 0
    IN  /\ At(w, "cap")
        /\ \E victims \in SUBSET others :
              /\ Cardinality(victims) = excess
              /\ Go(w, "evict", [pane |-> None, todo |-> victims])
        /\ UNCHANGED session

\* sweepIdleOverlays: any overlays may have been hidden for long enough.
SweepIdleOverlays(w) ==
    /\ Take(w, "sweep")
    /\ \E expired \in SUBSET Overlays :
          expired # {} /\ Go(w, "evict", [todo |-> expired])
    /\ UNCHANGED session

\* One turn of the loop over destroyOverlay.
Evict(w) ==
    /\ At(w, "evict")
    /\ IF work[w].todo = {}
       THEN Finish(w) /\ UNCHANGED session
       ELSE \E q \in work[w].todo : Discard(q) /\ Go(w, "evict", [todo |-> work[w].todo \ {q}])

\* onPaneExitGeneration: an overlay whose program ends is destroyed.
OnOverlayExit(w, q) ==
    /\ Take(w, "paneExit")
    /\ q \in Overlays
    /\ DestroyPane(q)
    /\ Go(w, "ensure", [tab |-> panes[q].tab])

\* handleDestroyPane and handleDestroyPaneReq: the pane's tab is read first.
HandleDestroyPane(w, q) ==
    /\ Take(w, "destroyPane")
    /\ q \in Live(panes)
    /\ Go(w, "destroyPane", [pane |-> q, tab |-> panes[q].tab])
    /\ UNCHANGED session

\* The request form returns when DestroyPane fails, the other form goes on.
DestroyThePane(w) ==
    LET q == work[w].pane
    IN  /\ At(w, "destroyPane")
        /\ Discard(q)
        /\ \/ Go(w, "ensure", [pane |-> None])
           \/ q \notin Live(panes) /\ Finish(w)

\* Mutant of Lacking: any pane counts, an overlay too.
LackingAny(t) == \A q \in Live(panes) : panes[q].tab # t

\* No pane a user can see is left in the tab.
Lacking(t) == Normal(t) = {}

\* ensureTabNotEmpty: nothing to do while a normal pane is listed.
EnsureTabNotEmpty(w) ==
    LET t == work[w].tab
    IN  /\ At(w, "ensure")
        /\ IF Lacking(t)
           THEN Go(w, "orphans", [todo |-> {q \in Overlays : panes[q].tab = t}])
           ELSE Finish(w)
        /\ UNCHANGED session

\* ... its orphaned overlays go one by one, then a shell is created.
Orphans(w) ==
    LET m == work[w]
    IN  /\ At(w, "orphans")
        /\ IF m.todo # {}
           THEN \E q \in m.todo : Discard(q) /\ Go(w, "orphans", [todo |-> m.todo \ {q}])
           ELSE /\ IF m.tab \in Live(tabs) THEN CreatePane(m.tab, NewPane)
                   ELSE UNCHANGED session
                /\ Finish(w)

\* replacePaneAt: the swap, then a spawn that may fail.
Swap(w, old) ==
    /\ ReplacePane(old, NewPane)
    /\ \/ Finish(w)
       \/ Go(w, "unspawned", [pane |-> NewPane, tab |-> panes[old].tab])

HandleReplacePane(w, old) == Take(w, "replace") /\ Swap(w, old)

Unspawned(w) == At(w, "unspawned") /\ Discard(work[w].pane) /\ Go(w, "recoverTab", [pane |-> None])

\* Mutant of RecoverEmptyTab: a tab without a pane is left as it is.
RecoverEmptyTabNever(w) ==
    /\ At(w, "recoverTab")
    /\ Finish(w)
    /\ UNCHANGED session

\* recoverEmptyTab: overlays stay, a childless pane explains the failure.
RecoverEmptyTab(w) ==
    LET t == work[w].tab
    IN  /\ At(w, "recoverTab")
        /\ IF t \in Live(tabs) /\ Lacking(t)
           THEN Go(w, "recoverPane", [tab |-> t])
           ELSE Finish(w)
        /\ UNCHANGED session

RecoverPane(w) ==
    LET t == work[w].tab
    IN  /\ At(w, "recoverPane")
        /\ IF t \in Live(tabs) THEN CreatePane(t, NewPane) ELSE UNCHANGED session
        /\ Finish(w)
-----------------------------------------------------------------------------
(* worktreeAddAndCreate for a tab's first pane, on a goroutine of its own. *)

TargetOK(m) == m.tab \in Live(tabs) /\ m.pane \in Live(panes) /\ panes[m.pane].tab = m.tab

\* The claim of the one worktree slot, the checkout and both target checks.
\* A refusal leaves the placeholder with its error (failPreparingPane).
AddWorktree(w) ==
    /\ At(w, "addTree")
    /\ \/ Finish(w)
       \/ TargetOK(work[w]) /\ Go(w, "swapTree", [proj |-> None])
    /\ UNCHANGED session

SwapPlaceholder(w) ==
    /\ At(w, "swapTree")
    /\ IF work[w].pane \in Live(panes) THEN Swap(w, work[w].pane)
       ELSE Finish(w) /\ UNCHANGED session
-----------------------------------------------------------------------------
(* Closing tabs, and the projects. *)

\* handleDestroyTab: the tab's project is read before the tab is destroyed.
HandleDestroyTab(w, t) ==
    /\ Take(w, "destroyTab")
    /\ t \in Live(tabs)
    /\ Go(w, "destroyTab", [tab |-> t, proj |-> tabs[t].project])
    /\ UNCHANGED session

\* Mutant of DestroyTheTab: the tab's project is looked up too late.
DestroyTheTabForgets(w) ==
    LET t == work[w].tab
    IN  /\ At(w, "destroyTab")
        /\ IF t \in Live(tabs) THEN DestroyTab(t) ELSE UNCHANGED session
        /\ Go(w, "recoverProj", [tab |-> None, proj |-> None])

DestroyTheTab(w) ==
    LET t == work[w].tab
    IN  /\ At(w, "destroyTab")
        /\ IF t \in Live(tabs) THEN DestroyTab(t) ELSE UNCHANGED session
        /\ Go(w, "recoverProj", [tab |-> None])

HandleCreateProject(w) ==
    /\ Take(w, "createProject")
    /\ CreateProject(NewProj)
    /\ Go(w, "recoverProj", [proj |-> NewProj])

\* MsgDestroyProject: projectExists, DestroyProject, ActiveProject, recovery.
HandleDestroyProject(w, p) ==
    /\ Take(w, "destroyProject")
    /\ p \in Live(projects)
    /\ Go(w, "destroyProj", [proj |-> p])
    /\ UNCHANGED session

DestroyTheProject(w) ==
    LET p == work[w].proj
    IN  /\ At(w, "destroyProj")
        /\ IF p \in Live(projects) THEN DestroyProject(p) ELSE UNCHANGED session
        /\ Go(w, "readActive", [proj |-> None])

ReadActive(w) ==
    /\ At(w, "readActive")
    /\ Go(w, "recoverProj", [proj |-> activeProject])
    /\ UNCHANGED session

\* MsgMergeProjects: into may have gone; the recovery runs either way.
HandleMergeProjects(w, into, p) ==
    /\ Take(w, "merge")
    /\ IF into \in Live(projects) THEN MergeProjects(into, <<p>>) ELSE UNCHANGED session
    /\ Go(w, "recoverProj", [proj |-> into])

HandleSwitchTab(w, t) == Take(w, "switch") /\ SwitchTab(t) /\ UNCHANGED work

HandleSwitchProject(w, p) == Take(w, "switch") /\ SwitchProject(p) /\ UNCHANGED work

\* Mutant of ProjectIsEmpty: the guard before projects existed.
ProjectIsEmptyGlobal(p) == tabs = <<>>

\* projectIsEmpty: an unknown project falls back to the workspace-wide test.
ProjectIsEmpty(p) ==
    IF p \in Live(projects) THEN projects[p].tabIDs = <<>> ELSE tabs = <<>>

RecoverEmptyProject(w) ==
    LET p == work[w].proj
    IN  /\ At(w, "recoverProj")
        /\ IF ProjectIsEmpty(p) THEN Go(w, "shellTab", [proj |-> p]) ELSE Finish(w)
        /\ UNCHANGED session

ShellTab(w) ==
    /\ At(w, "shellTab")
    /\ CreateTab(work[w].proj, NewTab, NewProj)
    /\ Go(w, "shellPane", [tab |-> NewTab])

ShellPane(w) ==
    LET t == work[w].tab
    IN  /\ At(w, "shellPane")
        /\ IF t \in Live(tabs)
           THEN CreatePane(t, NewPane) /\ Go(w, "landing", [tab |-> t])
           ELSE UNCHANGED session /\ Finish(w)

\* tab.ProjectID == ActiveProject(), read before SwitchTab.
Landing(w) ==
    LET t == work[w].tab
    IN  /\ At(w, "landing")
        /\ IF t \in Live(tabs) /\ tabs[t].project = activeProject
           THEN Go(w, "land", [tab |-> t])
           ELSE Finish(w)
        /\ UNCHANGED session

Land(w) ==
    LET t == work[w].tab
    IN  /\ At(w, "land")
        /\ IF t \in Live(tabs) THEN SwitchTab(t) ELSE UNCHANGED session
        /\ Finish(w)
-----------------------------------------------------------------------------
Request(w) ==
    \/ \E p \in Live(projects) \cup {None}, k \in Kinds :
          HandleCreateTab(w, p, k) \/ HandleCreateTabReq(w, p, k)
    \/ HandleAttach(w)
    \/ \E t \in Live(tabs), k \in Kinds : HandleCreatePane(w, t, k)
    \/ SweepIdleOverlays(w)
    \/ \E q \in Live(panes) : OnOverlayExit(w, q) \/ HandleDestroyPane(w, q) \/ HandleReplacePane(w, q)
    \/ \E t \in Live(tabs) : HandleDestroyTab(w, t) \/ HandleSwitchTab(w, t)
    \/ HandleCreateProject(w)
    \/ \E p \in Live(projects) : HandleDestroyProject(w, p) \/ HandleSwitchProject(w, p)
    \/ \E p, q \in Live(projects) : HandleMergeProjects(w, p, q)

Step(w) ==
    \/ SwitchNew(w) \/ FirstPane(w) \/ FirstPaneReq(w) \/ Reject(w) \/ RejectReq(w)
    \/ AttachTab(w) \/ AttachPane(w)
    \/ Flag(w) \/ EnforceOverlayCap(w) \/ Evict(w)
    \/ DestroyThePane(w) \/ EnsureTabNotEmpty(w) \/ Orphans(w)
    \/ Unspawned(w) \/ RecoverEmptyTab(w) \/ RecoverPane(w)
    \/ AddWorktree(w) \/ SwapPlaceholder(w)
    \/ DestroyTheTab(w) \/ DestroyTheProject(w) \/ ReadActive(w)
    \/ RecoverEmptyProject(w) \/ ShellTab(w) \/ ShellPane(w) \/ Landing(w) \/ Land(w)

Quiet == \A w \in Workers : work[w].pc = "idle"

\* The bounded run is over; TLC reports any other state without a step.
Done == Quiet /\ UNCHANGED wvars

WNext == (IdsLeft /\ \E w \in Workers : Request(w) \/ Step(w)) \/ Done

\* Any sound session will do to start from, with its overlays within the cap
\* and no request being served.
WStart ==
    /\ SessionSound
    /\ work = [w \in Workers |-> Idle]
    /\ IsFiniteSet(Overlays) /\ (MaxLive > 0 => Cardinality(Overlays) <= MaxLive)

WSpec == WStart /\ [][WNext]_wvars
-----------------------------------------------------------------------------
(***************************************************************************)
(* When no handler is running, every tab shows a pane that is not an       *)
(* overlay: handleCreateTab, ensureTabNotEmpty and recoverEmptyTab each    *)
(* look and then create in separate steps, and must still repair whatever  *)
(* the others leave behind.                                                *)
(***************************************************************************)
TabsNeverEmpty == Quiet => \A t \in Live(tabs) : Normal(t) # {}

\* TabsNeverEmpty, except where an image is rejected, or an overlay is opened
\* beside a close, which does leave a tab empty.
NoEmptyTab == "badImage" \notin Ops => TabsNeverEmpty

\* When no handler is running, every project has a tab, and when there is a tab
\* one is active in a project that exists: recoverEmptyProject tests and creates
\* in separate steps, beside other closes and merges, and a client must still
\* have something to draw.
SomethingToDraw ==
    Quiet => /\ \A p \in Live(projects) : projects[p].tabIDs # <<>>
             /\ Live(tabs) # {} => activeTab \in Live(tabs) /\ activeProject \in Live(projects)

\* Concurrent openings never leave more overlays than the cap allows, though
\* enforceOverlayCap counts and evicts without a lock over the two.
OverlaysWithinCap == Quiet /\ MaxLive > 0 => Cardinality(Overlays) <= MaxLive

\* Once the handlers have come to rest every tab has a pane and every project a
\* tab, and something that exists is active: the closes, replaces and new tabs
\* that interleave each check and create in separate steps.
NothingEmpty == NoEmptyTab /\ SomethingToDraw

\* Where the handlers' recoveries are enough, beside a session at rest in which
\* nothing is empty: merges are not served beside other requests, and neither
\* are overlay openings unless images are rejected as well.
Orderly ==
    /\ DOMAIN mix = {"ops", "left", "width"}
    /\ "merge" \in Ops => mix.width = 1
    /\ "overlay" \in Ops => "badImage" \in Ops \/ mix.width = 1
=============================================================================

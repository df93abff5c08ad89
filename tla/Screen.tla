------------------------------- MODULE Screen -------------------------------
(***************************************************************************)
(* Which project, tab and overlay the client shows, and what the daemon    *)
(* believes (internal/tui/project.go, overlay.go, reorder.go, attention.go,*)
(* model.go switchTab and applyWorkspaceState).  Most requests leave in    *)
(* tea.Cmd goroutines, which nothing orders; broadcasts come back behind   *)
(* them.  The daemon destroys overlays it believes hidden.                 *)
(***************************************************************************)
EXTENDS Naturals, Sequences, FiniteSets, SequencesExt, FiniteSetsExt

CONSTANTS
  ProjTabs,    \* project -> its tabs, in their first order
  MaxMoves     \* bound: user and daemon operations in a behaviour

VARIABLES
  cl,          \* the client: projects in order, active one, tabs, overlay slots
  dm,          \* the daemon: the same, and the overlays it believes hidden
  cmds,        \* requests whose goroutine has not sent them yet
  wire,        \* requests sent, in order
  scrCasts,       \* broadcasts on their way to the client
  up,          \* the connection is up
  blind,       \* tabs whose overlay the daemon may misjudge: two reports raced, or
               \* it came on screen without a report
  moves        \* operations so far

scrVars == <<cl, dm, cmds, wire, scrCasts, up, blind, moves>>

Projs == DOMAIN ProjTabs
ScrTabs == UNION {ToSet(ProjTabs[p]) : p \in Projs}
ProjOf(t) == CHOOSE p \in Projs : t \in ToSet(ProjTabs[p])
NoOverlay == 0

(* The overlay a broadcast reports for a tab: the first, if it has several. *)
Overlay(d, t) == IF d.ov[t] = <<>> THEN NoOverlay ELSE Head(d.ov[t])

ScrInit ==
  /\ \E first \in Projs :
       cl = [alive |-> Projs, proj |-> first, act |-> [p \in Projs |-> ProjTabs[p][1]], order |-> ProjTabs,
             slot |-> [t \in ScrTabs |-> NoOverlay], vis |-> [t \in ScrTabs |-> FALSE],
             want |-> {}, scan |-> {}]
  /\ dm = [alive |-> Projs, act |-> cl.act, order |-> ProjTabs, ov |-> [t \in ScrTabs |-> <<>>],
           hidden |-> {}, made |-> 0]
  /\ cmds = {} /\ wire = <<>> /\ scrCasts = <<>>
  /\ up = TRUE /\ blind = {} /\ moves = 0

----------------------------------------------------------------------------
Moves == moves < MaxMoves /\ moves' = moves + 1

activeTabModel(c) == c.act[c.proj]
overlayOnScreen(c, t) == c.vis[t] /\ ProjOf(t) = c.proj /\ activeTabModel(c) = t

Req(kind, t, id, flag) == [kind |-> kind, tab |-> t, id |-> id, flag |-> flag]

overlayVisibilityCmd(c, t, visible) ==
  IF c.slot[t] = NoOverlay THEN {} ELSE {Req("visible", t, c.slot[t], visible)}

overlayTruthCmd(c, t) == overlayVisibilityCmd(c, t, overlayOnScreen(c, t))

overlayTruthTransitionCmdLeft(c, from, target) == overlayTruthCmd(c, from)
overlayTruthTransitionCmd(c, from, target) == overlayTruthCmd(c, from) \cup overlayTruthCmd(c, target)

(* Requests handed to goroutines.  Two opposite reports about one overlay  *)
(* may be sent in either order.                                            *)
IssueBut(rs, silent) ==
  /\ cmds' = cmds \cup rs
  /\ LET reported == {r.tab : r \in {x \in rs : x.kind = "visible"}}
         raced == {t \in reported :
                     \E a, b \in cmds \cup rs : /\ a.kind = "visible" /\ b.kind = "visible"
                                               /\ a.tab = t /\ b.tab = t /\ a.id = b.id /\ a.flag # b.flag}
     IN blind' = (blind \ reported) \cup raced \cup silent

Issue(rs) == IssueBut(rs, {})

Stays == UNCHANGED <<dm, scrCasts, up>>

(* A send on the update goroutine itself overtakes the waiting commands.   *)
SendNow(r) == wire' = IF up THEN Append(wire, r) ELSE wire

----------------------------------------------------------------------------
(* switchTab: Alt+1..9, the tab bar, the sidebar.                          *)
switchTab(t) ==
  /\ Moves /\ ProjOf(t) = cl.proj /\ t # activeTabModel(cl)
  /\ cl' = [cl EXCEPT !.act[cl.proj] = t]
  /\ Issue({Req("switch", t, 0, TRUE)} \cup overlayTruthTransitionCmd(cl', activeTabModel(cl), t))
  /\ UNCHANGED wire /\ Stays

switchProject(p) ==
  /\ Moves /\ p \in cl.alive \ {cl.proj}
  /\ cl' = [cl EXCEPT !.proj = p]
  /\ SendNow(Req("project", cl.act[p], 0, TRUE))
  /\ Issue(overlayTruthTransitionCmd(cl', activeTabModel(cl), activeTabModel(cl')))
  /\ Stays

(* jumpToPane: MCP's set_active_pane, the notification sidebar, history.   *)
jumpToPane(t) ==
  /\ Moves /\ ProjOf(t) \in cl.alive /\ t # activeTabModel(cl)
  /\ cl' = [cl EXCEPT !.proj = ProjOf(t), !.act[ProjOf(t)] = t]
  /\ SendNow(Req("switch", t, 0, TRUE))
  /\ Issue(overlayTruthTransitionCmd(cl', activeTabModel(cl), t))
  /\ Stays

(* jumpToNextBlocked: switchProject reports the project's remembered tab   *)
(* before the pane's own tab replaces it.                                  *)
jumpToNextBlocked(t) ==
  /\ Moves /\ ProjOf(t) \in cl.alive \ {cl.proj} /\ up
  /\ LET mid == [cl EXCEPT !.proj = ProjOf(t)]
     IN /\ cl' = [mid EXCEPT !.act[ProjOf(t)] = t]
        /\ wire' = wire \o <<Req("project", cl.act[ProjOf(t)], 0, TRUE), Req("switch", t, 0, TRUE)>>
        /\ Issue(overlayTruthTransitionCmd(mid, activeTabModel(cl), activeTabModel(mid))
                 \cup overlayTruthTransitionCmd(cl', activeTabModel(cl), t))
  /\ Stays

(* moveActiveTab and the drags: the client's list at once, then a request. *)
moveTab(i) ==
  /\ Moves
  /\ LET s == cl.order[cl.proj]
         t == activeTabModel(cl)
     IN /\ i \in 1..Len(s) /\ s[i] # t
        /\ cl' = [cl EXCEPT !.order[cl.proj] = InsertAt(SelectSeq(s, LAMBDA x : x # t), i, t)]
        /\ Issue({Req("reorder", t, i, TRUE)})
  /\ UNCHANGED wire /\ Stays

----------------------------------------------------------------------------
(* handleToggleOverlay: hide at once, or ask the daemon for the pane's     *)
(* repositories; the answer is applied to the tab that asked.              *)
handleToggleOverlay ==
  LET t == activeTabModel(cl)
  IN /\ Moves
     /\ \/ /\ cl.vis[t]
           /\ cl' = [cl EXCEPT !.vis[t] = FALSE]
           /\ Issue(overlayVisibilityCmd(cl, t, FALSE))
        \/ /\ ~cl.vis[t]
           /\ cl' = [cl EXCEPT !.scan = {t}]
           /\ UNCHANGED <<cmds, blind>>
     /\ UNCHANGED wire /\ Stays

showOverlay(t) ==
  /\ cl.slot[t] # NoOverlay
  /\ cl' = [cl EXCEPT !.vis[t] = TRUE, !.scan = {}]
  /\ Issue(overlayVisibilityCmd(cl, t, TRUE))

(* The outgoing overlay's destroy and the create leave in one command.     *)
createOverlay(t) ==
  /\ cl' = [cl EXCEPT !.slot[t] = NoOverlay, !.vis[t] = FALSE, !.want = @ \cup {t}, !.scan = {}]
  /\ Issue(overlayVisibilityCmd(cl, t, FALSE) \cup {Req("create", t, cl.slot[t], TRUE)})

resolveOverlay ==
  /\ \E t \in cl.scan :
       \/ showOverlay(t)
       \/ createOverlay(t)
       \/ cl' = [cl EXCEPT !.scan = {}] /\ UNCHANGED <<cmds, blind>>
  /\ UNCHANGED <<wire, moves>> /\ Stays

----------------------------------------------------------------------------
(* applyWorkspaceState.  Not reported: a tab that comes on screen because  *)
(* the active project has gone, an overlay adopted in place of another     *)
(* that was showing.                                                       *)
reconcileOverlayPane(c, t, b) ==
  CASE Overlay(b, t) = NoOverlay -> [c EXCEPT !.slot[t] = NoOverlay,
                                              !.vis[t] = IF c.slot[t] = NoOverlay THEN @ ELSE FALSE]
    [] Overlay(b, t) \notin {NoOverlay, c.slot[t]} ->
         [c EXCEPT !.slot[t] = Overlay(b, t), !.vis[t] = @ \/ t \in c.want, !.want = @ \ {t}]
    [] OTHER -> c

(* mergeProjects and resolveActiveProjectIndex: projects that have gone    *)
(* leave, and the first one left takes over from an active one.            *)
Settle(c, b) ==
  LET here == UNION {ToSet(b.order[p]) : p \in b.alive}
      c2 == FoldSet(LAMBDA t, acc : reconcileOverlayPane(acc, t, b), c, here)
  IN [c2 EXCEPT !.alive = b.alive,
                !.act = [p \in Projs |-> IF p \in b.alive THEN b.act[p] ELSE @[p]],
                !.order = [p \in Projs |-> IF p \in b.alive THEN b.order[p] ELSE @[p]],
                !.proj = IF @ \in b.alive THEN @ ELSE CHOOSE p \in b.alive : TRUE,
                !.scan = {t \in @ : ProjOf(t) \in b.alive}]

applyWorkspaceState ==
  /\ scrCasts # <<>>
  /\ LET b == Head(scrCasts)
         c2 == Settle(cl, b)
         here == UNION {ToSet(b.order[p]) : p \in b.alive}
         moved == {p \in b.alive : cl.act[p] # b.act[p]}
         shown == {t \in here : c2.slot[t] # cl.slot[t] /\ t \in cl.want}
         gone == {t \in here : cl.slot[t] # NoOverlay /\ c2.slot[t] = NoOverlay}
         swapped == {t \in here : c2.slot[t] \notin {NoOverlay, cl.slot[t]} /\ c2.vis[t]}
         stranded == IF c2.proj = cl.proj THEN {} ELSE {activeTabModel(c2)}
     IN /\ cl' = c2
        /\ IssueBut(UNION {overlayTruthTransitionCmd(c2, cl.act[p], c2.act[p]) : p \in moved}
                 \cup UNION {overlayVisibilityCmd(c2, t, TRUE) : t \in shown}
                 \cup UNION {overlayVisibilityCmd(cl, t, FALSE) : t \in gone},
                    (swapped \ shown) \cup stranded)
  /\ scrCasts' = Tail(scrCasts)
  /\ UNCHANGED <<dm, wire, up, moves>>

----------------------------------------------------------------------------
(* A goroutine sends; on a lost connection the request is dropped.         *)
Sends(r) ==
  /\ r \in cmds
  /\ cmds' = cmds \ {r}
  /\ SendNow(r)
  /\ UNCHANGED <<cl, dm, scrCasts, up, blind, moves>>

Broadcast(d) == scrCasts' = IF up THEN Append(scrCasts, d) ELSE scrCasts

(* The daemon's handlers for what the client sends.                        *)
HandleSwitchTab(t) ==
  /\ dm' = IF ProjOf(t) \in dm.alive THEN [dm EXCEPT !.act[ProjOf(t)] = t] ELSE dm
  /\ Broadcast(dm')

(* A move that changes nothing is not broadcast.                           *)
HandleReorderTab(t, i) ==
  LET p == ProjOf(t)
      s == InsertAt(SelectSeq(dm.order[p], LAMBDA x : x # t), i, t)
  IN IF p \notin dm.alive \/ s = dm.order[p] THEN UNCHANGED <<dm, scrCasts>>
     ELSE dm' = [dm EXCEPT !.order[p] = s] /\ Broadcast(dm')

applyOverlayVisibility(t, id, visible) ==
  /\ dm' = IF id \notin ToSet(dm.ov[t]) THEN dm
           ELSE [dm EXCEPT !.hidden = IF visible THEN @ \ {id} ELSE @ \cup {id}]
  /\ UNCHANGED scrCasts

HandleCreateOverlay(t, old) ==
  /\ dm' = IF ProjOf(t) \notin dm.alive THEN dm
           ELSE [dm EXCEPT !.made = @ + 1, !.hidden = @ \ {old},
                           !.ov[t] = Append(SelectSeq(@, LAMBDA x : x # old), dm.made + 1)]
  /\ Broadcast(dm')

Handle(r) ==
  \/ r.kind = "switch" /\ HandleSwitchTab(r.tab)
  \/ r.kind = "project" /\ UNCHANGED dm /\ Broadcast(dm)
  \/ r.kind = "reorder" /\ HandleReorderTab(r.tab, r.id)
  \/ r.kind = "visible" /\ applyOverlayVisibility(r.tab, r.id, r.flag)
  \/ r.kind = "create" /\ HandleCreateOverlay(r.tab, r.id)

DaemonTakes ==
  /\ wire # <<>>
  /\ Handle(Head(wire))
  /\ wire' = Tail(wire)
  /\ UNCHANGED <<cl, cmds, up, blind, moves>>

(* Another client, a program's end, the idle sweep.                        *)
OtherSwitches(t) ==
  /\ Moves /\ ProjOf(t) \in dm.alive /\ dm.act[ProjOf(t)] # t
  /\ dm' = [dm EXCEPT !.act[ProjOf(t)] = t]
  /\ Broadcast(dm') /\ UNCHANGED <<cl, cmds, wire, up, blind>>

OtherDestroysProject(p) ==
  /\ Moves /\ p \in dm.alive /\ dm.alive # {p}
  /\ dm' = [dm EXCEPT !.alive = @ \ {p},
                      !.ov = [t \in ScrTabs |-> IF ProjOf(t) = p THEN <<>> ELSE @[t]],
                      !.hidden = @ \ UNION {ToSet(dm.ov[t]) : t \in ToSet(ProjTabs[p])}]
  /\ Broadcast(dm') /\ UNCHANGED <<cl, cmds, wire, up, blind>>

SweepIdle(t) ==
  /\ Overlay(dm, t) \in dm.hidden
  /\ dm' = [dm EXCEPT !.ov[t] = SelectSeq(@, LAMBDA x : x \notin dm.hidden),
                      !.hidden = @ \ ToSet(dm.ov[t])]
  /\ Broadcast(dm') /\ UNCHANGED <<cl, cmds, wire, up, blind, moves>>

(* onClientDisconnect hides every overlay nobody claims; the client        *)
(* reports the truth of every tab when it attaches again.                  *)
ScrLinkDies ==
  /\ Moves /\ up /\ up' = FALSE
  /\ dm' = [dm EXCEPT !.hidden = UNION {ToSet(dm.ov[t]) : t \in ScrTabs}]
  /\ wire' = <<>> /\ scrCasts' = <<>>
  /\ UNCHANGED <<cl, cmds, blind>>

overlayTruthDestCmd ==
  /\ ~up /\ up' = TRUE
  /\ Issue(UNION {overlayTruthCmd(cl, t) : t \in ScrTabs})
  /\ scrCasts' = <<dm>>
  /\ UNCHANGED <<cl, dm, wire, moves>>

ScrNext ==
  \/ \E t \in ScrTabs : \/ switchTab(t) \/ jumpToPane(t) \/ jumpToNextBlocked(t)
                        \/ OtherSwitches(t) \/ SweepIdle(t)
  \/ \E p \in Projs : switchProject(p) \/ OtherDestroysProject(p)
  \/ \E i \in 1..2 : moveTab(i)
  \/ handleToggleOverlay \/ resolveOverlay
  \/ applyWorkspaceState
  \/ \E r \in cmds : Sends(r)
  \/ DaemonTakes \/ ScrLinkDies \/ overlayTruthDestCmd

----------------------------------------------------------------------------
Quiet == up /\ cmds = {} /\ wire = <<>> /\ scrCasts = <<>>

(* When nothing is under way, the client shows what the daemon has: the    *)
(* same projects, the same order and active tab, the same overlays; and    *)
(* the overlay on screen is not one the daemon takes for hidden and will   *)
(* destroy, unless two reports about it raced, it took a showing overlay's  *)
(* place, or the project in front of it was destroyed.                     *)
ScreenAgrees ==
  Quiet =>
    /\ cl.alive = dm.alive
    /\ \A p \in cl.alive : cl.act[p] = dm.act[p] /\ cl.order[p] = dm.order[p]
    /\ \A t \in ScrTabs : ProjOf(t) \in cl.alive => cl.slot[t] = Overlay(dm, t)
    /\ \A t \in ScrTabs \ blind : overlayOnScreen(cl, t) => cl.slot[t] \notin dm.hidden
=============================================================================

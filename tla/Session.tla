------------------------------ MODULE Session ------------------------------
(***************************************************************************)
(* The daemon's session manager (internal/daemon/session.go, project.go):  *)
(* which projects, tabs and panes exist, in which order, and which are     *)
(* active.  Every method holds sm.mu from its first read to its last       *)
(* write, so each is one step.  Names, colours, layouts and directories    *)
(* are left out; a pane keeps only its tab and whether it is an overlay.   *)
(***************************************************************************)
EXTENDS Integers, FiniteSets, SequencesExt

CONSTANTS Tabs, Panes, Projects,   \* the identifiers that may be minted
          None,                    \* the empty string
          MaxAbsorb                \* bound: projects named by one merge

ASSUME SessionAssumption == None \notin Tabs \cup Panes \cup Projects /\ MaxAbsorb \in Nat

VARIABLES tabs,           \* sm.tabs: tab -> [panes, project]
          tabOrder,       \* sm.tabOrder
          panes,          \* sm.panes: pane -> [tab, overlay]
          projects,       \* sm.projects: project -> [tabIDs, activeTab, bootstrap]
          projectOrder,   \* sm.projectOrder
          activeTab,      \* sm.activeTab
          activeProject   \* sm.activeProject

session == <<tabs, tabOrder, panes, projects, projectOrder, activeTab, activeProject>>

Live(f) == DOMAIN f

NewProject(boot) == [tabIDs |-> <<>>, activeTab |-> None, bootstrap |-> boot]

\* Map assignment, and deletion of the keys in S.
Put(f, k, v) == [x \in DOMAIN f \cup {k} |-> IF x = k THEN v ELSE f[x]]
Without(f, S) == [x \in DOMAIN f \ S |-> f[x]]

FirstOrNone(s) == IF s = <<>> THEN None ELSE Head(s)

NewSessionManager ==
    /\ tabs = <<>> /\ panes = <<>> /\ projects = <<>>
    /\ tabOrder = <<>> /\ projectOrder = <<>>
    /\ activeTab = None /\ activeProject = None
-----------------------------------------------------------------------------
(* Order helpers. *)

\* indexOfString, for an element that is there.
IndexOf(s, e) == CHOOSE i \in 1 .. Len(s) : s[i] = e /\ \A j \in 1 .. i - 1 : s[j] # e

\* removeString: its first occurrence goes.
RemoveString(s, e) == IF Contains(s, e) THEN RemoveAt(s, IndexOf(s, e)) ELSE s

\* A loop of removeString over the elements of gone that are in S.
RemoveEach(s, gone, S) ==
    LET left[i \in 0 .. Len(gone)] ==
            IF i = 0 THEN s
            ELSE IF gone[i] \in S THEN RemoveString(left[i - 1], gone[i]) ELSE left[i - 1]
    IN  left[Len(gone)]

\* slideString: move the element at index from to index to (1-based, clamped).
SlideString(s, e, idx) ==
    LET to == IF idx < 1 THEN 1 ELSE IF idx > Len(s) THEN Len(s) ELSE idx
    IN  InsertAt(RemoveString(s, e), to, e)

\* reanchorTab: put t next to the neighbour it has in its project's list,
\* moving nothing else.
ReanchorTab(order, projTabs, t) ==
    LET at == IndexOf(projTabs, t)
        rest == RemoveString(order, t)
    IN  IF at > 1 /\ Contains(rest, projTabs[at - 1])
        THEN InsertAt(rest, IndexOf(rest, projTabs[at - 1]) + 1, t)
        ELSE IF at < Len(projTabs) /\ Contains(rest, projTabs[at + 1])
             THEN InsertAt(rest, IndexOf(rest, projTabs[at + 1]), t)
             ELSE Append(rest, t)
-----------------------------------------------------------------------------
(* Tabs. *)

\* Where createTabLocked puts a tab asked for project p; boot is the project
\* it makes up when there is none at all.
TabTarget(p, boot) ==
    CASE p \in Live(projects) -> p
      [] p \notin Live(projects) /\ activeProject \in Live(projects) -> activeProject
      [] OTHER -> IF projectOrder # <<>> THEN Head(projectOrder) ELSE boot

\* createTabLocked: tab t for project p.  Only a request that names no live
\* project moves the active project.
CreateTab(p, t, boot) ==
    LET target == TabTarget(p, boot)
        known == IF target \in Live(projects) THEN projects
                 ELSE Put(projects, target, NewProject(TRUE))
    IN  /\ t \in Tabs \ Live(tabs) /\ target \in Projects
        /\ projects' = [known EXCEPT ![target].tabIDs = Append(@, t),
                                     ![target].activeTab = IF @ = None THEN t ELSE @]
        /\ projectOrder' = IF target \in Live(projects) THEN projectOrder
                           ELSE Append(projectOrder, target)
        /\ activeProject' = IF p \in Live(projects) THEN activeProject ELSE target
        /\ tabs' = Put(tabs, t, [panes |-> <<>>, project |-> target])
        /\ tabOrder' = Append(tabOrder, t)
        /\ activeTab' = IF activeTab = None THEN t ELSE activeTab
        /\ UNCHANGED panes

\* DestroyTab's successor: the in-project neighbour that slides into t's slot.
Successor(t) ==
    LET ids == projects[tabs[t].project].tabIDs
        left == RemoveString(ids, t)
        at == IndexOf(ids, t)
    IN  IF left = <<>> THEN None
        ELSE left[IF at > Len(left) THEN Len(left) ELSE at]

\* Mutant of DestroyTab: the project still remembers the dead tab.
DestroyTabKeepsMemory(t) ==
    LET p == tabs[t].project
    IN  /\ t \in Live(tabs)
        /\ panes' = Without(panes, ToSet(tabs[t].panes))
        /\ tabs' = Without(tabs, {t})
        /\ tabOrder' = RemoveString(tabOrder, t)
        /\ projects' = [projects EXCEPT ![p].tabIDs = RemoveString(@, t)]
        /\ activeTab' = IF activeTab # t THEN activeTab
                        ELSE IF Successor(t) # None THEN Successor(t)
                        ELSE FirstOrNone(tabOrder')
        /\ UNCHANGED <<projectOrder, activeProject>>

\* DestroyTab: the panes go, the project forgets the tab, and the active tab
\* stays inside the project unless that was its last one.
DestroyTab(t) ==
    LET p == tabs[t].project
    IN  /\ t \in Live(tabs)
        /\ panes' = Without(panes, ToSet(tabs[t].panes))
        /\ tabs' = Without(tabs, {t})
        /\ tabOrder' = RemoveString(tabOrder, t)
        /\ projects' = [projects EXCEPT
                          ![p].tabIDs = RemoveString(@, t),
                          ![p].activeTab = IF @ = t THEN Successor(t) ELSE @]
        /\ activeTab' = IF activeTab # t THEN activeTab
                        ELSE IF Successor(t) # None THEN Successor(t)
                        ELSE FirstOrNone(tabOrder')
        /\ UNCHANGED <<projectOrder, activeProject>>

\* SwitchTab: the project remembers the tab; the active project stays.
SwitchTab(t) ==
    /\ t \in Live(tabs)
    /\ activeTab' = t
    /\ projects' = [projects EXCEPT ![tabs[t].project].activeTab = t]
    /\ UNCHANGED <<tabs, tabOrder, panes, projectOrder, activeProject>>

\* ReorderTab: slide inside the project, then re-anchor in the global order.
\* A slide onto its own slot changes nothing and returns false.
ReorderTab(t, idx) ==
    LET p == tabs[t].project
        slid == SlideString(projects[p].tabIDs, t, idx)
    IN  /\ t \in Live(tabs)
        /\ slid # projects[p].tabIDs
        /\ projects' = [projects EXCEPT ![p].tabIDs = slid]
        /\ tabOrder' = ReanchorTab(tabOrder, slid, t)
        /\ UNCHANGED <<tabs, panes, projectOrder, activeTab, activeProject>>
-----------------------------------------------------------------------------
(* Panes. *)

CreatePane(t, q) ==
    /\ t \in Live(tabs)
    /\ q \in Panes \ Live(panes)
    /\ panes' = Put(panes, q, [tab |-> t, overlay |-> FALSE])
    /\ tabs' = [tabs EXCEPT ![t].panes = Append(@, q)]
    /\ UNCHANGED <<tabOrder, projects, projectOrder, activeTab, activeProject>>

\* constructPaneAt sets the overlay flag after CreatePane has published the
\* pane; no session method does, so it is no disjunct of SessionNext.
SetOverlay(q) ==
    /\ q \in Live(panes)
    /\ panes' = [panes EXCEPT ![q].overlay = TRUE]
    /\ UNCHANGED <<tabs, tabOrder, projects, projectOrder, activeTab, activeProject>>

\* Mutant of ReplacePane: the replaced pane's record is left behind.
ReplacePaneKeepsOld(old, q) ==
    LET t == panes[old].tab
    IN  /\ old \in Live(panes)
        /\ q \in Panes \ Live(panes)
        /\ Contains(tabs[t].panes, old)
        /\ tabs' = [tabs EXCEPT ![t].panes = ReplaceAt(@, IndexOf(@, old), q)]
        /\ panes' = Put(panes, q, [tab |-> t, overlay |-> FALSE])
        /\ UNCHANGED <<tabOrder, projects, projectOrder, activeTab, activeProject>>

\* ReplacePane: q takes over old's slot in the tab.
ReplacePane(old, q) ==
    LET t == panes[old].tab
    IN  /\ old \in Live(panes)
        /\ q \in Panes \ Live(panes)
        /\ tabs' = [tabs EXCEPT ![t].panes = ReplaceAt(@, IndexOf(@, old), q)]
        /\ panes' = Put(Without(panes, {old}), q, [tab |-> t, overlay |-> FALSE])
        /\ UNCHANGED <<tabOrder, projects, projectOrder, activeTab, activeProject>>

DestroyPane(q) ==
    /\ q \in Live(panes)
    /\ tabs' = [tabs EXCEPT ![panes[q].tab].panes = RemoveString(@, q)]
    /\ panes' = Without(panes, {q})
    /\ UNCHANGED <<tabOrder, projects, projectOrder, activeTab, activeProject>>
-----------------------------------------------------------------------------
(* Projects. *)

CreateProject(p) ==
    /\ p \in Projects \ Live(projects)
    /\ projects' = Put(projects, p, NewProject(FALSE))
    /\ projectOrder' = Append(projectOrder, p)
    /\ activeProject' = IF activeProject = None THEN p ELSE activeProject
    /\ UNCHANGED <<tabs, tabOrder, panes, activeTab>>

\* DestroyProject: its tabs and panes go with it, and the active tab is
\* derived anew from whichever project is active afterwards.
DestroyProject(p) ==
    LET gone == ToSet(projects[p].tabIDs)
        rest == Without(projects, {p})
        order == RemoveString(projectOrder, p)
        active == IF activeProject = p THEN FirstOrNone(order) ELSE activeProject
    IN  /\ p \in Live(projects)
        /\ panes' = Without(panes, {q \in Live(panes) : panes[q].tab \in gone})
        /\ tabs' = Without(tabs, gone)
        /\ tabOrder' = RemoveEach(tabOrder, projects[p].tabIDs, Live(tabs))
        /\ projects' = rest
        /\ projectOrder' = order
        /\ activeProject' = active
        /\ activeTab' = IF active \notin Live(rest) THEN None
                        ELSE IF rest[active].activeTab # None THEN rest[active].activeTab
                        ELSE FirstOrNone(rest[active].tabIDs)

\* UpdateProject: names the project; an adoption applies to a bootstrap only.
UpdateProject(p, adopt) ==
    /\ p \in Live(projects)
    /\ adopt => projects[p].bootstrap
    /\ projects' = [projects EXCEPT ![p].bootstrap = FALSE]
    /\ UNCHANGED <<tabs, tabOrder, panes, projectOrder, activeTab, activeProject>>

(***************************************************************************)
(* MergeProjects: the loop over absorb.  The survivor itself, unknown IDs  *)
(* and repeated ones (dropped by their first turn) are skipped; a tab is   *)
(* appended to the survivor's list and re-anchored behind its last one.    *)
(***************************************************************************)
Dropped(into, absorb) == (ToSet(absorb) \cap Live(projects)) \ {into}

\* Turn i drops a project.
Drops(into, absorb, i) ==
    absorb[i] \in Live(projects) \ {into} /\ \A j \in 1 .. i - 1 : absorb[j] # absorb[i]

\* The tabs that move, in the order they do.
Moved(into, absorb) ==
    LET after[i \in 0 .. Len(absorb)] ==
            IF i = 0 THEN <<>>
            ELSE IF Drops(into, absorb, i) THEN after[i - 1] \o projects[absorb[i]].tabIDs
            ELSE after[i - 1]
    IN  after[Len(absorb)]

\* Mutant of MoveTab: the tab joins the list but stays where it was globally.
MoveTabNoReanchor(order, ids, t) == order

\* sm.tabOrder after tab t, the last of ids, was moved.
MoveTab(order, ids, t) == ReanchorTab(order, ids, t)

\* sm.tabOrder once the tabs of ids behind the first kept ones have moved.
MovedOrder(ids, kept) ==
    LET after[i \in 0 .. Len(ids) - kept] ==
            IF i = 0 THEN tabOrder
            ELSE MoveTab(after[i - 1], SubSeq(ids, 1, kept + i), ids[kept + i])
    IN  after[Len(ids) - kept]

\* The re-derivation at the end of MergeProjects when the survivor is active:
\* <<sm.activeTab, dst.ActiveTab>>.
MergedActive(ids, remembered) ==
    CASE Contains(ids, activeTab) -> <<activeTab, activeTab>>
      [] ~Contains(ids, activeTab) /\ remembered # None /\ Contains(ids, remembered) ->
           <<remembered, remembered>>
      [] OTHER -> IF ids # <<>> THEN <<Head(ids), Head(ids)>>
                  ELSE <<activeTab, remembered>>

MergeProjects(into, absorb) ==
    LET dst == projects[into]
        dropped == Dropped(into, absorb)
        moved == Moved(into, absorb)
        ids == dst.tabIDs \o moved
        active == IF activeProject \in dropped THEN into ELSE activeProject
        act == IF active = into THEN MergedActive(ids, dst.activeTab)
               ELSE <<activeTab, dst.activeTab>>
    IN  /\ into \in Live(projects)
        /\ tabs' = [t \in Live(tabs) |-> IF Contains(moved, t)
                                         THEN [tabs[t] EXCEPT !.project = into]
                                         ELSE tabs[t]]
        /\ tabOrder' = MovedOrder(ids, Len(dst.tabIDs))
        /\ projects' = [Without(projects, dropped) EXCEPT
                          ![into] = [tabIDs |-> ids, activeTab |-> act[2], bootstrap |-> FALSE]]
        /\ projectOrder' = RemoveEach(projectOrder, absorb, dropped)
        /\ activeProject' = active
        /\ activeTab' = act[1]
        /\ UNCHANGED panes

\* The tab SwitchProject lands on.
LandingTab(p) ==
    IF projects[p].activeTab \in Live(tabs) THEN projects[p].activeTab
    ELSE FirstOrNone(projects[p].tabIDs)

\* Mutant of SwitchProject: the outgoing project's tab stays active.
SwitchProjectOnly(p) ==
    /\ p \in Live(projects)
    /\ activeProject' = p
    /\ UNCHANGED <<tabs, tabOrder, panes, projects, projectOrder, activeTab>>

SwitchProject(p) ==
    LET t == LandingTab(p)
    IN  /\ p \in Live(projects)
        /\ activeProject' = p
        /\ activeTab' = IF t = None THEN activeTab ELSE t
        /\ projects' = IF t = None THEN projects
                       ELSE [projects EXCEPT ![p].activeTab = t]
        /\ UNCHANGED <<tabs, tabOrder, panes, projectOrder>>

ReorderProject(p, idx) ==
    LET slid == SlideString(projectOrder, p, idx)
    IN  /\ p \in Live(projects)
        /\ slid # projectOrder
        /\ projectOrder' = slid
        /\ UNCHANGED <<tabs, tabOrder, panes, projects, activeTab, activeProject>>
-----------------------------------------------------------------------------
SessionNext ==
    \/ \E p \in Live(projects) \cup {None}, t \in Tabs \ Live(tabs),
          boot \in IF Live(projects) = {} THEN Projects ELSE {None} : CreateTab(p, t, boot)
    \/ \E t \in Live(tabs) : DestroyTab(t) \/ SwitchTab(t)
    \/ \E t \in Live(tabs), i \in 1 .. Len(tabOrder) : ReorderTab(t, i)
    \/ \E t \in Tabs, q \in Panes : CreatePane(t, q)
    \/ \E q \in Live(panes) : DestroyPane(q)
    \/ \E q \in Live(panes), r \in Panes : ReplacePane(q, r)
    \/ \E p \in Projects : CreateProject(p) \/ DestroyProject(p) \/ SwitchProject(p)
    \/ \E p \in Projects, adopt \in BOOLEAN : UpdateProject(p, adopt)
    \/ \E p \in Live(projects), n \in 1 .. MaxAbsorb :
          \E absorb \in [1 .. n -> Projects] : MergeProjects(p, absorb)
    \/ \E p \in Projects, i \in 1 .. Len(projectOrder) : ReorderProject(p, i)

SessionSpec == NewSessionManager /\ [][SessionNext]_session
-----------------------------------------------------------------------------
\* Type correctness of the session maps.
SessionTypeOK ==
    /\ Live(tabs) \subseteq Tabs /\ Live(panes) \subseteq Panes
    /\ Live(projects) \subseteq Projects
    /\ \A t \in Live(tabs) : tabs[t] \in [panes : Seq(Panes), project : Projects]
    /\ \A q \in Live(panes) : panes[q] \in [tab : Tabs, overlay : BOOLEAN]
    /\ \A p \in Live(projects) :
          projects[p] \in [tabIDs : Seq(Tabs), activeTab : Tabs \cup {None}, bootstrap : BOOLEAN]
    /\ tabOrder \in Seq(Tabs) /\ projectOrder \in Seq(Projects)
    /\ activeTab \in Tabs \cup {None} /\ activeProject \in Projects \cup {None}

\* s lists every element of S once.
Enumerates(s, S) == ToSet(s) = S /\ \A i, j \in 1 .. Len(s) : s[i] = s[j] => i = j

\* a stands before b in s.
Before(s, a, b) == \E i, j \in 1 .. Len(s) : i < j /\ s[i] = a /\ s[j] = b

(***************************************************************************)
(* The two records of every link agree: a pane is listed once by the tab   *)
(* it names, the orders list what exists, and no tab names a dead project. *)
(***************************************************************************)
LinksAgree ==
    /\ SessionTypeOK
    /\ Enumerates(tabOrder, Live(tabs))
    /\ Enumerates(projectOrder, Live(projects))
    /\ \A t \in Live(tabs) :
          /\ tabs[t].project \in Live(projects)
          /\ Enumerates(tabs[t].panes, {q \in Live(panes) : panes[q].tab = t})
    /\ \A q \in Live(panes) : panes[q].tab \in Live(tabs)

(***************************************************************************)
(* The global tab order, restricted to one project, is that project's own  *)
(* list: what daemon-side iteration shows agrees with what the client      *)
(* rebuilds from TabIDs after any mix of reorders, merges and closes.      *)
(***************************************************************************)
OrdersAgree ==
    \A p \in Live(projects) :
        LET ids == projects[p].tabIDs
        IN  /\ Enumerates(ids, {t \in Live(tabs) : tabs[t].project = p})
            /\ \A t, u \in ToSet(ids) : Before(ids, t, u) => Before(tabOrder, t, u)

\* The active tab and every remembered tab are live, and a remembered tab is
\* its own project's: SwitchProject and the restore trust these fields.
ActiveOnesLive ==
    /\ activeTab \in Live(tabs) \cup {None}
    /\ activeProject \in Live(projects) \cup {None}
    /\ activeProject = None <=> Live(projects) = {}
    /\ \A p \in Live(projects) :
          projects[p].activeTab \in ToSet(projects[p].tabIDs) \cup {None}

\* Whenever the active project changes, the active tab is one of its tabs,
\* unless it has none: the client shows only the active project's tabs.
ActiveTabFollowsProject ==
    [][activeProject' # activeProject /\ activeProject' # None =>
         LET ids == projects'[activeProject'].tabIDs
         IN  ids = <<>> \/ Contains(ids, activeTab')]_session

\* The manager's maps, orders and remembered tabs agree after any sequence of
\* its operations, a close, a merge and a reorder of the same project included.
SessionSound == LinksAgree /\ OrdersAgree /\ ActiveOnesLive

\* For TLC: identifiers are interchangeable.
Ids == Permutations(Tabs) \cup Permutations(Panes) \cup Permutations(Projects)
=============================================================================

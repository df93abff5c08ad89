---------------------------- MODULE ProjectForm -----------------------------
(***************************************************************************)
(* The New Project and Rename Project dialogs                              *)
(* (internal/tui/projectdialog.go, dialdest.go) and the daemon's answer    *)
(* (internal/daemon/project.go UpdateProject, MergeProjects).  The form    *)
(* points at a machine, which may have to be dialled and installed first;  *)
(* listings, dials, broadcasts and another client's changes arrive while   *)
(* the user types.  A remote host holds one project, so creating there     *)
(* adopts the daemon's own, or folds what it finds after a second Enter.   *)
(***************************************************************************)
EXTENDS Integers, Sequences, SequencesExt

CONSTANTS Remote,      \* the one remote host
          MaxTyped,    \* bound: keys and messages that change the form
          MaxOthers    \* bound: what another client and the link do

VARIABLES filled,   \* the projectForm* fields
          known,    \* the client's projects on the remote host
          onHost,   \* what the host's daemon holds
          linked,   \* the client is connected and attached to it
          toHost,   \* messages on the way there
          formDid,  \* history: what the last step sent or applied
          typed, others

formVars == <<filled, known, onHost, linked, toHost, formDid, typed, others>>

FormHere == "here"
Machines == {FormHere, Remote}
NoFormDir == "none"

ASSUME FormAssumption == Remote \notin {FormHere, NoFormDir}

NoPlan == [into |-> NoFormDir, survivor |-> 0, absorb |-> <<>>, name |-> 0, tabs |-> 0]
Blank0 == [kind |-> "none", says |-> <<>>, of |-> NoPlan]
Quiet0 == [cmd |-> "none", dest |-> FormHere, root |-> NoFormDir, plan |-> NoPlan, line |-> NoPlan, was |-> "none"]

\* The project of this machine, whose name is taken here.
LocalName == 2

Closed0 == [dialog |-> "none", id |-> NoFormDir, name |-> 0, remote |-> FALSE, typedHost |-> FALSE,
            dest |-> FormHere, dialing |-> FALSE, installing |-> FALSE, installed |-> FALSE,
            msg |-> Blank0, merge |-> NoPlan, root |-> NoFormDir, asking |-> NoFormDir]

\* What a host may hold: the daemon's own project, somebody's, or several.
Bootstrap == [id |-> "b", by |-> "daemon", name |-> 1, tabs |-> 1]
Named == [id |-> "a", by |-> "other", name |-> 5, tabs |-> 1]

FormInit ==
    /\ filled = Closed0
    /\ onHost \in {<<Bootstrap>>, <<Named>>, <<Bootstrap, Named>>}
    /\ linked \in BOOLEAN /\ known = IF linked THEN onHost ELSE <<>>
    /\ toHost = {} /\ formDid = Quiet0 /\ typed = 0 /\ others = 0
-----------------------------------------------------------------------------
(* Messages on the form's one line. *)

setFormError(g) == [g EXCEPT !.msg = [kind |-> "error", says |-> <<>>, of |-> NoPlan]]
setFormBusy(g) == [g EXCEPT !.msg = [kind |-> "busy", says |-> <<>>, of |-> NoPlan]]
setFormOK(g) == [g EXCEPT !.msg = [kind |-> "ok", says |-> <<>>, of |-> NoPlan]]

\* projectMergePlan.message names the host's project or counts them; not the ids.
Sentence(plan) ==
    IF plan.absorb = <<>> THEN <<plan.survivor, plan.name>> ELSE <<Len(plan.absorb) + 1, plan.name, plan.tabs>>
setFormWarn(g, plan) == [g EXCEPT !.msg = [kind |-> "warn", says |-> Sentence(plan), of |-> plan]]

\* resetProjectBrowseState, and a listing asked of a machine; an answer to an
\* earlier request is dropped by its generation.
resetProjectBrowseState(g) == [g EXCEPT !.root = NoFormDir, !.asking = NoFormDir]
requestBrowseDirForDest(g, dest) == [g EXCEPT !.asking = dest]
-----------------------------------------------------------------------------
(* Opening. *)

openNewProjectDialog(dest) ==
    requestBrowseDirForDest(
      [Closed0 EXCEPT !.dialog = "new", !.dest = dest, !.remote = dest # FormHere, !.typedHost = dest # FormHere,
                      !.installing = filled.installing, !.installed = filled.installed], dest)

\* beginProjectRename seeds the root with the project's own.
beginProjectRename(id, name, dest) ==
    requestBrowseDirForDest(
      [Closed0 EXCEPT !.dialog = "rename", !.id = id, !.name = name, !.dest = dest, !.remote = dest # FormHere,
                      !.typedHost = dest # FormHere, !.root = dest,
                      !.installing = filled.installing, !.installed = filled.installed], dest)
-----------------------------------------------------------------------------
(* Submitting. *)

\* planProjectMerge: the first project somebody named survives.
Survivor(projects) ==
    LET named == {i \in DOMAIN projects : projects[i].by # "daemon"}
    IN  IF named = {} THEN 1 ELSE CHOOSE i \in named : \A j \in named : i <= j
TabsOf(projects) == FoldLeft(LAMBDA n, p : n + p.tabs, 0, projects)

planProjectMerge(name, projects) ==
    LET s == Survivor(projects)
        rest == RemoveAt(projects, s)
    IN  [into |-> projects[s].id, survivor |-> projects[s].name, absorb |-> [i \in DOMAIN rest |-> rest[i].id],
         name |-> name, tabs |-> TabsOf(rest)]

\* foldIsConfirmed: the same plan, and its sentence is the one on screen.
foldIsConfirmedPlanOnly(g, plan) == g.merge = plan
foldIsConfirmed(g, plan) == g.merge = plan /\ g.msg.kind = "warn" /\ g.msg.says = Sentence(plan)

Out(cmd, dest, root, plan) == [Quiet0 EXCEPT !.cmd = cmd, !.dest = dest, !.root = root, !.plan = plan, !.line = filled.msg.of]
FormSends(g, m) == [form |-> [g EXCEPT !.dialog = "none"], out |-> m]
Stays0(g) == [form |-> g, out |-> Quiet0]

\* sendUpdateProject: the project must be there, and its name free.
projectNamed(name, dest, id) ==
    IF dest = FormHere THEN id # "l" /\ name = LocalName
    ELSE \E i \in DOMAIN known : known[i].id # id /\ known[i].name = name
sendUpdateProject(g, id, dest, root, adopt) ==
    IF dest = Remote /\ ~\E i \in DOMAIN known : known[i].id = id THEN Stays0(g)
    ELSE IF projectNamed(g.name, dest, id) THEN Stays0(setFormError(g))
    ELSE FormSends(g, Out(IF adopt THEN "adopt" ELSE "rename", dest, root, [NoPlan EXCEPT !.into = id, !.name = g.name]))

\* sendMergeProjects keeps the dialog when the message cannot leave.
sendMergeProjects(g, plan) == FormSends([g EXCEPT !.merge = NoPlan], Out("merge", Remote, NoFormDir, plan))

destReachableAlways(dest) == TRUE
destReachable(dest) == dest = FormHere \/ linked

submitNewProject(g) ==
    LET plan == planProjectMerge(g.name, known)
    IN  IF ~destReachable(g.dest) THEN Stays0(setFormError([g EXCEPT !.merge = NoPlan]))
        ELSE IF g.dest = Remote /\ Len(known) = 1 /\ known[1].by = "daemon"
          THEN sendUpdateProject(g, known[1].id, Remote, IF g.root = NoFormDir THEN Remote ELSE g.root, TRUE)
        ELSE IF g.dest = Remote /\ known # <<>>
          THEN IF foldIsConfirmed(g, plan) THEN sendMergeProjects(g, plan)
               ELSE Stays0(setFormWarn([g EXCEPT !.merge = plan], plan))
        ELSE IF g.dest = Remote /\ linked THEN Stays0(setFormBusy(g))
        ELSE IF projectNamed(g.name, g.dest, NoFormDir) THEN Stays0(setFormError(g))
        ELSE FormSends(g, Out("create", g.dest, g.root, NoPlan))

\* submitProjectForm: a rename goes to the project's own machine.
submitProjectForm(g) ==
    IF g.name = 0 THEN Stays0(setFormError(g))
    ELSE IF g.dialog = "new" THEN submitNewProject(g)
    ELSE sendUpdateProject(g, g.id, IF g.id = "l" THEN FormHere ELSE Remote, g.root, FALSE)
-----------------------------------------------------------------------------
(* Keys. *)

\* A key typed clears the line; backspace in Name does not.
typeName(g) == [g EXCEPT !.name = @ + 1, !.msg = Blank0]
backspaceName(g) == [g EXCEPT !.name = @ - 1]
handleProjectHostKey(g) == [g EXCEPT !.typedHost = ~@, !.msg = Blank0]

handleProjectRemoteKey(g) ==
    LET flipped == resetProjectBrowseState([g EXCEPT !.remote = ~@, !.msg = Blank0, !.dest = FormHere])
    IN  IF g.remote
        THEN requestBrowseDirForDest([flipped EXCEPT !.typedHost = FALSE, !.dialing = FALSE], FormHere)
        ELSE flipped

\* connectProjectHost: Enter on the Host row connects.
connectProjectHost(g) ==
    IF ~g.typedHost THEN setFormError(g)
    ELSE IF linked THEN requestBrowseDirForDest(resetProjectBrowseState([g EXCEPT !.dest = Remote]), Remote)
    ELSE setFormBusy([g EXCEPT !.dialing = TRUE])

\* handleProjectRootDirKey: another directory of the machine being browsed.
handleProjectRootDirKey(g) == requestBrowseDirForDest(g, g.dest)

FormKeys(g) ==
    {[g EXCEPT !.dialog = "none"], handleProjectRemoteKey(g), handleProjectRootDirKey(g)}
    \cup (IF g.name < 2 THEN {typeName(g)} ELSE {}) \cup (IF g.name > 0 THEN {backspaceName(g)} ELSE {})
    \cup (IF g.remote THEN {handleProjectHostKey(g), connectProjectHost(g)} ELSE {})

Form(g) ==
    /\ typed < MaxTyped /\ typed' = typed + 1
    /\ filled' = g /\ formDid' = Quiet0 /\ UNCHANGED <<known, onHost, linked, toHost, others>>

handleProjectDialogKey == filled.dialog # "none" /\ \E g \in FormKeys(filled) : Form(g)

OpenForm ==
    /\ filled.dialog = "none"
    /\ \/ Form(openNewProjectDialog(FormHere))
       \/ known # <<>> /\ Form(openNewProjectDialog(Remote))
       \/ Form(beginProjectRename("l", LocalName, FormHere))
       \/ \E i \in DOMAIN known : Form(beginProjectRename(known[i].id, 1, Remote))

PressEnter ==
    /\ filled.dialog # "none" /\ typed < MaxTyped /\ typed' = typed + 1
    /\ LET r == submitProjectForm(filled)
       IN  /\ filled' = r.form /\ formDid' = r.out
           /\ toHost' = IF r.out.cmd # "none" /\ r.out.dest = Remote /\ linked THEN toHost \cup {r.out} ELSE toHost
    /\ UNCHANGED <<known, onHost, linked, others>>
-----------------------------------------------------------------------------
(* Answers. *)

Arrives(g) ==
    /\ filled' = g /\ formDid' = Quiet0 /\ UNCHANGED <<onHost, toHost, typed, others>>

\* applyBrowseDir or applyBrowseTimeout.
BrowseAnswers ==
    /\ filled.asking # NoFormDir
    /\ \E g \in {[filled EXCEPT !.root = filled.asking, !.asking = NoFormDir], [filled EXCEPT !.asking = NoFormDir]} : Arrives(g)
    /\ UNCHANGED <<known, linked>>

\* destDialedMsg: connected and adopted, or offered an install once, or failed.
\* An answer for a host that is no longer dialled is dropped.
FormDestDialed ==
    /\ filled.dialing
    /\ \/ /\ linked' = TRUE
          /\ Arrives(requestBrowseDirForDest(resetProjectBrowseState(
                       [setFormOK(filled) EXCEPT !.dialing = FALSE, !.dest = Remote]), Remote))
       \/ /\ ~filled.installed /\ UNCHANGED linked
          /\ Arrives([setFormBusy(filled) EXCEPT !.dialing = FALSE, !.installing = TRUE, !.installed = TRUE])
       \/ UNCHANGED linked /\ Arrives([setFormError(filled) EXCEPT !.dialing = FALSE])
    /\ UNCHANGED known

\* destInstalledMsg dials again.
DestInstalled ==
    /\ filled.installing
    /\ \E g \in {[setFormError(filled) EXCEPT !.installing = FALSE],
                 [setFormBusy(filled) EXCEPT !.installing = FALSE, !.dialing = TRUE]} : Arrives(g)
    /\ UNCHANGED <<known, linked>>

\* A broadcast of the host's projects.
Broadcast0 ==
    /\ linked /\ known # onHost /\ known' = onHost
    /\ Arrives(filled) /\ UNCHANGED linked
-----------------------------------------------------------------------------
(* The host's daemon, its other clients, and the link. *)

Where(id) == {i \in DOMAIN onHost : onHost[i].id = id}

\* UpdateProject: an adoption only of a project nobody has named.
adoptableAny(p) == TRUE
adoptable(p) == p.by = "daemon"
UpdateProject(m) ==
    IF \A i \in Where(m.plan.into) : m.cmd = "adopt" /\ ~adoptable(onHost[i]) THEN onHost
    ELSE [i \in DOMAIN onHost |-> IF i \in Where(m.plan.into)
                                THEN [onHost[i] EXCEPT !.name = m.plan.name, !.by = "us"] ELSE onHost[i]]

\* One turn of MergeProjects' loop: the survivor and unknown projects are
\* skipped, the others leave it their tabs.
Absorb(h, into, id) ==
    LET src == CHOOSE i \in DOMAIN h : h[i].id = id
    IN  IF id = into \/ ~\E i \in DOMAIN h : h[i].id = id THEN h
        ELSE RemoveAt([i \in DOMAIN h |-> IF h[i].id = into THEN [h[i] EXCEPT !.tabs = @ + h[src].tabs] ELSE h[i]], src)

Folded(into, absorb) ==
    LET folded[n \in 0 .. Len(absorb)] ==
          IF n = 0 THEN onHost ELSE Absorb(folded[n - 1], into, absorb[n])
    IN  folded[Len(absorb)]

MergeProjects(m) ==
    LET left == Folded(m.plan.into, m.plan.absorb)
    IN  IF Where(m.plan.into) = {} THEN onHost
        ELSE [i \in DOMAIN left |-> IF left[i].id # m.plan.into THEN left[i]
                                    ELSE [left[i] EXCEPT !.name = m.plan.name, !.by = "us"]]

HostHandles ==
    \E m \in toHost :
      /\ toHost' = toHost \ {m}
      /\ onHost' = CASE m.cmd = "merge" -> MergeProjects(m)
                   [] m.cmd = "create" -> Append(onHost, [Bootstrap EXCEPT !.id = "c", !.by = "us"])
                   [] OTHER -> UpdateProject(m)
      /\ formDid' = [Quiet0 EXCEPT !.cmd = "applied", !.line = m.plan,
                    !.was = IF m.cmd = "adopt" /\ onHost' # onHost THEN onHost[CHOOSE i \in Where(m.plan.into) : TRUE].by ELSE "none"]
      /\ UNCHANGED <<filled, known, linked, typed, others>>

Elsewhere(h, c, s) ==
    /\ others < MaxOthers /\ others' = others + 1
    /\ onHost' = h /\ linked' = c /\ known' = s /\ formDid' = Quiet0
    /\ UNCHANGED <<filled, toHost, typed>>

\* Another client names the daemon's project, opens a tab, or adds a project.
OtherNames == \E i \in DOMAIN onHost : onHost[i].by = "daemon" /\ Elsewhere([onHost EXCEPT ![i].by = "other", ![i].name = 5], linked, known)
OtherTabs == \E i \in DOMAIN onHost : onHost[i].tabs < 2 /\ Elsewhere([onHost EXCEPT ![i].tabs = 2], linked, known)
OtherAdds == Len(onHost) < 2 /\ onHost[1].id # "a" /\ Elsewhere(Append(onHost, Named), linked, known)

\* disconnectDest drops the connection and the host's projects.
disconnectDest == linked /\ Elsewhere(onHost, FALSE, <<>>)

FormNext ==
    \/ OpenForm \/ handleProjectDialogKey \/ PressEnter
    \/ BrowseAnswers \/ FormDestDialed \/ DestInstalled \/ Broadcast0
    \/ HostHandles \/ OtherNames \/ OtherTabs \/ OtherAdds \/ disconnectDest

FormSpec == FormInit /\ [][FormNext]_formVars
-----------------------------------------------------------------------------
\* A fold is sent only by an Enter pressed while the sentence of that very
\* plan was on screen.
FoldAsShown == formDid.cmd = "merge" => formDid.plan = formDid.line

\* No project is created beside the one a remote host always holds.
OnePerHost == formDid.cmd = "create" => formDid.dest = FormHere

\* A new project's directory was listed by the machine it is created on, and
\* an adopted one never loses its root.
RootsBelong ==
    /\ formDid.cmd = "create" => formDid.root \in {NoFormDir, formDid.dest}
    /\ formDid.cmd = "adopt" => formDid.root = Remote

\* Another client's name is never overwritten by an adoption decided before it.
AdoptionIsFirst == formDid.cmd = "applied" => formDid.was \in {"none", "daemon"}

\* The project form (projectdialog.go foldIsConfirmed, submitNewProject,
\* project.go UpdateProject): what it sends is what its lines said, to the
\* machine it browsed, whatever arrived while the user typed.
FormSound == FoldAsShown /\ OnePerHost /\ RootsBelong /\ AdoptionIsFirst
=============================================================================

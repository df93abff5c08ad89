------------------------------ MODULE ProcKill ------------------------------
(***************************************************************************)
(* Process reports and stopping a process inside a pane                    *)
(* (internal/tui/processes.go, internal/daemon/procreport.go,              *)
(* internal/proctree): the daemon enumerates the panes' process trees while*)
(* somebody looks, the client shows rows and confirms a kill, the daemon   *)
(* finds the process again and signals its subtree.  Meanwhile processes   *)
(* fork and exit and PIDs are used again.                                  *)
(*                                                                         *)
(* A process is named by its start time, which no two processes share; the *)
(* one-second tolerance of validateKillTarget is less than the model's unit*)
(* of time, and a PID is not recycled within it.                           *)
(***************************************************************************)
EXTENDS Integers, FiniteSets

CONSTANTS Pids,       \* process ids
          RootPid,    \* the pid the pane's own child starts with
          MaxStart,   \* bound: processes ever started
          MaxKills,   \* bound: kill requests sent
          MaxPolls    \* bound: report requests sent

ASSUME KillAssumption == MaxStart \in Nat \ {0}

VARIABLES procs,      \* start -> [pid, ppid, anc, up]; anc is its true ancestry
          clock,      \* start of the youngest process
          col,        \* the procCollector
          view,       \* the client's processesState and killPID/killStartMS
          calls,      \* requests and answers on the way
          sweep,      \* the daemon's one kill goroutine
          hit,        \* history: ancestries of the processes signalled
          meant,      \* history: processes whose kill was confirmed
          polls, kills

killVars == <<procs, clock, col, view, calls, sweep, hit, meant, polls, kills>>

NoStart == 0
RootStart == 1
Blank == [pid |-> RootPid, ppid |-> RootPid, anc |-> {}, up |-> FALSE]
NoKill == [pid |-> RootPid, start |-> NoStart]
NoRows == {}
Resting == [pc |-> "idle", todo |-> {}, termed |-> {}]

KillInit ==
    /\ procs = [s \in 1..MaxStart |->
                  IF s = RootStart THEN [pid |-> RootPid, ppid |-> RootPid, anc |-> {s}, up |-> TRUE] ELSE Blank]
    /\ clock = RootStart
    /\ col = [running |-> FALSE, due |-> FALSE, fresh |-> FALSE, last |-> NoRows]
    /\ view = [dialog |-> "none", rows |-> NoRows, have |-> FALSE, kill |-> NoKill]
    /\ calls = {} /\ sweep = Resting
    /\ hit = {} /\ meant = {} /\ polls = 0 /\ kills = 0
-----------------------------------------------------------------------------
(* The operating system. *)

Up == {s \in 1..MaxStart : procs[s].up}
InUse == {procs[s].pid : s \in Up}
Holder(pid) == {s \in Up : procs[s].pid = pid}

\* A process of the pane forks, or somebody else's starts (parent = NoStart).
Fork(parent, pid) ==
    /\ clock < MaxStart /\ pid \in Pids \ InUse
    /\ clock' = clock + 1
    /\ procs' = [procs EXCEPT ![clock + 1] =
                   [pid |-> pid, up |-> TRUE,
                    ppid |-> IF parent = NoStart THEN pid ELSE procs[parent].pid,
                    anc |-> {clock + 1} \cup IF parent = NoStart THEN {} ELSE procs[parent].anc]]
    /\ UNCHANGED <<col, view, calls, sweep, hit, meant, polls, kills>>

\* An orphan keeps the ppid it was read with: on Windows always, elsewhere when
\* its parent exits between the reads of one enumeration.
Exit(s) ==
    /\ s \in Up /\ procs' = [procs EXCEPT ![s] = Blank]
    /\ UNCHANGED <<clock, col, view, calls, sweep, hit, meant, polls, kills>>
-----------------------------------------------------------------------------
(* proctree. *)

\* spliced: a child older than its parent belongs to an earlier holder of
\* that pid; with a start unknown the link is kept.
spliced(parent, child, blind) == parent \notin blind /\ child \notin blind /\ child < parent

ChildrenIn(alive, blind, s) ==
    {c \in alive : /\ procs[c].ppid = procs[s].pid /\ procs[c].pid # procs[c].ppid
                   /\ ~spliced(s, c, blind)}

\* walk goes down a level at a time, refusing to visit a process twice.
Descend(up, blind) ==
    LET kids == {c \in Up \ up.seen : \E s \in up.at : c \in ChildrenIn(Up, blind, s)}
    IN  [at |-> kids, seen |-> up.seen \cup kids]

Levels(top, seen, blind) ==
    LET level[k \in 0 .. MaxStart] ==
          IF k = 0 THEN [at |-> top, seen |-> seen \cup top] ELSE Descend(level[k - 1], blind)
    IN  level

Node(s, depth, blind) == [start |-> s, pid |-> procs[s].pid, depth |-> depth, known |-> s \notin blind]
walk(top, seen, blind) ==
    LET level == Levels(top, seen, blind)
    IN  UNION {{Node(s, k + 1, blind) : s \in level[k].at} : k \in 0 .. MaxStart}

\* Build: the tree under the pane's child, each node once, with its depth.
Build(blind) == walk(Holder(RootPid), {}, blind)

\* The subtree of a node of a tree read with the given unknown starts.
Subtree(s, blind) == walk({s}, Holder(RootPid), blind)

\* unverifiableSubtrees: whatever hangs below a node with no known start.
unverifiableSubtrees(s, blind) ==
    LET below(x) == {n.start : n \in Subtree(x, blind)} \ {x}
    IN  UNION {below(x) : x \in {n.start : n \in Subtree(s, blind)} \cap blind}

\* EnrichStarts may fail for a process in one pass and not in the next.
Unreadable == {b \in SUBSET Up : Cardinality(b) <= 1}
-----------------------------------------------------------------------------
(* The collector. *)

\* Renew: asked for trees, the gate stays open and a worker starts if none runs.
Renew(c) == [c EXCEPT !.fresh = TRUE, !.running = TRUE, !.due = @ \/ ~c.running]

\* collect: the pane is listed while its child lives.
CollectProcs ==
    /\ col.running /\ (col.due \/ col.fresh)
    /\ \E blind \in Unreadable :
         col' = [col EXCEPT !.due = FALSE,
                            !.last = {[pid |-> n.pid, start |-> IF n.known THEN n.start ELSE NoStart, depth |-> n.depth]
                                      : n \in Build(blind)}]
    /\ UNCHANGED <<procs, clock, view, calls, sweep, hit, meant, polls, kills>>

GateCloses ==
    /\ col.fresh /\ col' = [col EXCEPT !.fresh = FALSE]
    /\ UNCHANGED <<procs, clock, view, calls, sweep, hit, meant, polls, kills>>

\* expired: the worker ends and its snapshot with it.
expired ==
    /\ col.running /\ ~col.due /\ ~col.fresh
    /\ col' = [col EXCEPT !.running = FALSE, !.last = NoRows]
    /\ UNCHANGED <<procs, clock, view, calls, sweep, hit, meant, polls, kills>>
-----------------------------------------------------------------------------
(* The client. *)

openProcessesDialog ==
    /\ view.dialog = "none"
    /\ view' = [view EXCEPT !.dialog = "processes"]
    /\ UNCHANGED <<procs, clock, col, calls, sweep, hit, meant, polls, kills>>
CloseProcesses ==
    /\ view.dialog = "processes"
    /\ view' = [view EXCEPT !.dialog = "none"]
    /\ UNCHANGED <<procs, clock, col, calls, sweep, hit, meant, polls, kills>>

\* The 5 s tick, or "r": trees only while the dialog is open, one at a time
\* until resourceRequestTimeout, which any tick may be past.
requestTrees ==
    /\ polls < MaxPolls /\ polls' = polls + 1
    /\ calls' = calls \cup {[call |-> "report", trees |-> view.dialog = "processes"]}
    /\ UNCHANGED <<procs, clock, col, view, sweep, hit, meant, kills>>

applyResourceReport(v, withTrees, rows) ==
    IF v.dialog # "processes" \/ (~withTrees /\ v.have) THEN v
    ELSE [v EXCEPT !.rows = rows, !.have = TRUE]

\* "K" on a process row; rows of depth 1 are not killable.
confirmKillProcess ==
    /\ view.dialog = "processes"
    /\ \E r \in view.rows :
         /\ r.depth >= 2
         /\ view' = [view EXCEPT !.dialog = "confirm", !.kill = [pid |-> r.pid, start |-> r.start]]
    /\ UNCHANGED <<procs, clock, col, calls, sweep, hit, meant, polls, kills>>

\* "y": sendKillProcess with what the dialog showed.
sendKillProcess ==
    /\ view.dialog = "confirm" /\ kills < MaxKills /\ kills' = kills + 1
    /\ calls' = calls \cup {[call |-> "kill", pid |-> view.kill.pid, start |-> view.kill.start]}
    /\ meant' = meant \cup {view.kill.start}
    /\ view' = [view EXCEPT !.dialog = "processes", !.kill = NoKill]
    /\ UNCHANGED <<procs, clock, col, sweep, hit, polls>>
CancelKill ==
    /\ view.dialog = "confirm"
    /\ view' = [view EXCEPT !.dialog = "processes", !.kill = NoKill]
    /\ UNCHANGED <<procs, clock, col, calls, sweep, hit, meant, polls, kills>>

TakeReport(c) ==
    /\ c.call = "reported"
    /\ view' = applyResourceReport(view, c.trees, c.rows)
    /\ calls' = calls \ {c}
    /\ UNCHANGED <<procs, clock, col, sweep, hit, meant, polls, kills>>
-----------------------------------------------------------------------------
(* The daemon's handlers. *)

handleResourceReportReq(c) ==
    /\ c.call = "report"
    /\ col' = IF c.trees THEN Renew(col) ELSE col
    /\ calls' = (calls \ {c}) \cup
                {[call |-> "reported", trees |-> c.trees, rows |-> IF c.trees THEN col'.last ELSE NoRows]}
    /\ UNCHANGED <<procs, clock, view, sweep, hit, meant, polls, kills>>

\* validateKillTarget, on a tree read now: in the pane, not its own child, and
\* the process the client saw.
validateKillTargetLoose(tree, req) == {n \in tree : n.pid = req.pid /\ n.depth >= 2 /\ n.known}
validateKillTarget(tree, req) ==
    {n \in tree : /\ n.pid = req.pid /\ n.depth >= 2
                  /\ n.known /\ req.start # NoStart /\ n.start = req.start}

\* handleKillProcessReq: one sweep at a time; a second is refused.
handleKillProcessReq(c) ==
    /\ c.call = "kill" /\ calls' = calls \ {c}
    /\ \E blind \in Unreadable :
         LET target == IF sweep.pc # "idle" THEN {} ELSE validateKillTarget(Build(blind), c)
             t == (CHOOSE n \in target : TRUE).start
         IN  sweep' = IF target = {} THEN sweep
                      ELSE [Resting EXCEPT !.pc = "term",
                              !.todo = {n \in Subtree(t, blind) : n.start \notin unverifiableSubtrees(t, blind)}]
    /\ UNCHANGED <<procs, clock, col, view, hit, meant, polls, kills>>

\* signalPinned: the descriptor is opened, the identity checked on it, and the
\* signal sent through it.
Signalled(n) == IF n.known /\ Holder(n.pid) = {n.start} THEN Holder(n.pid) ELSE {}

\* TermPass: children before parents.
TermPass ==
    /\ sweep.pc = "term" /\ sweep.todo # {}
    /\ \E n \in sweep.todo :
         /\ \A o \in sweep.todo : o.depth <= n.depth
         /\ hit' = hit \cup {procs[s].anc : s \in Signalled(n)}
         /\ sweep' = [sweep EXCEPT !.todo = @ \ {n}, !.termed = IF Signalled(n) # {} THEN @ \cup {n} ELSE @]
    /\ UNCHANGED <<procs, clock, col, view, calls, meant, polls, kills>>

GraceBegins ==
    /\ sweep.pc = "term" /\ sweep.todo = {}
    /\ sweep' = IF sweep.termed = {} THEN Resting
                ELSE [sweep EXCEPT !.pc = "kill", !.todo = sweep.termed, !.termed = {}]
    /\ UNCHANGED <<procs, clock, col, view, calls, hit, meant, polls, kills>>

\* Escalate: whoever is still the same process is killed; aliveWithStart.
aliveWithStart(n) == Holder(n.pid) = {n.start}
Escalate ==
    /\ sweep.pc = "kill"
    /\ IF sweep.todo = {} THEN sweep' = Resting /\ UNCHANGED <<procs, hit>>
       ELSE \E n \in sweep.todo :
              /\ sweep' = [sweep EXCEPT !.todo = @ \ {n}]
              /\ IF aliveWithStart(n)
                 THEN /\ hit' = hit \cup {procs[s].anc : s \in Holder(n.pid)}
                      /\ procs' = [s \in DOMAIN procs |->
                                     IF s \in Holder(n.pid) THEN Blank ELSE procs[s]]
                 ELSE UNCHANGED <<procs, hit>>
    /\ UNCHANGED <<clock, col, view, calls, meant, polls, kills>>
-----------------------------------------------------------------------------
KillNext ==
    \/ \E s \in Up \cup {NoStart}, pid \in Pids : Fork(s, pid)
    \/ \E s \in Up : Exit(s)
    \/ CollectProcs \/ GateCloses \/ expired
    \/ openProcessesDialog \/ CloseProcesses \/ requestTrees \/ confirmKillProcess \/ sendKillProcess \/ CancelKill
    \/ \E c \in calls : TakeReport(c) \/ handleResourceReportReq(c) \/ handleKillProcessReq(c)
    \/ TermPass \/ GraceBegins \/ Escalate

KillSpec == KillInit /\ [][KillNext]_killVars
-----------------------------------------------------------------------------
\* Only a process whose kill was confirmed, or one that descends from it, is
\* ever signalled, and never the pane's own child, however processes exit,
\* fork and take over PIDs between the report, the confirm, the enumeration,
\* the first signal and the forced one (procreport.go validateKillTarget,
\* proctree/kill.go Sweep).
StopsWhatWasConfirmed == \A a \in hit : a # {RootStart} /\ a \cap meant # {}
=============================================================================

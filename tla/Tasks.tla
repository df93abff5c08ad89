-------------------------------- MODULE Tasks -------------------------------
(***************************************************************************)
(* Work one agent's pane delegates to another (internal/daemon/task.go),   *)
(* and the ledger of hook events that says when a pane is at rest          *)
(* (internal/hookevents/ledger.go, internal/daemon/workstate.go).  Ended   *)
(* tasks the registry forgets at its limit are left out.  An               *)
(* event is applied to the ledger and observed for tasks in two steps, by  *)
(* two goroutines: the hook ingester's and the output stream's.            *)
(***************************************************************************)
EXTENDS Integers, Sequences, FiniteSets

CONSTANTS TaskIds, Worker, Requester, \* tasks; the pane that works, the one that asks
          MaxTurns                    \* bound: work events

VARIABLES task,    \* each task: state, timer, times done was closed, notice
          work,    \* each pane's WorkLedger
          settle,    \* each pane's settle timers, see NoTimers
          subs,    \* each pane's idleSubs
          calls,   \* what goroutines have unlocked to run: callbacks, notices to place
          seenBy,  \* what each emitter has applied and not yet observed
          turns,   \* events so far
          stuck    \* history: a settle window closed on a parked pane

taskVars == <<task, work, settle, subs, calls, seenBy, turns, stuck>>

WorkPanes == {Worker, Requester}
Emitters == {"hook", "stream"}
Nothing == [kind |-> "none", pane |-> Worker]
Terminal(st) == st \in {"done", "failed", "timeout"}
Live(t) == task[t].st \in {"sent", "working"}

\* A callback is a completion or a notice, run as aborted or not; "tell" is
\* finishTask after its unlock, on its way to notifyRequester.
Call(kind, t, aborted) == [kind |-> kind, task |-> t, aborted |-> aborted]
Calls == [kind : {"done", "notice", "tell"}, task : TaskIds, aborted : BOOLEAN]

\* idleTimer is set; timers scheduled; timers that fired and wait for workMu.
NoTimers == [set |-> FALSE, due |-> 0, fired |-> 0]

TaskInit ==
    /\ task = [t \in TaskIds |-> [st |-> "new", timer |-> "off", doomed |-> FALSE, closed |-> 0,
                                  owed |-> FALSE, notice |-> 0, crashed |-> FALSE]]
    /\ work = [p \in WorkPanes |-> [seen |-> FALSE, turn |-> FALSE, subagents |-> 0,
                                    blocked |-> FALSE, aborted |-> FALSE]]
    /\ settle = [p \in WorkPanes |-> NoTimers]
    /\ subs = [p \in WorkPanes |-> {}] /\ calls = {}
    /\ seenBy = [e \in Emitters |-> Nothing]
    /\ turns = 0 /\ stuck = FALSE
-----------------------------------------------------------------------------
(* WorkLedger. *)

IsWorking(w) == w.turn \/ w.subagents > 0
StateOf(w) ==
    IF ~w.seen THEN "unknown" ELSE IF w.blocked THEN "blocked"
    ELSE IF IsWorking(w) THEN "working" ELSE "idle"

\* Apply, by kind of event.  Notify stands for a notification while a turn
\* runs, or one that is not about idleness.
Apply(w, kind) ==
    LET s == [w EXCEPT !.seen = TRUE]
    IN  CASE kind = "start"    -> [s EXCEPT !.turn = TRUE, !.blocked = FALSE, !.aborted = FALSE]
          [] kind = "stop"     -> [s EXCEPT !.turn = FALSE, !.blocked = FALSE]
          [] kind = "final"    -> [s EXCEPT !.turn = FALSE, !.blocked = FALSE, !.subagents = 0]
          [] kind = "substart" -> [s EXCEPT !.subagents = @ + 1]
          [] kind = "substop"  -> [s EXCEPT !.subagents = IF @ > 0 THEN @ - 1 ELSE 0]
          [] kind = "park"     -> [s EXCEPT !.blocked = TRUE]
          [] kind = "exit"     -> [s EXCEPT !.turn = FALSE, !.subagents = 0, !.blocked = FALSE,
                                            !.aborted = TRUE]

HookKinds == {"start", "stop", "final", "substart", "substop", "park"}
-----------------------------------------------------------------------------
(* Ends of tasks. *)

\* finishTask's locked part: the first to come decides.
Finish(f, t, st) ==
    IF Terminal(f[t].st) THEN f
    ELSE [f EXCEPT ![t].st = st, ![t].closed = @ + 1,
                   ![t].timer = IF @ = "armed" THEN "off" ELSE @]

\* finishTask, up to notifyRequester.
EndTask(f, t, st) ==
    /\ task' = IF Terminal(f[t].st) THEN f ELSE [Finish(f, t, st) EXCEPT ![t].owed = TRUE]
    /\ calls' = IF Terminal(f[t].st) THEN calls ELSE calls \cup {Call("tell", t, FALSE)}

\* Mutant of RestAnswer: the ledger's level alone decides, and a crash leaves it idle.
RestAnswerByLevel(p) == IF StateOf(work[p]) = "idle" /\ ~settle[p].set THEN "idle" ELSE "wait"

\* onPaneIdle under workMu: a dead pane and one confirmed idle answer now.
RestAnswer(p) ==
    IF work[p].aborted THEN "aborted"
    ELSE IF StateOf(work[p]) = "idle" /\ ~settle[p].set THEN "idle" ELSE "wait"

\* onPaneIdle: the callback runs after the unlock, or once the pane settles.
OnPaneIdle(p, kind, t, others) ==
    LET waits == RestAnswer(p) = "wait"
    IN  /\ subs' = IF waits THEN [subs EXCEPT ![p] = @ \cup {<<kind, t>>}] ELSE subs
        /\ calls' = IF waits THEN others ELSE others \cup {Call(kind, t, RestAnswer(p) = "aborted")}

\* The subscribers of a pane, taken under workMu and run later.
Taken(p, aborted) == {Call(x[1], x[2], aborted) : x \in subs[p]}

\* A completion does nothing when it is told of an exit, or the task has ended.
RunDone(c) ==
    /\ c \in calls /\ c.kind = "done"
    /\ IF c.aborted \/ ~Live(c.task) THEN calls' = calls \ {c} /\ UNCHANGED task
       ELSE /\ task' = [Finish(task, c.task, "done") EXCEPT ![c.task].owed = TRUE]
            /\ calls' = (calls \ {c}) \cup {Call("tell", c.task, FALSE)}
    /\ UNCHANGED <<work, settle, subs, seenBy, turns, stuck>>

\* notifyRequester: its notice is typed once the asking pane rests.
NotifyRequester(c) ==
    /\ c \in calls /\ c.kind = "tell"
    /\ OnPaneIdle(Requester, "notice", c.task, calls \ {c})
    /\ UNCHANGED <<task, work, settle, seenBy, turns, stuck>>

\* The notice is typed, dead pane or not.
RunNotice(c) ==
    /\ c \in calls /\ c.kind = "notice"
    /\ task' = [task EXCEPT ![c.task].notice = @ + 1]
    /\ calls' = calls \ {c}
    /\ UNCHANGED <<work, settle, subs, seenBy, turns, stuck>>
-----------------------------------------------------------------------------
(* delegateTask. *)

\* addLive refuses a pane that has a live task.
Delegate(t) ==
    /\ task[t].st = "new"
    /\ ~\E u \in TaskIds : Live(u)
    /\ task' = [task EXCEPT ![t].st = "sent"]
    /\ UNCHANGED <<work, settle, subs, calls, seenBy, turns, stuck>>

\* The pane's input queue refuses the prompt.
Undelivered(t) ==
    /\ task[t].st = "sent"
    /\ task' = Finish(task, t, "failed")
    /\ UNCHANGED <<work, settle, subs, calls, seenBy, turns, stuck>>

\* arm refuses a task that has ended meanwhile.
ArmTimeout(t) ==
    /\ Live(t) /\ task[t].timer = "off"
    /\ task' = [task EXCEPT ![t].timer = "armed"]
    /\ UNCHANGED <<work, settle, subs, calls, seenBy, turns, stuck>>

\* Stop does not call a fired timer's callback back.
TaskTimerFires(t) ==
    /\ task[t].timer = "armed"
    /\ task' = [task EXCEPT ![t].timer = "fired"]
    /\ UNCHANGED <<work, settle, subs, calls, seenBy, turns, stuck>>

TaskTimesOut(t) ==
    /\ task[t].timer = "fired"
    /\ EndTask([task EXCEPT ![t].timer = "spent"], t, "timeout")
    /\ UNCHANGED <<work, settle, subs, seenBy, turns, stuck>>

\* failTasksForPane, the working pane destroyed: the live tasks are listed,
\* then each is failed.
WorkerDestroyed ==
    /\ \E t \in TaskIds : Live(t) /\ ~task[t].doomed
    /\ task' = [t \in TaskIds |-> [task[t] EXCEPT !.doomed = @ \/ Live(t)]]
    /\ UNCHANGED <<work, settle, subs, calls, seenBy, turns, stuck>>

FailDoomed(t) ==
    /\ task[t].doomed
    /\ EndTask([task EXCEPT ![t].doomed = FALSE], t, "failed")
    /\ UNCHANGED <<work, settle, subs, seenBy, turns, stuck>>
-----------------------------------------------------------------------------
(* emitEvent. *)

\* idleTimer.Stop: the timer it points to is the last one scheduled, and may
\* have fired.
Stopped(i) == IF i.set THEN [i EXCEPT !.set = FALSE, !.due = IF @ > 0 THEN @ - 1 ELSE 0] ELSE i

\* An exit with a task in flight, whose completion nobody has taken to run, and
\* no start since: a crash.
Crashes(t) == Live(t) /\ Call("done", t, FALSE) \notin calls

\* applyWorkEvent: under workMu.  Work stops the idle timer, falling idle
\* starts it, an exit takes the waiting callbacks to run as aborted.
ApplyWorkEvent(e, p, kind) ==
    LET w == Apply(work[p], kind)
        exit == kind = "exit"
        fell == IsWorking(work[p]) /\ ~IsWorking(w) /\ ~exit
        halted == IF exit \/ fell \/ StateOf(w) = "working" THEN Stopped(settle[p]) ELSE settle[p]
        crash(t) == IF exit THEN Crashes(t) ELSE IF kind = "start" THEN FALSE ELSE task[t].crashed
    IN  /\ seenBy[e].kind = "none" /\ turns < MaxTurns
        /\ turns' = turns + 1
        /\ work' = [work EXCEPT ![p] = w]
        /\ settle' = [settle EXCEPT ![p] = IF fell THEN [halted EXCEPT !.set = TRUE, !.due = @ + 1]
                                       ELSE halted]
        /\ calls' = IF exit THEN calls \cup Taken(p, TRUE) ELSE calls
        /\ subs' = IF exit THEN [subs EXCEPT ![p] = {}] ELSE subs
        /\ task' = IF p = Worker THEN [t \in TaskIds |-> [task[t] EXCEPT !.crashed = crash(t)]] ELSE task
        /\ seenBy' = [seenBy EXCEPT ![e] =
             [kind |-> IF exit THEN "exit" ELSE IF fell THEN "fell"
                       ELSE IF StateOf(w) = "working" THEN "working" ELSE "other",
              pane |-> p]]
        /\ UNCHANGED stuck

\* taskObserve, for the one task that can be live.
TaskObserve(e) ==
    LET p == seenBy[e].pane
        k == seenBy[e].kind
        live == {t \in TaskIds : Live(t) /\ p = Worker}
        t == CHOOSE x \in live : TRUE
    IN  /\ k # "none"
        /\ seenBy' = [seenBy EXCEPT ![e] = Nothing]
        /\ CASE live = {} \/ k = "other" -> UNCHANGED <<task, subs, calls>>
             [] live # {} /\ k = "exit" -> EndTask(task, t, "failed") /\ UNCHANGED subs
             [] live # {} /\ k = "working" ->
                  task' = [task EXCEPT ![t].st = "working"] /\ UNCHANGED <<subs, calls>>
             [] live # {} /\ k = "fell" -> OnPaneIdle(p, "done", t, calls) /\ UNCHANGED task
        /\ UNCHANGED <<work, settle, turns, stuck>>

SettleFires(p) ==
    /\ settle[p].due > 0
    /\ settle' = [settle EXCEPT ![p].due = @ - 1, ![p].fired = @ + 1]
    /\ UNCHANGED <<task, work, subs, calls, seenBy, turns, stuck>>

\* settleIdle under workMu: a pane still at rest gives up its subscribers.
SettleIdle(p) ==
    LET rests == StateOf(work[p]) = "idle"
    IN  /\ settle[p].fired > 0
        /\ settle' = [settle EXCEPT ![p].set = FALSE, ![p].fired = @ - 1]
        /\ subs' = IF rests THEN [subs EXCEPT ![p] = {}] ELSE subs
        /\ calls' = IF rests THEN calls \cup Taken(p, work[p].aborted) ELSE calls
        /\ stuck' = (stuck \/ StateOf(work[p]) = "blocked")
        /\ UNCHANGED <<task, work, seenBy, turns>>

RunCall(c) == RunDone(c) \/ NotifyRequester(c) \/ RunNotice(c)

TaskNext ==
    \/ \E t \in TaskIds : Delegate(t) \/ Undelivered(t) \/ ArmTimeout(t) \/ TaskTimerFires(t)
                          \/ TaskTimesOut(t) \/ FailDoomed(t)
    \/ WorkerDestroyed
    \/ \E k \in HookKinds : ApplyWorkEvent("hook", Worker, k)
    \/ \E k \in {"start", "stop"} : ApplyWorkEvent("hook", Requester, k)
    \/ ApplyWorkEvent("stream", Worker, "exit")
    \/ \E e \in Emitters : TaskObserve(e)
    \/ \E p \in WorkPanes : SettleFires(p) \/ SettleIdle(p)
    \/ \E c \in Calls : RunCall(c)

TaskFairness ==
    /\ \A e \in Emitters : WF_taskVars(TaskObserve(e))
    /\ \A p \in WorkPanes : WF_taskVars(SettleFires(p)) /\ WF_taskVars(SettleIdle(p))
    /\ \A c \in Calls : WF_taskVars(RunCall(c))
    /\ \A t \in TaskIds : WF_taskVars(TaskTimesOut(t))
-----------------------------------------------------------------------------
\* A task ends once: its done channel is closed exactly when its state becomes
\* final, whichever of the exit, the timeout, the rest, the destroyed pane and
\* the refused prompt comes first; the requester's notice is typed at most once,
\* and until then it waits in idleSubs or with a goroutine that runs it; and a
\* crash is never reported as a completion, although the turn's end and the
\* exit are applied and observed by two goroutines (workstate.go:137-148).
EndsOnce(t) ==
    /\ task[t].closed = IF Terminal(task[t].st) THEN 1 ELSE 0
    /\ task[t].notice <= task[t].closed
    /\ task[t].owed => \/ task[t].notice = 1 \/ <<"notice", t>> \in subs[Requester]
                       \/ \E c \in calls : c.task = t /\ c.kind \in {"tell", "notice"}
    /\ task[t].crashed => task[t].st # "done"

\* A pane that came to rest ends the task it was working on: no task waits
\* for ever on a pane that is idle, unless its settle window closed while it
\* was parked: the answer that unparks it is no new edge.
RestEndsTask == TaskFairness =>
    \A t \in TaskIds :
        []<>(task[t].st # "working" \/ StateOf(work[Worker]) # "idle"
             \/ work[Worker].aborted \/ stuck)

\* A task ends once, and it ends when its pane comes to rest.
TasksEnd == [](\A t \in TaskIds : EndsOnce(t)) /\ RestEndsTask
=============================================================================

----------------------------- MODULE IdleCheck ------------------------------
(***************************************************************************)
(* When a pane's silence is worth a notification: the idle checker, the    *)
(* output and the agent hooks that hold it off (internal/daemon/daemon.go, *)
(* checkIdlePanes).  Times are ages in ticks of the checker, capped.       *)
(***************************************************************************)
EXTENDS Integers

CONSTANTS Threshold,  \* silence before an idle event
          IdlePause   \* its cooldown, and the time a hook event counts for

VARIABLES idle,       \* the pane: notified, age of output, idle event, hook event, exited
          checking,   \* the checker stands between its two locks
          told        \* history: silence since this output was reported or suppressed

idleVars == <<idle, checking, told>>
Never == -1

\* No output, idle event or hook event yet.
IdleInit ==
    /\ idle = [notified |-> FALSE, out |-> Never, event |-> Never, hook |-> Never, exited |-> FALSE]
    /\ checking = "no" /\ told = TRUE

Elapsed(a, d) == a >= d
Long(a, d) == a = Never \/ Elapsed(a, d)

\* Mutant of PaneOutput: the pane stays notified.
PaneOutputNotified ==
    /\ ~idle.exited
    /\ idle' = [idle EXCEPT !.out = 0]
    /\ told' = FALSE
    /\ UNCHANGED checking

\* flushPaneOutputGeneration: output ends the silence.
PaneOutput ==
    /\ ~idle.exited
    /\ idle' = [idle EXCEPT !.out = 0, !.notified = FALSE]
    /\ told' = FALSE
    /\ UNCHANGED checking

\* emitHookEvent marks the pane's hooks healthy.
HookEvent ==
    /\ idle' = [idle EXCEPT !.hook = 0]
    /\ UNCHANGED <<checking, told>>

\* A restart clears the exit, an exit sets it.
ExitOrRestart ==
    /\ idle' = [idle EXCEPT !.exited = ~@]
    /\ UNCHANGED <<checking, told>>

ShouldFire ==
    /\ ~idle.notified /\ idle.out # Never /\ ~idle.exited
    /\ Long(idle.hook, IdlePause)
    /\ Long(idle.event, IdlePause)
    /\ Elapsed(idle.out, Threshold)

\* checkIdlePanes, under PluginMu.
Check ==
    /\ checking = "no" /\ ShouldFire
    /\ idle' = [idle EXCEPT !.notified = TRUE, !.event = 0]
    /\ checking' = "fire"
    /\ UNCHANGED told

\* An empty prompt is not reported and costs no cooldown, the rest is emitted.
Report ==
    /\ checking = "fire"
    /\ checking' = "no"
    /\ idle' = idle \/ idle' = [idle EXCEPT !.event = Never]
    /\ told' = (idle.notified \/ told)

Older(a, d) == IF a = Never \/ a >= d THEN a ELSE a + 1
IdleTick ==
    /\ checking = "no" /\ ~ShouldFire
    /\ idle' = [idle EXCEPT !.out = Older(@, Threshold), !.event = Older(@, IdlePause),
                            !.hook = Older(@, IdlePause)]
    /\ UNCHANGED <<checking, told>>

IdleNext == PaneOutput \/ HookEvent \/ ExitOrRestart \/ Check \/ Report \/ IdleTick
IdleFairness == WF_idleVars(Check) /\ WF_idleVars(Report) /\ WF_idleVars(IdleTick)
-----------------------------------------------------------------------------
\* A pane that falls silent is reported, or found at an empty prompt, in the
\* end: unless it writes again and again, its hooks keep talking or it exits.
SilenceNoticed == IdleFairness => []<>(told \/ idle.out = 0 \/ idle.hook = 0 \/ idle.exited)
=============================================================================

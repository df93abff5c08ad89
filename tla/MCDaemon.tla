------------------------------ MODULE MCDaemon ------------------------------
(* The daemon's parts beside the session, each on its own: a behaviour     *)
(* takes one part and leaves the others in their initial state.            *)
EXTENDS PaneLife, Redraw, Events, IdleCheck, Tasks, Resume, Snapshot

\* The part this behaviour is about; the others stand still.
VARIABLE scope

DInit ==
    /\ scope \in {"pane", "redraw", "events", "idle", "tasks", "resume", "files"}
    /\ LifeInit
    /\ KickInit
    /\ EvInit
    /\ IdleInit
    /\ TaskInit
    /\ ResumeInit
    /\ Init

DNext ==
    /\ UNCHANGED scope
    /\ \/ /\ scope = "pane" /\ LifeNext
          /\ UNCHANGED <<kickVars, evVars, idleVars, taskVars, resumeVars, svars>>
       \/ /\ scope = "redraw" /\ KickNext
          /\ UNCHANGED <<lifeVars, evVars, idleVars, taskVars, resumeVars, svars>>
       \/ /\ scope = "events" /\ EvNext
          /\ UNCHANGED <<lifeVars, kickVars, idleVars, taskVars, resumeVars, svars>>
       \/ /\ scope = "idle" /\ IdleNext
          /\ UNCHANGED <<lifeVars, kickVars, evVars, taskVars, resumeVars, svars>>
       \/ /\ scope = "tasks" /\ TaskNext
          /\ UNCHANGED <<lifeVars, kickVars, evVars, idleVars, resumeVars, svars>>
       \/ /\ scope = "resume" /\ ResumeNext
          /\ UNCHANGED <<lifeVars, kickVars, evVars, idleVars, taskVars, svars>>
       \/ /\ scope = "files" /\ Next
          /\ UNCHANGED <<lifeVars, kickVars, evVars, idleVars, taskVars, resumeVars>>

dVars == <<scope, lifeVars, kickVars, evVars, idleVars, taskVars, resumeVars,
          svars>>
DSpec == DInit /\ [][DNext]_dVars
=============================================================================

------------------------------- MODULE Resume -------------------------------
(***************************************************************************)
(* Which Claude session a pane's process runs in                           *)
(* (internal/daemon/claudesessions.go, spawnPane's session part and        *)
(* claudeResumeTemplate in daemon.go, the SessionStart hook in             *)
(* internal/claudehook/runhook.go).  Two processes in one session          *)
(* interleave their appends and lose history, so the daemon hands a        *)
(* session out under resumeClaimMu to one pane at a time.                  *)
(***************************************************************************)
EXTENDS Integers, Sequences

CONSTANTS AgentPanes,  \* panes of a plugin that uses Claude sessions
          MaxSessions, \* bound: sessions ever begun
          MaxSpawned   \* bound: processes ever spawned

VARIABLES ap,      \* each pane: see Unborn
          onDisk,  \* sessions with a transcript
          fresh,   \* the last session id given
          spawns,  \* processes spawned
          gap      \* history: a session was entered past the claims, see ClaimsKeepApart

resumeVars == <<ap, onDisk, fresh, spawns, gap>>

None0 == 0
\* sid, path: PluginState's session_id and transcript_path; pick: its
\* resume_session_id; rec, recPath: the hook's session file; resume: the id of
\* --resume for the spawn under way; cur: the session the process is in.
Unborn == [st |-> "absent", sid |-> None0, path |-> FALSE, pick |-> None0, rec |-> None0,
           recPath |-> FALSE, had |-> FALSE, resume |-> None0, cur |-> None0, restored |-> FALSE]

ResumeInit ==
    /\ ap = [p \in AgentPanes |-> Unborn]
    /\ onDisk = {} /\ fresh = 0 /\ spawns = 0 /\ gap = FALSE

InProcess(p) == ap[p].st = "run"
Claiming(p) == ap[p].st \in {"published", "pending", "claim", "exec"}
Upd(p, r) == ap' = [ap EXCEPT ![p] = r]
-----------------------------------------------------------------------------
(* Claims. *)

\* claudeSessionIDs(true): the session pane q holds.  The hook's file wins over
\* PluginState, an exited pane holds nothing.
HeldBy(q) ==
    IF ~InProcess(q) /\ ~Claiming(q) THEN None0
    ELSE IF ap[q].rec # None0 THEN ap[q].rec
    ELSE IF ap[q].sid # None0 THEN ap[q].sid
    ELSE IF Claiming(q) THEN ap[q].pick
    ELSE None0

HeldByOther(p, s) == \E q \in AgentPanes \ {p} : HeldBy(q) = s /\ s # None0

\* Mutant of HeldElsewhere: panes that have not started yet are not asked.
HeldElsewhereRunning(p, s, last) ==
    \E q \in AgentPanes \ {p} : InProcess(q) /\ HeldBy(q) = s

\* inUse keeps one holder of an id, the last in tab order: when that is the
\* asking pane itself, the others' claims are overwritten.  Tabs can be moved at
\* any time, so any of the holders may be the last.
HeldElsewhere(p, s, last) == HeldByOther(p, s) /\ ~(last /\ HeldBy(p) = s)

\* constructPaneAt publishes the pane, then applyResumeSessionID.
Publish(p) ==
    /\ ap[p].st = "absent"
    /\ Upd(p, [Unborn EXCEPT !.st = "published"])
    /\ UNCHANGED <<onDisk, fresh, spawns, gap>>

\* The user's choice, or none; dropped when another pane holds the session.
ApplyResumeSessionID(p, s) ==
    /\ ap[p].st = "published"
    /\ Upd(p, [ap[p] EXCEPT !.st = "pending", !.pick = IF HeldElsewhere(p, s, FALSE) THEN None0 ELSE s])
    /\ UNCHANGED <<onDisk, fresh, spawns, gap>>
-----------------------------------------------------------------------------
(* spawnPane with restoring = false: a new pane, or Alt+R. *)

\* Under PluginMu: a pick the pane has moved on from is retired, the session
\* file's id is adopted, and a pane without a session gets the pick or a new id.
SettleSession(p) ==
    LET a == ap[p]
        pick == IF a.pick # None0 /\ a.rec # None0 /\ a.rec # a.pick THEN None0 ELSE a.pick
        had == a.sid # None0
        adopt == had /\ a.rec # None0 /\ a.sid # a.rec
        sid == IF adopt THEN a.rec ELSE IF had THEN a.sid
               ELSE IF pick # None0 THEN pick ELSE fresh + 1
    IN  /\ a.st = "pending" /\ ~a.restored /\ spawns < MaxSpawned
        /\ sid <= MaxSessions
        /\ Upd(p, [a EXCEPT !.st = "claim", !.pick = pick, !.sid = sid, !.had = had,
                            !.path = IF adopt THEN a.recPath ELSE @, !.resume = pick])
        /\ fresh' = IF sid > fresh THEN sid ELSE fresh
        /\ UNCHANGED <<onDisk, spawns, gap>>

\* claudeResumeCandidatesFrom: hook, workspace, user's pick, each id once, with
\* whether its path was recorded.
Candidate(id, path, before) == IF id \in before \cup {None0} THEN <<>> ELSE <<<<id, path>>>>
Candidates(p) ==
    LET a == ap[p]
    IN  Candidate(a.rec, a.recPath, {}) \o Candidate(a.sid, a.path, {a.rec})
          \o Candidate(a.pick, FALSE, {a.rec, a.sid})

\* transcriptState.
Located(c) == c[2] /\ c[1] \in onDisk
Missing(c) == c[2] /\ c[1] \notin onDisk

\* locatedOwnSession: a restart resumes the session whose transcript is there,
\* if the claim succeeds.
LocatedOwnSession(p, last) ==
    LET a == ap[p]
        c == Candidates(p)[1]
        own == a.resume = None0 /\ a.had /\ Located(c) /\ ~HeldElsewhere(p, c[1], last)
    IN  /\ a.st = "claim"
        /\ Upd(p, IF own THEN [a EXCEPT !.st = "exec", !.resume = c[1], !.sid = c[1], !.path = c[2]]
                  ELSE [a EXCEPT !.st = "exec"])
        /\ gap' = (gap \/ (own /\ HeldByOther(p, c[1])))
        /\ UNCHANGED <<onDisk, fresh, spawns>>
-----------------------------------------------------------------------------
(* spawnPane with restoring = true: claudeResumeTemplate. *)

\* usableResumeCandidates and claimResumeSession: the first that nobody holds.
Usable(p) == {i \in DOMAIN Candidates(p) : ~Missing(Candidates(p)[i])}
Free(p, last) == {i \in Usable(p) : ~HeldElsewhere(p, Candidates(p)[i][1], last)}
FirstFree(p, last) == Candidates(p)[CHOOSE i \in Free(p, last) : \A j \in Free(p, last) : i <= j]

\* A claim is invisible while the pane's session file names another session.
Hidden(p, s) == ap[p].rec # None0 /\ ap[p].rec # s

\* The claimed candidate, or freshClaudeSession when every one is held or gone.
\* A pane that never had a session is left to --continue, which enters the last
\* one used in its directory, whoever holds it, and fails where there is none.
ResumeTemplate(p, last) ==
    LET a == ap[p]
        c == FirstFree(p, last)
    IN  /\ a.st = "pending" /\ a.restored /\ spawns < MaxSpawned
        /\ \/ /\ Free(p, last) # {}
              /\ Upd(p, [a EXCEPT !.st = "exec", !.sid = c[1], !.path = c[2], !.resume = c[1]])
              /\ gap' = (gap \/ Hidden(p, c[1]) \/ HeldByOther(p, c[1]))
              /\ UNCHANGED fresh
           \/ /\ Free(p, last) = {} /\ Candidates(p) # <<>> /\ fresh < MaxSessions
              /\ fresh' = fresh + 1
              /\ Upd(p, [a EXCEPT !.st = "exec", !.sid = fresh + 1, !.path = FALSE, !.resume = None0])
              /\ UNCHANGED gap
           \/ /\ Candidates(p) = <<>>
              /\ IF onDisk = {} THEN Upd(p, [a EXCEPT !.st = "exited", !.restored = FALSE]) /\ UNCHANGED gap
                 ELSE (\E s \in onDisk : Upd(p, [a EXCEPT !.st = "exec", !.resume = s])) /\ gap' = TRUE
              /\ UNCHANGED fresh
        /\ UNCHANGED <<onDisk, spawns>>

\* The process starts: claude refuses --session-id of a session that has a
\* transcript and --resume of one that has none.  A restart's pick, and its own
\* id without a transcript, were not claimed again; and a pick that session_id
\* does not name (freshClaudeSession leaves it) is no claim others can see.
Exec(p) ==
    LET a == ap[p]
        s == IF a.resume # None0 THEN a.resume ELSE a.sid
        refused == (a.resume # None0) # (s \in onDisk)
    IN  /\ a.st = "exec"
        /\ Upd(p, [a EXCEPT !.st = IF refused THEN "exited" ELSE "run", !.restored = FALSE,
                            !.cur = IF refused THEN None0 ELSE s, !.resume = None0, !.had = FALSE])
        /\ spawns' = spawns + 1
        /\ gap' = (gap \/ (a.had /\ a.resume \in {None0, a.pick} /\ (HeldByOther(p, s) \/ HeldBy(p) # s)))
        /\ UNCHANGED <<onDisk, fresh>>
-----------------------------------------------------------------------------
(* The process and its hooks. *)

\* writeSessionFile on SessionStart.
SessionStart(p) ==
    /\ InProcess(p) /\ ap[p].rec # ap[p].cur
    /\ Upd(p, [ap[p] EXCEPT !.rec = ap[p].cur, !.recPath = TRUE])
    /\ UNCHANGED <<onDisk, fresh, spawns, gap>>

\* The first prompt creates the transcript.
Prompt(p) ==
    /\ InProcess(p) /\ ap[p].rec = ap[p].cur /\ ap[p].cur \notin onDisk
    /\ onDisk' = onDisk \cup {ap[p].cur}
    /\ UNCHANGED <<ap, fresh, spawns, gap>>

\* /clear rotates the session; the hook reports the new one later.
RotateSession(p) ==
    /\ InProcess(p) /\ ap[p].rec = ap[p].cur /\ fresh < MaxSessions
    /\ fresh' = fresh + 1
    /\ Upd(p, [ap[p] EXCEPT !.cur = fresh + 1])
    /\ UNCHANGED <<onDisk, spawns, gap>>

ProcessEnds(p) ==
    /\ InProcess(p)
    /\ Upd(p, [ap[p] EXCEPT !.st = "exited", !.cur = None0])
    /\ UNCHANGED <<onDisk, fresh, spawns, gap>>

\* Claude prunes an old transcript.
Prune ==
    /\ \E s \in onDisk : (\A p \in AgentPanes : ap[p].cur # s) /\ onDisk' = onDisk \ {s}
    /\ UNCHANGED <<ap, fresh, spawns, gap>>

\* handleRestartPaneReq: the old process is gone before the spawn.
RestartAgent(p) ==
    /\ ap[p].st \in {"run", "exited"}
    /\ Upd(p, [ap[p] EXCEPT !.st = "pending", !.cur = None0])
    /\ UNCHANGED <<onDisk, fresh, spawns, gap>>

\* Stop and the next start: refreshPluginStateFromHooks takes the session
\* file's id and drops the pick; every pane comes back pending.
Refresh(a) ==
    IF a.rec = None0 THEN a ELSE [a EXCEPT !.sid = a.rec, !.path = a.recPath, !.pick = None0]

DaemonRestart ==
    /\ \A p \in AgentPanes : ap[p].st \in {"absent", "pending", "run", "exited"}
    /\ \E p \in AgentPanes : ap[p].st \in {"run", "exited"}
    /\ \E clean \in BOOLEAN :
         ap' = [p \in AgentPanes |->
                  IF ap[p].st = "absent" THEN ap[p]
                  ELSE [(IF clean THEN Refresh(ap[p]) ELSE ap[p])
                          EXCEPT !.st = "pending", !.restored = TRUE, !.cur = None0]]
    /\ UNCHANGED <<onDisk, fresh, spawns, gap>>

ResumeNext ==
    \/ DaemonRestart \/ Prune
    \/ \E p \in AgentPanes :
         \/ Publish(p) \/ SettleSession(p) \/ Exec(p)
         \/ \E last \in BOOLEAN : LocatedOwnSession(p, last) \/ ResumeTemplate(p, last)
         \/ SessionStart(p) \/ Prompt(p) \/ RotateSession(p) \/ ProcessEnds(p) \/ RestartAgent(p)
         \/ \E s \in onDisk \cup {None0} : ApplyResumeSessionID(p, s)

ResumeSpec == ResumeInit /\ [][ResumeNext]_resumeVars
-----------------------------------------------------------------------------
\* Two running processes are never in the same session.
SessionsApart ==
    \A p, q \in AgentPanes : p # q /\ InProcess(p) /\ InProcess(q) => ap[p].cur # ap[q].cur

\* SessionsApart whichever panes are created, restarted, restored and cleared
\* in whatever order.  Excepted are a restart that replays the user's pick, or
\* its own id after the transcript was pruned, when another pane has taken the
\* session or the pane has been given another since; a restored pane whose
\* session file still names another session than the one it claimed; one without
\* any session, which --continue puts where it likes; and one that names the
\* session another pane holds and stands after it in tab order: its own entry
\* in inUse overwrites the holder's (claudesessions.go:505).
ClaimsKeepApart == gap \/ SessionsApart
=============================================================================

------------------------------- MODULE Launch -------------------------------
(***************************************************************************)
(* How daemons come and go around one socket and one pid file: quil's      *)
(* launch, its version gate and the daemon commands (cmd/quil), quild's    *)
(* guard and its start and stop (cmd/quild, Daemon.Start, Daemon.Stop).    *)
(* Nothing but the two files and a dial ties the processes together.       *)
(***************************************************************************)
EXTENDS Integers, FiniteSets

CONSTANTS Launchers,  \* quil processes
          MaxDaemons  \* bound: quild processes ever started

ASSUME LaunchAssumption == MaxDaemons \in Nat \ {0}

VARIABLES dmn,     \* each quild: st, ver
          sock,    \* whose socket file is at the path, or NoFile
          pidFile, \* whose pid is in the pid file, or NoFile
          lch,     \* each launcher: pc, cmd, the daemon it knows, pid it read
          cold,    \* history: two daemons stood between their probe and their listen
          blind    \* history: a launcher removed a live daemon's socket, or stopped a
                   \* daemon with another one's pid or none

launchVars == <<dmn, sock, pidFile, lch, cold, blind>>

NoFile == 0
OwnVersion == 2  \* the launchers' and their quild's; a running daemon may differ
Quilds == 1 .. MaxDaemons
Waiting == [pc |-> "new", cmd |-> "tui", d |-> 0, pid |-> 0]
Alive(d) == d # NoFile /\ dmn[d].st \notin {"none", "gone"}
Listening(d) == d # NoFile /\ dmn[d].st \in {"pid", "up", "wedged", "told"}

\* A clean home, one crashed daemon's files, or a daemon of some version.
LaunchInit ==
    /\ \E st \in {"none", "gone", "up"}, v \in {OwnVersion - 1, OwnVersion, OwnVersion + 1} :
         /\ dmn = [d \in Quilds |-> IF d = 1 THEN [st |-> st, ver |-> v]
                                    ELSE [st |-> "none", ver |-> 0]]
         /\ sock = IF st = "none" THEN NoFile ELSE 1
         /\ pidFile = sock
    /\ lch = [l \in Launchers |-> Waiting]
    /\ cold = FALSE /\ blind = FALSE

\* A dial succeeds on any listener, a handshake only on one that answers.
Dials == Listening(sock)
Answers == Dials /\ dmn[sock].st # "wedged"

At(l, pc) == lch[l].pc = pc
To(l, pc) == lch' = [lch EXCEPT ![l].pc = pc]
SetSt(d, st) == dmn' = [dmn EXCEPT ![d].st = st]
-----------------------------------------------------------------------------
(* quild. *)

\* daemonAlreadyHealthy: a redundant spawn exits.
Guard(d) ==
    /\ dmn[d].st = "guard"
    /\ SetSt(d, IF Answers THEN "gone" ELSE "probe")
    /\ UNCHANGED <<sock, pidFile, lch, cold, blind>>

\* Mutant of ProbeExisting: the daemon does not look again.
ProbeExistingSkipped(d) ==
    /\ dmn[d].st = "probe"
    /\ SetSt(d, "restore")
    /\ cold' = (cold \/ \E e \in Quilds \ {d} : dmn[e].st \in {"restore", "listen"})
    /\ UNCHANGED <<sock, pidFile, lch, blind>>

\* Start's probeExistingDaemon refuses whoever is listening.
ProbeExisting(d) ==
    /\ dmn[d].st = "probe"
    /\ SetSt(d, IF Dials THEN "gone" ELSE "restore")
    /\ cold' = (cold \/ (~Dials /\ \E e \in Quilds \ {d} : dmn[e].st \in {"restore", "listen"}))
    /\ UNCHANGED <<sock, pidFile, lch, blind>>

\* restoreWorkspace and respawnPanes, before anyone can dial.
RestoreFirst(d) ==
    /\ dmn[d].st = "restore"
    /\ SetSt(d, "listen")
    /\ UNCHANGED <<sock, pidFile, lch, cold, blind>>

\* Server.Start unlinks whatever is at the path and listens.
Listen(d) ==
    /\ dmn[d].st = "listen"
    /\ sock' = d
    /\ SetSt(d, "pid")
    /\ UNCHANGED <<pidFile, lch, cold, blind>>

WritePIDFile(d) ==
    /\ dmn[d].st = "pid"
    /\ pidFile' = d
    /\ SetSt(d, "up")
    /\ UNCHANGED <<sock, lch, cold, blind>>

\* Stop's first half, for a message or a signal: the listener's Close unlinks
\* the path, whoever bound it since.
StopListening(d) ==
    /\ dmn[d].st = "told"
    /\ SetSt(d, "closing")
    /\ sock' = NoFile
    /\ UNCHANGED <<pidFile, lch, cold, blind>>

\* Its second half, the final snapshot and the harvest, then removePIDFile.
FinishStop(d) ==
    /\ dmn[d].st = "closing"
    /\ SetSt(d, "gone")
    /\ pidFile' = NoFile
    /\ UNCHANGED <<sock, lch, cold, blind>>

\* A daemon that no longer serves anyone but still accepts.
Wedge(d) ==
    /\ dmn[d].st = "up"
    /\ SetSt(d, "wedged")
    /\ UNCHANGED <<sock, pidFile, lch, cold, blind>>
-----------------------------------------------------------------------------
(* quil: launchTUI, startDaemon and waitForDaemonReady. *)

\* quil, quil daemon restart or quil daemon stop.
LaunchQuil(l, cmd) ==
    /\ At(l, "new")
    /\ lch' = [lch EXCEPT ![l] = [Waiting EXCEPT !.cmd = cmd,
                     !.pc = IF cmd = "tui" THEN "dial" ELSE "readpid"]]
    /\ UNCHANGED <<dmn, sock, pidFile, cold, blind>>

Dial(l) ==
    /\ At(l, "dial")
    /\ IF Dials THEN lch' = [lch EXCEPT ![l].pc = "gate", ![l].d = sock] ELSE To(l, "start")
    /\ UNCHANGED <<dmn, sock, pidFile, cold, blind>>

\* startDaemon dials again; a file nobody answers on is stale.
StartDaemon(l) ==
    /\ At(l, "start")
    /\ lch' = [lch EXCEPT ![l].pc = IF Dials THEN "wait" ELSE IF sock # NoFile THEN "unlink" ELSE "spawn",
                          ![l].d = 0]
    /\ UNCHANGED <<dmn, sock, pidFile, cold, blind>>

UnlinkStale(l) ==
    /\ At(l, "unlink")
    /\ sock' = NoFile
    /\ blind' = (blind \/ Dials)
    /\ To(l, "spawn")
    /\ UNCHANGED <<dmn, pidFile, cold>>

Unused == {d \in Quilds : dmn[d].st = "none"}
Spawn(l) ==
    /\ At(l, "spawn") /\ Unused # {}
    /\ LET d == CHOOSE d \in Unused : \A e \in Unused : d <= e
       IN  /\ dmn' = [dmn EXCEPT ![d] = [st |-> "guard", ver |-> OwnVersion]]
           /\ lch' = [lch EXCEPT ![l].pc = "wait", ![l].d = d]
    /\ UNCHANGED <<sock, pidFile, cold, blind>>

\* waitForDaemonReady: somebody listens, the spawned process is gone, or 10 s
\* are over.
WaitReady(l) ==
    /\ At(l, "wait")
    /\ IF Dials
       THEN lch' = [lch EXCEPT ![l].pc = IF lch[l].cmd \in {"tui", "retui"} THEN "gate" ELSE "done", ![l].d = sock]
       ELSE /\ lch[l].d # 0
            /\ To(l, "done")
    /\ UNCHANGED <<dmn, sock, pidFile, cold, blind>>

\* gateVersionCheck: attach, exit before a newer daemon or when the user says
\* no, or restart an older or silent one; a restarted one must match.
Gate(l) ==
    LET d == lch[l].d
        answers == Listening(d) /\ dmn[d].st # "wedged"
    IN  /\ At(l, "gate")
        /\ IF answers /\ dmn[d].ver = OwnVersion THEN To(l, "attached")
           ELSE IF (answers /\ dmn[d].ver > OwnVersion) \/ lch[l].cmd # "tui" THEN To(l, "done")
           ELSE To(l, "done") \/ To(l, "readpid")
        /\ UNCHANGED <<dmn, sock, pidFile, cold, blind>>
-----------------------------------------------------------------------------
(* stopDaemonEscalating. *)

ReadPid(l) ==
    /\ At(l, "readpid")
    /\ lch' = [lch EXCEPT ![l].pc = "shutdown", ![l].pid = pidFile]
    /\ UNCHANGED <<dmn, sock, pidFile, cold, blind>>

\* Dial and send the shutdown; without a listener the pid decides.
SendShutdown(l) ==
    /\ At(l, "shutdown")
    /\ IF Dials
       THEN /\ dmn' = IF Answers THEN [dmn EXCEPT ![sock].st = "told"] ELSE dmn
            /\ blind' = (blind \/ lch[l].pid # sock)
            /\ To(l, "gone1")
       ELSE /\ To(l, IF lch[l].pid = 0 THEN "clean" ELSE "term")
            /\ UNCHANGED <<dmn, blind>>
    /\ UNCHANGED <<sock, pidFile, cold>>

\* waitDaemonGone: the process is gone, or without a pid the socket is.
Gone(l) == IF lch[l].pid # 0 THEN ~Alive(lch[l].pid) ELSE ~Dials

\* It went, or the wait is over.
AwaitGone(l) ==
    /\ At(l, "gone1")
    /\ IF Gone(l) THEN To(l, "clean")
       ELSE IF lch[l].pid = 0 THEN To(l, "done")
       ELSE To(l, "term")
    /\ UNCHANGED <<dmn, sock, pidFile, cold, blind>>

\* SIGTERM runs Stop in a daemon that is up; a wedged one ignores it.
SignalTerm(l) ==
    LET d == lch[l].pid
    IN  /\ At(l, "term")
        /\ IF ~Alive(d) THEN To(l, "clean") /\ UNCHANGED dmn
           ELSE /\ dmn' = IF dmn[d].st = "up" THEN [dmn EXCEPT ![d].st = "told"] ELSE dmn
                /\ To(l, "gone2")
        /\ UNCHANGED <<sock, pidFile, cold, blind>>

\* waitProcessGone, then SIGKILL, which leaves the files.
KillProcess(l) ==
    LET d == lch[l].pid
    IN  /\ At(l, "gone2")
        /\ IF Gone(l) THEN UNCHANGED dmn ELSE SetSt(d, "gone")
        /\ To(l, "clean")
        /\ UNCHANGED <<sock, pidFile, cold, blind>>

\* cleanupDaemonFiles, then the restart's spawn; stop is done.
CleanupDaemonFiles(l) ==
    /\ At(l, "clean")
    /\ blind' = (blind \/ Dials)
    /\ sock' = NoFile /\ pidFile' = NoFile
    /\ lch' = [lch EXCEPT ![l].pc = IF lch[l].cmd = "stop" THEN "done"
                                    ELSE IF lch[l].cmd = "restart" THEN "start" ELSE "spawn",
                          ![l].cmd = IF @ = "tui" THEN "retui" ELSE @]
    /\ UNCHANGED <<dmn, cold>>
-----------------------------------------------------------------------------
LaunchNext ==
    \/ \E d \in Quilds : Guard(d) \/ ProbeExisting(d) \/ RestoreFirst(d) \/ Listen(d)
                         \/ WritePIDFile(d) \/ StopListening(d) \/ FinishStop(d) \/ Wedge(d)
    \/ \E l \in Launchers :
         \/ Dial(l) \/ StartDaemon(l) \/ UnlinkStale(l) \/ Spawn(l) \/ WaitReady(l) \/ Gate(l)
         \/ ReadPid(l) \/ SendShutdown(l) \/ AwaitGone(l) \/ SignalTerm(l) \/ KillProcess(l)
         \/ CleanupDaemonFiles(l)
         \/ \E cmd \in {"tui", "restart", "stop"} : LaunchQuil(l, cmd)

LaunchSpec == LaunchInit /\ [][LaunchNext]_launchVars
-----------------------------------------------------------------------------
Settled == \A d \in Quilds : dmn[d].st \in {"none", "up", "wedged", "gone"}

\* Once daemons have finished starting and stopping, at most one is left and
\* the socket is its own, whatever launches, restarts and stops overlapped: no
\* daemon lives on, with its panes, where no client can reach it.
NoOrphan ==
    Settled /\ ~cold /\ ~blind => \A d \in Quilds : Alive(d) => sock = d
=============================================================================

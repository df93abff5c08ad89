------------------------------ MODULE Snapshot ------------------------------
(***************************************************************************)
(* How workspace changes and pane output get to disk: the daemon's event   *)
(* loop (Daemon.Wait) with its debounce and its ticker, snapshot(), Stop   *)
(* (internal/daemon/daemon.go) and the pane buffer files                   *)
(* (internal/persist/ghostbuf.go).  version counts workspace changes, and  *)
(* a buffer's content is its output generation (see RingBuffer).           *)
(***************************************************************************)
EXTENDS WorkspaceFile, FiniteSets

CONSTANTS Panes,      \* the panes whose plugin keeps a ghost buffer
          MaxGen,     \* bound: output generations of a pane
          Stops       \* TRUE when the daemon may be stopped or killed

VARIABLES version,      \* the session: changes made so far
          owing,        \* a handler has changed it, not yet asked for a snapshot
          snapshotCh, debounceCh, tickCh,   \* channels of capacity one
          timer,        \* the debounce timer is running
          loop,         \* the event loop's label
          taken,        \* the version SnapshotState returned
          live, listed, \* panes there are, and those of the snapshot
          gen,          \* OutputBuf.Gen() of each pane
          snapGens,     \* d.snapGens, Absent when a pane has no entry
          todo, data,   \* SaveAllBuffers' map: panes to write, their bytes
          cur,          \* the pane SaveBuffer is at
          bin, binTmp,  \* the .bin and .bin.tmp files
          stopAt        \* history: the version when Stop began

chans == <<snapshotCh, debounceCh, tickCh, timer>>
bufs == <<gen, snapGens, todo, data, cur, bin, binTmp>>
svars == <<fvars, version, owing, chans, loop, taken, live, listed, bufs, stopAt>>

Everywhere(x) == [p \in Panes |-> x]

Init ==
    /\ FileInit
    /\ version = 1 /\ owing = TRUE
    /\ snapshotCh = FALSE /\ debounceCh = FALSE /\ tickCh = FALSE /\ timer = FALSE
    /\ loop = "select" /\ taken = Absent /\ live = Panes /\ listed = {}
    /\ gen = Everywhere(0) /\ snapGens = Everywhere(Absent)
    /\ todo = {} /\ data = Everywhere(Absent) /\ cur \in Panes
    /\ bin = Everywhere(Absent) /\ binTmp = Everywhere(Absent)
    /\ stopAt = Absent

Running == loop \notin {"down", "stopped"}
-----------------------------------------------------------------------------
(* Handlers and panes. *)

Mutate ==
    /\ Running
    /\ version < MaxVersion
    /\ version' = version + 1
    /\ owing' = TRUE
    /\ UNCHANGED <<fvars, chans, loop, taken, live, listed, bufs, stopAt>>

ClosePane(p) ==
    /\ Running
    /\ p \in live /\ version < MaxVersion
    /\ live' = live \ {p}
    /\ version' = version + 1
    /\ owing' = TRUE
    /\ UNCHANGED <<fvars, chans, loop, taken, listed, bufs, stopAt>>

\* requestSnapshot: non-blocking, one slot.  Resizes and title changes ask
\* for one too, with nothing new to save.
RequestSnapshot ==
    /\ Running
    /\ snapshotCh' = TRUE
    /\ owing' = FALSE
    /\ UNCHANGED <<fvars, version, debounceCh, tickCh, timer, loop, taken, live, listed, bufs, stopAt>>

Output(p) ==
    /\ Running
    /\ p \in live /\ gen[p] < MaxGen
    /\ gen' = [gen EXCEPT ![p] = @ + 1]
    /\ UNCHANGED <<fvars, version, owing, chans, loop, taken, live, listed,
                   snapGens, todo, data, cur, bin, binTmp, stopAt>>
-----------------------------------------------------------------------------
(* Timers and the loop's select. *)

Tick ==
    /\ Running
    /\ tickCh' = TRUE
    /\ UNCHANGED <<fvars, version, owing, snapshotCh, debounceCh, timer, loop, taken,
                   live, listed, bufs, stopAt>>

TimerFires ==
    /\ Running
    /\ timer
    /\ timer' = FALSE
    /\ debounceCh' = TRUE
    /\ UNCHANGED <<fvars, version, owing, snapshotCh, tickCh, loop, taken, live, listed, bufs, stopAt>>

\* A request restarts the debounce timer.
OnRequest ==
    /\ loop = "select" /\ snapshotCh
    /\ snapshotCh' = FALSE
    /\ timer' = TRUE
    /\ UNCHANGED <<fvars, version, owing, debounceCh, tickCh, loop, taken, live, listed, bufs, stopAt>>

\* Mutant of OnTick: the ticker goes through the debounced path.
OnTickDebounced ==
    /\ loop = "select" /\ tickCh
    /\ tickCh' = FALSE
    /\ snapshotCh' = TRUE
    /\ UNCHANGED <<fvars, version, owing, debounceCh, timer, loop, taken, live, listed, bufs, stopAt>>

\* SnapshotState: one consistent view of tabs and panes.
TakeState ==
    /\ taken' = version
    /\ listed' = live
    /\ BeginSave(version)
    /\ UNCHANGED <<version, owing, timer, live, bufs, stopAt>>

OnTick ==
    /\ loop = "select" /\ tickCh
    /\ tickCh' = FALSE
    /\ loop' = "save"
    /\ TakeState
    /\ UNCHANGED <<snapshotCh, debounceCh>>

OnDebounce ==
    /\ loop = "select" /\ debounceCh
    /\ debounceCh' = FALSE
    /\ loop' = "save"
    /\ TakeState
    /\ UNCHANGED <<snapshotCh, tickCh>>

\* Mutant of Stop: no final snapshot.
StopAtOnce ==
    /\ Stops
    /\ loop = "select" /\ stopAt = Absent
    /\ stopAt' = version
    /\ loop' = "stopped"
    /\ UNCHANGED <<fvars, version, owing, chans, taken, live, listed, bufs>>

\* Stop: the final snapshot, taken on the event loop's goroutine.
Stop ==
    /\ Stops
    /\ loop = "select" /\ stopAt = Absent
    /\ stopAt' = version
    /\ loop' = "save"
    /\ taken' = version /\ listed' = live
    /\ BeginSave(version)
    /\ UNCHANGED <<version, owing, chans, live, bufs>>
-----------------------------------------------------------------------------
(* snapshot(). *)

\* Save's system calls; its error is only logged.
SaveCall ==
    /\ loop = "save"
    /\ WriteTemp \/ RemoveBackup \/ Rotate \/ Promote
    /\ UNCHANGED <<version, owing, chans, loop, taken, live, listed, bufs, stopAt>>

SaveEnds ==
    /\ loop = "save"
    /\ SaveReturns
    /\ loop' = "collect"
    /\ UNCHANGED <<version, owing, chans, taken, live, listed, bufs, stopAt>>

\* A pane whose generation moved since its last flush, with output to save.
Changed(p) == snapGens[p] # gen[p] /\ gen[p] > 0

\* The buffer loop: generations are recorded before anything is written.
Collect ==
    /\ loop = "collect"
    /\ todo' = {p \in listed : Changed(p)}
    /\ data' = [p \in Panes |-> IF p \in listed /\ Changed(p) THEN gen[p] ELSE data[p]]
    /\ snapGens' = [p \in Panes |-> IF p \notin listed THEN Absent
                                    ELSE IF Changed(p) THEN gen[p] ELSE snapGens[p]]
    /\ loop' = "buffers"
    /\ UNCHANGED <<fvars, version, owing, chans, taken, live, listed, gen, cur, bin,
                   binTmp, stopAt>>

\* SaveBuffer for a pane of the map: WriteFile, Remove, Rename.
WriteBuffer(p) ==
    /\ loop = "buffers" /\ p \in todo
    /\ todo' = todo \ {p}
    /\ cur' = p
    /\ \/ binTmp' = [binTmp EXCEPT ![p] = data[p]] /\ loop' = "remove"
       \/ CallsFail /\ UNCHANGED <<binTmp, loop>>
    /\ UNCHANGED <<fvars, version, owing, chans, taken, live, listed, gen, snapGens, data,
                   bin, stopAt>>

RemoveBuffer ==
    /\ loop = "remove"
    /\ bin' \in {[bin EXCEPT ![cur] = Absent]} \cup (IF CallsFail THEN {bin} ELSE {})
    /\ loop' = "rename"
    /\ UNCHANGED <<fvars, version, owing, chans, taken, live, listed, gen, snapGens, todo, data,
                   cur, binTmp, stopAt>>

RenameBuffer ==
    /\ loop = "rename"
    /\ \/ /\ bin' = [bin EXCEPT ![cur] = data[cur]]
          /\ binTmp' = [binTmp EXCEPT ![cur] = Absent]
       \/ CallsFail /\ UNCHANGED <<bin, binTmp>>
    /\ loop' = "buffers"
    /\ UNCHANGED <<fvars, version, owing, chans, taken, live, listed, gen, snapGens, todo, data,
                   cur, stopAt>>

\* Mutant of CleanBuffers: only panes written in this round are kept.
CleanBuffersIdle ==
    /\ loop = "buffers" /\ todo = {}
    /\ bin' = [p \in Panes |-> IF data[p] = gen[p] THEN bin[p] ELSE Absent]
    /\ loop' = IF stopAt # Absent THEN "stopped" ELSE "select"
    /\ UNCHANGED <<fvars, version, owing, chans, taken, live, listed, gen, snapGens, todo, data,
                   cur, binTmp, stopAt>>

\* CleanBuffers: files of panes that are not of the snapshot go.
CleanBuffers ==
    /\ loop = "buffers" /\ todo = {}
    /\ bin' = [p \in Panes |-> IF p \in listed THEN bin[p] ELSE Absent]
    /\ loop' = IF stopAt # Absent THEN "stopped" ELSE "select"
    /\ UNCHANGED <<fvars, version, owing, chans, taken, live, listed, gen, snapGens, todo, data,
                   cur, binTmp, stopAt>>
-----------------------------------------------------------------------------
(* The daemon is killed; Load says what the next one would start from. *)

Kill ==
    /\ Stops
    /\ Running
    /\ IF save = "idle" THEN UNCHANGED fvars ELSE Killed
    /\ loop' = "down"
    /\ UNCHANGED <<version, owing, chans, taken, live, listed, bufs, stopAt>>
-----------------------------------------------------------------------------
LoopStep ==
    \/ OnRequest \/ OnTick \/ OnDebounce \/ SaveCall \/ SaveEnds \/ Collect
    \/ (\E p \in Panes : WriteBuffer(p)) \/ RemoveBuffer \/ RenameBuffer \/ CleanBuffers

Next ==
    \/ Mutate \/ RequestSnapshot \/ Tick \/ TimerFires \/ Stop \/ Kill \/ LoopStep
    \/ \E p \in Panes : ClosePane(p) \/ Output(p)

Spec == Init /\ [][Next]_svars

(***************************************************************************)
(* Fairness: the ticker fires, the event loop runs, and Go's select, which *)
(* picks among ready cases at random, does not pass over the ticker for    *)
(* ever.  The debounce timer gets none: each request pushes it back.       *)
(***************************************************************************)
SnapFairness ==
    /\ WF_svars(Tick)
    /\ SF_svars(OnTick)
    /\ WF_svars(loop # "select" /\ LoopStep)

FairSpec == Spec /\ SnapFairness
-----------------------------------------------------------------------------
\* A change is never forgotten: until it is on disk there is a request, a
\* running timer or a save under way that will carry it, whatever the timing
\* of the request against the timer, the ticker and the snapshot.
NoLostRequest ==
    Running /\ version # saved =>
        \/ owing \/ snapshotCh \/ timer \/ debounceCh
        \/ save \in {"write", "remove", "rotate", "promote"} /\ writing = version

\* Stop's last snapshot carries every change made before Stop.
FinalSnapshot == loop = "stopped" => saved >= stopAt

\* A pane skipped as unchanged has a file that already matches its buffer.
BuffersMatch ==
    loop = "select" => \A p \in live : snapGens[p] # Absent => bin[p] = snapGens[p]

\* Every change gets to disk, however often requests restart the debounce,
\* unless the daemon stops or is killed.
EventuallySaved ==
    SnapFairness => \A v \in Version : (version >= v) ~> (saved >= v \/ ~Running)

\* No change is forgotten on its way to disk: something that will carry it is
\* always under way, Stop's last snapshot has all of them, and a buffer skipped
\* as unchanged is the one in its file.
ChangesKept == NoLostRequest /\ FinalSnapshot /\ BuffersMatch

\* No change is forgotten on its way to disk, and each gets there in the end.
ChangesReachDisk == []ChangesKept /\ EventuallySaved
=============================================================================

------------------------------ MODULE PaneLife ------------------------------
(***************************************************************************)
(* One pane and the processes behind it (internal/daemon/daemon.go): lazy  *)
(* spawn, restart, the output stream, exits and destruction.  A process is   *)
(* named by the generation its spawn installed; a chunk of output by the     *)
(* generation that wrote it, 0 for what the previous daemon's process wrote. *)
(***************************************************************************)
EXTENDS Integers, Sequences, FiniteSets

CONSTANTS Callers,   \* goroutines that restart the pane or need it spawned
          MaxSpawns, \* bound: processes the pane ever has
          BufLen     \* chunks the output buffer keeps

ASSUME LifeAssumption == MaxSpawns \in Nat /\ "nobody" \notin Callers

VARIABLES pane,      \* the Pane: pty, gen, exit, pending, seeded, buf
          proc,      \* each process: state, closing, unflushed output, stream
          call,      \* each caller: label, where ensurePaneSpawned returns to, old pty
          spawnMu,   \* holder of pane.spawnMu
          inSession, \* the session still lists the pane
          raced      \* history: a destroy or a second restart fell into a call

lifeVars == <<pane, proc, call, spawnMu, inSession, raced>>

Gens == 1 .. MaxSpawns
NoProc == 0
Ghost == 0
Nobody == "nobody"
IdleCall == [pc |-> "idle", ret |-> "idle", old |-> NoProc]

\* A pane restored from disk, spawned lazily, its buffer seeded or empty.
LifeInit ==
    /\ pane = [pty |-> NoProc, gen |-> 0, exit |-> NoProc, pending |-> TRUE,
               seeded |-> TRUE, buf |-> <<Ghost>>]
    /\ proc = [g \in Gens |-> [st |-> "none", closing |-> FALSE, acc |-> 0, stream |-> "none"]]
    /\ call = [c \in Callers |-> IdleCall]
    /\ spawnMu = Nobody
    /\ inSession = TRUE
    /\ raced = FALSE

Busy(c) == call[c].pc \in {"clear", "respawn"}
CallGoto(c, pc) == call' = [call EXCEPT ![c].pc = pc]
-----------------------------------------------------------------------------
(* Spawning. *)

\* spawnPane's success: the session is installed under a new generation and
\* streamPTYOutput starts.
SpawnPane ==
    /\ pane.gen < MaxSpawns
    /\ pane' = [pane EXCEPT !.pty = pane.gen + 1, !.gen = @ + 1]
    /\ proc' = [proc EXCEPT ![pane.gen + 1] =
                  [st |-> "run", closing |-> FALSE, acc |-> 0, stream |-> "read"]]

\* A client shows the pane's tab, types into it or asks for its output.
NeedSpawned(c) ==
    /\ call[c].pc = "idle" /\ inSession
    /\ call' = [call EXCEPT ![c] = [pc |-> "ensure", ret |-> "idle", old |-> NoProc]]
    /\ UNCHANGED <<pane, proc, spawnMu, inSession, raced>>

\* Mutant of Ensure: the check comes before the lock.
EnsureUnlocked(c) ==
    /\ call[c].pc = "ensure"
    /\ IF pane.pty # NoProc \/ ~pane.pending
       THEN call' = [call EXCEPT ![c].pc = call[c].ret]
       ELSE CallGoto(c, "spawn")
    /\ UNCHANGED <<pane, proc, spawnMu, inSession, raced>>

\* ensurePaneSpawned: under spawnMu, and only for a pane still pending.
Ensure(c) ==
    /\ call[c].pc = "ensure"
    /\ spawnMu = Nobody
    /\ IF pane.pty # NoProc \/ ~pane.pending
       THEN call' = [call EXCEPT ![c].pc = call[c].ret] /\ UNCHANGED spawnMu
       ELSE CallGoto(c, "spawn") /\ spawnMu' = c
    /\ UNCHANGED <<pane, proc, inSession, raced>>

\* spawnRestoredPane: refused (worktree gone or interrupted), failed twice,
\* or spawned, as itself or as a terminal.
SpawnRestoredPane(c) ==
    /\ call[c].pc = "spawn"
    /\ SpawnPane \/ UNCHANGED <<pane, proc>>
    /\ CallGoto(c, "unpend")
    /\ UNCHANGED <<spawnMu, inSession, raced>>

EnsureDone(c) ==
    /\ call[c].pc = "unpend"
    /\ pane' = [pane EXCEPT !.pending = FALSE]
    /\ spawnMu' = Nobody
    /\ call' = [call EXCEPT ![c].pc = call[c].ret]
    /\ UNCHANGED <<proc, inSession, raced>>
-----------------------------------------------------------------------------
(* handleRestartPaneReq. *)

Restart(c) ==
    /\ call[c].pc = "idle" /\ inSession
    /\ call' = [call EXCEPT ![c] = [pc |-> "ensure", ret |-> "detach", old |-> NoProc]]
    /\ UNCHANGED <<pane, proc, spawnMu, inSession, raced>>

\* pane.PTY = nil, under PluginMu.
Detach(c) ==
    /\ call[c].pc = "detach"
    /\ pane' = [pane EXCEPT !.pty = NoProc]
    /\ call' = [call EXCEPT ![c].pc = "clear", ![c].old = pane.pty]
    /\ raced' = (raced \/ \E d \in Callers \ {c} : Busy(d))
    /\ UNCHANGED <<proc, spawnMu, inSession>>

\* The old session is closed, the exit state and the buffer are cleared.
ClearPane(c) ==
    LET old == call[c].old
    IN  /\ call[c].pc = "clear"
        /\ proc' = IF old = NoProc THEN proc ELSE [proc EXCEPT ![old].closing = TRUE]
        /\ pane' = [pane EXCEPT !.exit = NoProc, !.buf = <<>>]
        /\ call' = [call EXCEPT ![c].pc = "respawn", ![c].old = NoProc]
        /\ UNCHANGED <<spawnMu, inSession, raced>>

\* The worktree may be gone and the spawn may fail: the pane has no process.
Respawn(c) ==
    /\ call[c].pc = "respawn"
    /\ SpawnPane \/ UNCHANGED <<pane, proc>>
    /\ call' = [call EXCEPT ![c] = IdleCall]
    /\ UNCHANGED <<spawnMu, inSession, raced>>

\* SessionManager.DestroyPane and releasePanes: the PTY, read once, is closed.
Destroy ==
    /\ inSession
    /\ inSession' = FALSE
    /\ proc' = IF pane.pty = NoProc THEN proc ELSE [proc EXCEPT ![pane.pty].closing = TRUE]
    /\ raced' = (raced \/ \E c \in Callers : call[c].pc # "idle")
    /\ UNCHANGED <<pane, call, spawnMu>>
-----------------------------------------------------------------------------
(* streamPTYOutput, one goroutine per process. *)

\* The process writes; the coalescer holds the chunk.
ProcWrites(g) ==
    /\ proc[g].st = "run" /\ proc[g].acc = 0
    /\ proc' = [proc EXCEPT ![g].acc = 1]
    /\ UNCHANGED <<pane, call, spawnMu, inSession, raced>>

\* It ends, by itself or because its session was closed.
ProcExits(g) ==
    /\ proc[g].st = "run"
    /\ proc' = [proc EXCEPT ![g].st = "exited"]
    /\ UNCHANGED <<pane, call, spawnMu, inSession, raced>>

\* generation != pane.ptyGen || pane.PTY == nil: not this pane's any more.
Current(g) == g = pane.gen /\ pane.pty # NoProc

\* The newest BufLen chunks.
Keep(s) == IF Len(s) <= BufLen THEN s ELSE Tail(s)

\* flushPaneOutputGeneration: the first live chunk replaces the ghost.
FlushOutput(g) ==
    /\ proc[g].stream = "read" /\ proc[g].acc > 0
    /\ pane' = IF inSession /\ Current(g)
               THEN [pane EXCEPT !.seeded = FALSE,
                                 !.buf = Keep(Append(IF pane.seeded THEN <<>> ELSE @, g))]
               ELSE pane
    /\ proc' = [proc EXCEPT ![g].acc = 0]
    /\ UNCHANGED <<call, spawnMu, inSession, raced>>

\* The data channel closed behind the last flush; the pane is looked up.
StreamEnds(g) ==
    /\ proc[g].stream = "read" /\ proc[g].st = "exited" /\ proc[g].acc = 0
    /\ proc' = [proc EXCEPT ![g].stream = IF inSession THEN "exit" ELSE "done"]
    /\ UNCHANGED <<pane, call, spawnMu, inSession, raced>>

\* onPaneExitGeneration.
PaneExit(g) ==
    /\ proc[g].stream = "exit"
    /\ proc' = [proc EXCEPT ![g].stream = "done"]
    /\ pane' = IF Current(g) THEN [pane EXCEPT !.exit = g] ELSE pane
    /\ UNCHANGED <<call, spawnMu, inSession, raced>>
-----------------------------------------------------------------------------
LifeNext ==
    \/ \E c \in Callers :
         \/ NeedSpawned(c) \/ Ensure(c) \/ SpawnRestoredPane(c) \/ EnsureDone(c)
         \/ Restart(c) \/ Detach(c) \/ ClearPane(c) \/ Respawn(c)
    \/ \E g \in Gens : ProcWrites(g) \/ ProcExits(g) \/ FlushOutput(g) \/ StreamEnds(g) \/ PaneExit(g)
    \/ Destroy

LifeSpec == LifeInit /\ [][LifeNext]_lifeVars
-----------------------------------------------------------------------------
(***************************************************************************)
(* Whatever spawns, restarts, exits and destroys interleave: the output    *)
(* buffer never mixes two processes, so a replay reproduces a screen some  *)
(* process really had; a recorded exit is the current process's, never a   *)
(* late one of its predecessor; and once no call is under way every        *)
(* process is the pane's own or on its way out.  Restarts that overlap,    *)
(* and a destroy inside a restart, are excepted: handleRestartPaneReq      *)
(* holds no lock over its steps and all three really fail.                 *)
(***************************************************************************)
PaneSound == ~raced =>
    /\ \A i, j \in DOMAIN pane.buf : pane.buf[i] = pane.buf[j]
    /\ pane.exit \in {NoProc, pane.gen}
    /\ (\A c \in Callers : call[c].pc = "idle") =>
         \A g \in Gens : proc[g].st = "run" /\ ~proc[g].closing => g = pane.pty /\ inSession
=============================================================================

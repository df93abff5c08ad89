---------------------------- MODULE DaemonProofs ----------------------------
(***************************************************************************)
(* What is proved of the daemon's parts beside the session, for any number *)
(* of goroutines, panes, processes, agent sessions and saved versions.     *)
(***************************************************************************)
EXTENDS PaneLife, Resume, Snapshot, Redraw, HookIngest, FiniteSetTheorems,
        SequenceTheorems, WellFoundedInduction, TLAPS
-----------------------------------------------------------------------------
(* A pane and its processes                                                  *)

\* The part of the types that the argument needs.
LifeTypeOK ==
    /\ DOMAIN pane = {"pty", "gen", "exit", "pending", "seeded", "buf"}
    /\ pane.gen \in 0 .. MaxSpawns /\ pane.pty \in {NoProc, pane.gen} /\ pane.buf \in Seq(Nat)
    /\ DOMAIN proc = Gens
    /\ \A g \in Gens : DOMAIN proc[g] = {"st", "closing", "acc", "stream"}
    /\ DOMAIN call = Callers
    /\ \A c \in Callers :
         /\ DOMAIN call[c] = {"pc", "ret", "old"}
         /\ call[c].ret \in {"idle", "detach"} /\ call[c].old \in Gens \cup {NoProc}

\* spawnMu lets one caller past the pending check, before there is a process;
\* whoever goes on to restart the pane finds that spawn finished.
LazySpawn ==
    /\ \A c \in Callers :
         /\ call[c].pc \in {"spawn", "unpend"} => spawnMu = c
         /\ call[c].pc = "spawn" => pane.pending /\ pane.gen = 0
         /\ call[c].pc \in {"detach", "clear", "respawn"} => ~pane.pending
    /\ pane.pending /\ (\A c \in Callers : call[c].pc # "unpend") => pane.gen = 0
    /\ pane.gen = 0 => pane.seeded
    /\ \A g \in Gens : g > pane.gen => proc[g].st = "none"

\* Restarts that do not overlap hand the pane from one process to the next.
OneAtATime ==
    /\ \A c, d \in Callers : Busy(c) /\ Busy(d) => c = d
    /\ \A c \in Callers : Busy(c) => pane.pty = NoProc
    /\ \A c \in Callers : call[c].pc = "respawn" => pane.buf = <<>> /\ pane.exit = NoProc
    /\ \A i \in DOMAIN pane.buf : pane.buf[i] = IF pane.seeded THEN Ghost ELSE pane.gen
    /\ pane.exit \in {NoProc, pane.gen}
    /\ \A g \in Gens : proc[g].st = "run" /\ ~proc[g].closing =>
         inSession /\ (g = pane.pty \/ \E c \in Callers : call[c].pc = "clear" /\ call[c].old = g)
    /\ ~inSession => \A c \in Callers : call[c].pc = "idle"

LifeInv == LifeTypeOK /\ LazySpawn /\ (~raced => OneAtATime)

\* The buffer keeps chunks of one process when it held only such.
LEMMA KeepsOneProcess ==
    ASSUME NEW s \in Seq(Nat), NEW g \in Nat, \A i \in DOMAIN s : s[i] = g
    PROVE  /\ Keep(Append(s, g)) \in Seq(Nat)
           /\ \A i \in DOMAIN Keep(Append(s, g)) : Keep(Append(s, g))[i] = g
BY DEF Keep

LEMMA KeepsChunks ==
    ASSUME NEW s \in Seq(Nat), NEW g \in Nat
    PROVE  Keep(Append(s, g)) \in Seq(Nat)
BY DEF Keep

LEMMA LifeInitInv == LifeInit => LifeInv
<1> SUFFICES ASSUME LifeInit PROVE LifeInv
    OBVIOUS
<1>1. <<0>> \in Seq(Nat) /\ \A i \in DOMAIN <<0>> : <<0>>[i] = 0
    OBVIOUS
<1> QED
    BY <1>1, LifeAssumption
    DEF LifeInit, LifeInv, LifeTypeOK, LazySpawn, OneAtATime, Busy, IdleCall, NoProc, Ghost, Gens, Nobody

LEMMA LifeStep == LifeInv /\ [LifeNext]_lifeVars => LifeInv'
<1> SUFFICES ASSUME LifeInv, [LifeNext]_lifeVars PROVE LifeInv'
    OBVIOUS
<1>g. \A g \in Gens : g \in Nat /\ g # 0
    BY LifeAssumption DEF Gens
<1>n. Nobody \notin Callers
    BY LifeAssumption DEF Nobody
<1>e. <<>> \in Seq(Nat) /\ DOMAIN <<>> = {}
    OBVIOUS
<1> USE <1>g, <1>n, <1>e DEF LifeInv, LifeTypeOK, LazySpawn, OneAtATime, Busy, CallGoto, NoProc, Ghost
<1>1. ASSUME NEW c \in Callers, NeedSpawned(c) PROVE LifeInv'
    BY <1>1 DEF NeedSpawned
<1>2. ASSUME NEW c \in Callers, Ensure(c) PROVE LifeInv'
    BY <1>2 DEF Ensure
<1>3. ASSUME NEW c \in Callers, SpawnRestoredPane(c) PROVE LifeInv'
    <2>1. CASE SpawnPane
        BY <1>3, <2>1, LifeAssumption DEF SpawnRestoredPane, SpawnPane, Gens
    <2>2. CASE UNCHANGED <<pane, proc>>
        BY <1>3, <2>2 DEF SpawnRestoredPane
    <2> QED
        BY <1>3, <2>1, <2>2 DEF SpawnRestoredPane
<1>4. ASSUME NEW c \in Callers, EnsureDone(c) PROVE LifeInv'
    BY <1>4 DEF EnsureDone
<1>5. ASSUME NEW c \in Callers, Restart(c) PROVE LifeInv'
    BY <1>5 DEF Restart
<1>6. ASSUME NEW c \in Callers, Detach(c) PROVE LifeInv'
    <2>1. /\ pane' = [pane EXCEPT !.pty = NoProc] /\ UNCHANGED <<proc, spawnMu, inSession>>
          /\ call' = [call EXCEPT ![c].pc = "clear", ![c].old = pane.pty]
          /\ call[c].pc = "detach" /\ (~raced' => ~raced /\ \A d \in Callers \ {c} : ~Busy(d))
        BY <1>6 DEF Detach
    <2>2. pane.pty \in Gens \cup {NoProc}
        BY LifeAssumption DEF Gens
    <2>3. LifeTypeOK' /\ LazySpawn'
        BY <2>1, <2>2
    <2>4. /\ \A d \in Callers \ {c} : call'[d] = call[d]
          /\ call'[c].pc = "clear" /\ call'[c].old = pane.pty
        BY <2>1
    <2>5. ~raced' => OneAtATime'
        BY <2>1, <2>4
    <2> QED
        BY <2>3, <2>5
<1>7. ASSUME NEW c \in Callers, ClearPane(c) PROVE LifeInv'
    BY <1>7 DEF ClearPane
<1>8. ASSUME NEW c \in Callers, Respawn(c) PROVE LifeInv'
    <2>1. CASE SpawnPane
        BY <1>8, <2>1, LifeAssumption DEF Respawn, SpawnPane, Gens, IdleCall
    <2>2. CASE UNCHANGED <<pane, proc>>
        BY <1>8, <2>2 DEF Respawn, IdleCall
    <2> QED
        BY <1>8, <2>1, <2>2 DEF Respawn
<1>9. CASE Destroy
    <2>1. pane.pty # NoProc => pane.pty \in Gens
        BY LifeAssumption DEF Gens
    <2>2. /\ proc' = IF pane.pty = NoProc THEN proc ELSE [proc EXCEPT ![pane.pty].closing = TRUE]
          /\ UNCHANGED <<pane, call, spawnMu>> /\ ~inSession'
          /\ ~raced' => ~raced /\ \A c \in Callers : call[c].pc = "idle"
        BY <1>9 DEF Destroy
    <2>3. /\ DOMAIN proc' = Gens
          /\ \A g \in Gens : /\ DOMAIN proc'[g] = DOMAIN proc[g] /\ proc'[g].st = proc[g].st
                             /\ g # pane.pty => proc'[g] = proc[g]
                             /\ g = pane.pty => proc'[g].closing
        BY <2>1, <2>2
    <2>4. LifeTypeOK' /\ LazySpawn'
        BY <2>2, <2>3
    <2>5. ~raced' => OneAtATime'
        BY <2>2, <2>3
    <2> QED
        BY <2>4, <2>5
<1>10. ASSUME NEW g \in Gens, ProcWrites(g) PROVE LifeInv'
    BY <1>10 DEF ProcWrites
<1>11. ASSUME NEW g \in Gens, ProcExits(g) PROVE LifeInv'
    BY <1>11 DEF ProcExits
<1>12. ASSUME NEW g \in Gens, FlushOutput(g) PROVE LifeInv'
    <2>1. CASE inSession /\ Current(g)
        <3> DEFINE old == IF pane.seeded THEN <<>> ELSE pane.buf
        <3>1. /\ proc' = [proc EXCEPT ![g].acc = 0] /\ UNCHANGED <<call, spawnMu, inSession, raced>>
              /\ pane' = [pane EXCEPT !.seeded = FALSE, !.buf = Keep(Append(old, g))]
            BY <1>12, <2>1 DEF FlushOutput
        <3>2. ~raced => \A i \in DOMAIN old : old[i] = g
            BY <2>1 DEF Current
        <3>3. old \in Seq(Nat)
            BY <2>1
        <3>4. g = pane.gen /\ pane.pty # NoProc /\ inSession
            BY <2>1 DEF Current
        <3>5. Keep(Append(old, g)) \in Seq(Nat)
            BY <3>3, KeepsChunks
        <3> HIDE DEF old
        <3> DEFINE new == Keep(Append(old, g))
        <3>6. ~raced => \A i \in DOMAIN new : new[i] = g
            BY <1>g, <3>2, <3>3, KeepsOneProcess, Zenon
        <3> HIDE DEF new
        <3>7. LifeTypeOK' /\ LazySpawn'
            BY <3>1, <3>4, <3>5 DEF new, old
        <3>8. ~raced' => OneAtATime'
            BY <3>1, <3>4, <3>6 DEF new, old
        <3> QED
            BY <3>7, <3>8
    <2>2. CASE ~(inSession /\ Current(g))
        BY <1>12, <2>2 DEF FlushOutput
    <2> QED
        BY <2>1, <2>2
<1>13. ASSUME NEW g \in Gens, StreamEnds(g) PROVE LifeInv'
    BY <1>13 DEF StreamEnds
<1>14. ASSUME NEW g \in Gens, PaneExit(g) PROVE LifeInv'
    BY <1>14 DEF PaneExit, Current
<1>15. CASE UNCHANGED lifeVars
    BY <1>15 DEF lifeVars
<1> QED
    BY <1>1, <1>2, <1>3, <1>4, <1>5, <1>6, <1>7, <1>8, <1>9, <1>10, <1>11, <1>12, <1>13, <1>14, <1>15
    DEF LifeNext

\* Whatever spawns, restarts, exits and destroys interleave, the output buffer
\* never mixes two processes, a recorded exit is the current process's, and no
\* process is left running behind the pane, for any number of goroutines and
\* processes; overlapping restarts and a destroy inside one are excepted.
THEOREM PaneIsSound == LifeSpec => []PaneSound
<1>1. LifeInv => PaneSound
    BY DEF LifeInv, LifeTypeOK, OneAtATime, PaneSound, NoProc
<1> QED
    BY <1>1, LifeInitInv, LifeStep, PTL DEF LifeSpec
-----------------------------------------------------------------------------
(* Sessions handed out to panes                                              *)

\* The part of the types that the argument needs: every id was given out.
ResumeTypeOK ==
    /\ fresh \in Nat /\ onDisk \subseteq 0 .. fresh
    /\ DOMAIN ap = AgentPanes
    /\ \A p \in AgentPanes :
         /\ DOMAIN ap[p] = {"st", "sid", "path", "pick", "rec", "recPath", "had", "resume", "cur", "restored"}
         /\ {ap[p].sid, ap[p].pick, ap[p].rec, ap[p].resume, ap[p].cur} \subseteq 0 .. fresh
         /\ ap[p].st = "claim" => ap[p].sid # None0

\* What a pane knows at each stage of its life.
Stages ==
    \A p \in AgentPanes :
      LET a == ap[p]
      IN  /\ a.st \in {"absent", "published"} => a.sid = None0 /\ a.rec = None0 /\ a.pick = None0
          /\ a.st = "exited" /\ a.sid = None0 => a.pick = None0
          /\ a.sid = None0 => a.rec = None0
          /\ a.st \in {"exec", "run"} => a.sid # None0
          /\ a.st = "run" => a.cur # None0
          /\ a.had => a.st \in {"claim", "exec"}
          /\ a.resume # None0 => a.st \in {"claim", "exec"}
          /\ a.st = "claim" => a.resume = a.pick
          /\ a.st = "claim" /\ ~a.had => a.rec = None0 /\ a.pick \in {None0, a.sid}

\* The session a pane runs in, or has claimed and will run in.
Mine(p) ==
    LET a == ap[p]
    IN  CASE a.st = "run" -> a.cur
          [] a.st = "exec" /\ ~(a.had /\ a.resume \in {None0, a.pick}) ->
               IF a.resume # None0 THEN a.resume ELSE a.sid
          [] a.st = "claim" /\ ~a.had -> a.sid
          [] a.st = "pending" /\ a.sid = None0 -> a.pick
          [] OTHER -> None0

\* Others see the claim, or have never heard of the session.
Visible(p) == HeldBy(p) = Mine(p)
Private(p) ==
    /\ Mine(p) \notin onDisk
    /\ \A q \in AgentPanes \ {p} : Mine(p) \notin {ap[q].sid, ap[q].pick, ap[q].rec, ap[q].resume}

Apart ==
    \A p \in AgentPanes : Mine(p) # None0 =>
      /\ \A q \in AgentPanes \ {p} : Mine(p) # Mine(q)
      /\ Visible(p) \/ Private(p)
ResumeInv == ResumeTypeOK /\ (~gap => Stages /\ Apart)

Fields(q) == {ap[q].sid, ap[q].pick, ap[q].rec, ap[q].resume}

\* A step of one pane keeps the others apart if it takes no session of theirs
\* and learns of none that was theirs alone.
LEMMA OnePaneStep ==
    ASSUME NEW p \in AgentPanes, Apart, DOMAIN ap' = AgentPanes, DOMAIN ap = AgentPanes,
           \A q \in AgentPanes \ {p} : ap'[q] = ap[q],
           \A q \in AgentPanes \ {p} : Mine(q) # None0 => Mine(q) # Mine(p)',
           \A q \in AgentPanes \ {p} : Mine(q) # None0 /\ Private(q) =>
               Mine(q) \notin onDisk' /\ Mine(q) \notin Fields(p)',
           Mine(p)' # None0 => Visible(p)' \/ Private(p)'
    PROVE  Apart'
<1>1. \A q \in AgentPanes \ {p} : Mine(q)' = Mine(q) /\ HeldBy(q)' = HeldBy(q) /\ Fields(q)' = Fields(q)
    BY DEF Mine, HeldBy, InProcess, Claiming, Fields
<1>2. \A q \in AgentPanes \ {p} : Visible(q) => Visible(q)'
    BY <1>1 DEF Visible
<1>3. \A q \in AgentPanes \ {p} : Mine(q) # None0 /\ Private(q) => Private(q)'
    <2> SUFFICES ASSUME NEW q \in AgentPanes \ {p}, Mine(q) # None0, Private(q)
                 PROVE  Private(q)'
        OBVIOUS
    <2>1. Mine(q)' = Mine(q) /\ Mine(q) \notin onDisk' /\ Mine(q) \notin Fields(p)'
        BY <1>1
    <2>2. \A r \in AgentPanes \ {p} : Fields(r)' = Fields(r)
        BY <1>1
    <2>3. \A r \in AgentPanes \ {q} : Mine(q) \notin Fields(r)'
        BY <2>1, <2>2 DEF Private, Fields
    <2> QED
        BY <2>1, <2>3 DEF Private, Fields
<1> QED
    BY <1>1, <1>2, <1>3 DEF Apart

\* A session nobody holds, known to the pane or on disk, is nobody else's.
LEMMA FreeIsNobodys ==
    ASSUME NEW p \in AgentPanes, NEW s, Apart, ~HeldByOther(p, s), s \in Fields(p) \cup onDisk
    PROVE  \A q \in AgentPanes \ {p} : Mine(q) # None0 => Mine(q) # s
BY DEF Apart, Visible, Private, HeldByOther, Fields

LEMMA SameElements ==
    ASSUME NEW S, NEW s \in Seq(S), NEW t \in Seq(S), Len(s) = Len(t), \A i \in 1 .. Len(s) : s[i] = t[i]
    PROVE  s = t
OBVIOUS

\* Sequences of up to three elements put together.
LEMMA ShortSeqs ==
    /\ <<>> \o <<>> = <<>>
    /\ \A u : <<>> \o <<u>> = <<u>> /\ <<u>> \o <<>> = <<u>>
    /\ \A u, v : <<u>> \o <<v>> = <<u, v>> /\ <<u, v>> \o <<>> = <<u, v>>
    /\ \A u, v, w : <<u, v>> \o <<w>> = <<u, v, w>>
<1>1. <<>> \o <<>> = <<>>
    OBVIOUS
<1>2. \A u : <<>> \o <<u>> = <<u>>
    OBVIOUS
<1>3. \A u : <<u>> \o <<>> = <<u>>
    <2> TAKE u
    <2>1. <<u>> \in Seq({u})
        OBVIOUS
    <2>2. \A s \in Seq({u}) : s \o <<>> = s
        OBVIOUS
    <2> QED
        BY <2>1, <2>2, Zenon
<1>4. \A u, v : <<u>> \o <<v>> = <<u, v>>
    <2> TAKE u, v
    <2> DEFINE t == <<u>> \o <<v>>
    <2>1. t \in Seq({u, v}) /\ <<u, v>> \in Seq({u, v})
        OBVIOUS
    <2>2. Len(t) = 2 /\ Len(<<u, v>>) = 2
        OBVIOUS
    <2>3. t[1] = u /\ <<u, v>>[1] = u
        OBVIOUS
    <2>4. t[2] = v /\ <<u, v>>[2] = v
        OBVIOUS
    <2> HIDE DEF t
    <2>5. \A i \in 1 .. 2 : t[i] = <<u, v>>[i]
        BY <2>3, <2>4
    <2>6. t = <<u, v>>
        BY <2>1, <2>2, <2>5, SameElements
    <2> QED
        BY <2>6 DEF t
<1>5. \A u, v : <<u, v>> \o <<>> = <<u, v>>
    <2> TAKE u, v
    <2>1. <<u, v>> \in Seq({u, v})
        OBVIOUS
    <2>2. \A s \in Seq({u, v}) : s \o <<>> = s
        OBVIOUS
    <2> QED
        BY <2>1, <2>2, Zenon
<1>6. \A u, v, w : <<u, v>> \o <<w>> = <<u, v, w>>
    <2> TAKE u, v, w
    <2> DEFINE t == <<u, v>> \o <<w>>
    <2>1. t \in Seq({u, v, w}) /\ <<u, v, w>> \in Seq({u, v, w})
        OBVIOUS
    <2>2. Len(t) = 3 /\ Len(<<u, v, w>>) = 3
        OBVIOUS
    <2>3. t[1] = u /\ <<u, v, w>>[1] = u
        OBVIOUS
    <2>4. t[2] = v /\ <<u, v, w>>[2] = v
        OBVIOUS
    <2>5. t[3] = w /\ <<u, v, w>>[3] = w
        OBVIOUS
    <2> HIDE DEF t
    <2>6. \A i \in 1 .. 3 : t[i] = <<u, v, w>>[i]
        BY <2>3, <2>4, <2>5
    <2>7. t = <<u, v, w>>
        BY <2>1, <2>2, <2>6, SameElements
    <2> QED
        BY <2>7 DEF t
<1> QED
    BY <1>1, <1>2, <1>3, <1>4, <1>5, <1>6, Zenon

\* The candidates are the pane's own ids.
LEMMA CandidatesAreOwn ==
    ASSUME NEW p \in AgentPanes
    PROVE  /\ DOMAIN Candidates(p) \subseteq 1 .. 3
           /\ \A i \in DOMAIN Candidates(p) :
                Candidates(p)[i][1] # None0 /\ Candidates(p)[i][1] \in {ap[p].rec, ap[p].sid, ap[p].pick}
           /\ Candidates(p) = <<>> => ap[p].rec = None0 /\ ap[p].sid = None0 /\ ap[p].pick = None0
           /\ ap[p].rec # None0 => Candidates(p)[1][1] = ap[p].rec /\ 1 \in DOMAIN Candidates(p)
           /\ ap[p].rec = None0 /\ ap[p].sid # None0 => Candidates(p)[1][1] = ap[p].sid /\ 1 \in DOMAIN Candidates(p)
<1> DEFINE a == ap[p]
<1> DEFINE x == Candidate(a.rec, a.recPath, {})
<1> DEFINE y == Candidate(a.sid, a.path, {a.rec})
<1> DEFINE z == Candidate(a.pick, FALSE, {a.rec, a.sid})
<1>1. Candidates(p) = x \o y \o z
    BY DEF Candidates
<1> HIDE DEF x, y, z
<1>2. CASE a.rec # None0 /\ a.sid \notin {a.rec, None0} /\ a.pick \notin {a.rec, a.sid, None0}
    <2>1. x = <<<<a.rec, a.recPath>>>> /\ y = <<<<a.sid, a.path>>>> /\ z = <<<<a.pick, FALSE>>>>
        BY <1>2 DEF Candidate, x, y, z
    <2>2. <<<<a.rec, a.recPath>>>> \o <<<<a.sid, a.path>>>> = <<<<a.rec, a.recPath>>, <<a.sid, a.path>>>> /\ <<<<a.rec, a.recPath>>, <<a.sid, a.path>>>> \o <<<<a.pick, FALSE>>>> = <<<<a.rec, a.recPath>>, <<a.sid, a.path>>, <<a.pick, FALSE>>>>
        BY ShortSeqs, Zenon
    <2>3. Candidates(p) = <<<<a.rec, a.recPath>>, <<a.sid, a.path>>, <<a.pick, FALSE>>>>
        BY <1>1, <2>1, <2>2, Zenon
    <2> QED
        BY <1>2, <2>3
<1>3. CASE a.rec # None0 /\ a.sid \notin {a.rec, None0} /\ a.pick \in {a.rec, a.sid, None0}
    <2>1. x = <<<<a.rec, a.recPath>>>> /\ y = <<<<a.sid, a.path>>>> /\ z = <<>>
        BY <1>3 DEF Candidate, x, y, z
    <2>2. <<<<a.rec, a.recPath>>>> \o <<<<a.sid, a.path>>>> = <<<<a.rec, a.recPath>>, <<a.sid, a.path>>>> /\ <<<<a.rec, a.recPath>>, <<a.sid, a.path>>>> \o <<>> = <<<<a.rec, a.recPath>>, <<a.sid, a.path>>>>
        BY ShortSeqs, Zenon
    <2>3. Candidates(p) = <<<<a.rec, a.recPath>>, <<a.sid, a.path>>>>
        BY <1>1, <2>1, <2>2, Zenon
    <2> QED
        BY <1>3, <2>3
<1>4. CASE a.rec # None0 /\ a.sid \in {a.rec, None0} /\ a.pick \notin {a.rec, a.sid, None0}
    <2>1. x = <<<<a.rec, a.recPath>>>> /\ y = <<>> /\ z = <<<<a.pick, FALSE>>>>
        BY <1>4 DEF Candidate, x, y, z
    <2>2. <<<<a.rec, a.recPath>>>> \o <<>> = <<<<a.rec, a.recPath>>>> /\ <<<<a.rec, a.recPath>>>> \o <<<<a.pick, FALSE>>>> = <<<<a.rec, a.recPath>>, <<a.pick, FALSE>>>>
        BY ShortSeqs, Zenon
    <2>3. Candidates(p) = <<<<a.rec, a.recPath>>, <<a.pick, FALSE>>>>
        BY <1>1, <2>1, <2>2, Zenon
    <2> QED
        BY <1>4, <2>3
<1>5. CASE a.rec # None0 /\ a.sid \in {a.rec, None0} /\ a.pick \in {a.rec, a.sid, None0}
    <2>1. x = <<<<a.rec, a.recPath>>>> /\ y = <<>> /\ z = <<>>
        BY <1>5 DEF Candidate, x, y, z
    <2>2. <<<<a.rec, a.recPath>>>> \o <<>> = <<<<a.rec, a.recPath>>>> /\ <<<<a.rec, a.recPath>>>> \o <<>> = <<<<a.rec, a.recPath>>>>
        BY ShortSeqs, Zenon
    <2>3. Candidates(p) = <<<<a.rec, a.recPath>>>>
        BY <1>1, <2>1, <2>2, Zenon
    <2> QED
        BY <1>5, <2>3
<1>6. CASE a.rec = None0 /\ a.sid \notin {a.rec, None0} /\ a.pick \notin {a.rec, a.sid, None0}
    <2>1. x = <<>> /\ y = <<<<a.sid, a.path>>>> /\ z = <<<<a.pick, FALSE>>>>
        BY <1>6 DEF Candidate, x, y, z
    <2>2. <<>> \o <<<<a.sid, a.path>>>> = <<<<a.sid, a.path>>>> /\ <<<<a.sid, a.path>>>> \o <<<<a.pick, FALSE>>>> = <<<<a.sid, a.path>>, <<a.pick, FALSE>>>>
        BY ShortSeqs, Zenon
    <2>3. Candidates(p) = <<<<a.sid, a.path>>, <<a.pick, FALSE>>>>
        BY <1>1, <2>1, <2>2, Zenon
    <2> QED
        BY <1>6, <2>3
<1>7. CASE a.rec = None0 /\ a.sid \notin {a.rec, None0} /\ a.pick \in {a.rec, a.sid, None0}
    <2>1. x = <<>> /\ y = <<<<a.sid, a.path>>>> /\ z = <<>>
        BY <1>7 DEF Candidate, x, y, z
    <2>2. <<>> \o <<<<a.sid, a.path>>>> = <<<<a.sid, a.path>>>> /\ <<<<a.sid, a.path>>>> \o <<>> = <<<<a.sid, a.path>>>>
        BY ShortSeqs, Zenon
    <2>3. Candidates(p) = <<<<a.sid, a.path>>>>
        BY <1>1, <2>1, <2>2, Zenon
    <2> QED
        BY <1>7, <2>3
<1>8. CASE a.rec = None0 /\ a.sid \in {a.rec, None0} /\ a.pick \notin {a.rec, a.sid, None0}
    <2>1. x = <<>> /\ y = <<>> /\ z = <<<<a.pick, FALSE>>>>
        BY <1>8 DEF Candidate, x, y, z
    <2>2. <<>> \o <<>> = <<>> /\ <<>> \o <<<<a.pick, FALSE>>>> = <<<<a.pick, FALSE>>>>
        BY ShortSeqs, Zenon
    <2>3. Candidates(p) = <<<<a.pick, FALSE>>>>
        BY <1>1, <2>1, <2>2, Zenon
    <2> QED
        BY <1>8, <2>3
<1>9. CASE a.rec = None0 /\ a.sid \in {a.rec, None0} /\ a.pick \in {a.rec, a.sid, None0}
    <2>1. x = <<>> /\ y = <<>> /\ z = <<>>
        BY <1>9 DEF Candidate, x, y, z
    <2>2. <<>> \o <<>> = <<>> /\ <<>> \o <<>> = <<>>
        BY ShortSeqs, Zenon
    <2>3. Candidates(p) = <<>>
        BY <1>1, <2>1, <2>2, Zenon
    <2> QED
        BY <1>9, <2>3
<1> QED
    BY <1>2, <1>3, <1>4, <1>5, <1>6, <1>7, <1>8, <1>9

\* The claimed candidate is the pane's own id.
LEMMA FirstFreeIsOwn ==
    ASSUME NEW p \in AgentPanes, NEW l, Free(p, l) # {}
    PROVE  FirstFree(p, l)[1] # None0 /\ FirstFree(p, l)[1] \in {ap[p].rec, ap[p].sid, ap[p].pick}
<1>1. Free(p, l) \subseteq DOMAIN Candidates(p) /\ Free(p, l) \subseteq 1 .. 3
    BY CandidatesAreOwn DEF Free, Usable
<1>2. \E i \in Free(p, l) : \A j \in Free(p, l) : i <= j
    BY <1>1
<1>3. PICK i \in Free(p, l) : FirstFree(p, l) = Candidates(p)[i]
    BY <1>2 DEF FirstFree
<1> QED
    BY <1>1, <1>3, CandidatesAreOwn DEF Free

\* Claims outlive a transcript.
LEMMA SameClaims ==
    ASSUME ResumeInv, onDisk' \subseteq onDisk, UNCHANGED <<ap, fresh, spawns, gap>>
    PROVE  ResumeInv'
<1>1. ResumeTypeOK'
    BY DEF ResumeInv, ResumeTypeOK
<1>2. Stages => Stages'
    BY DEF Stages
<1>3. \A p \in AgentPanes : Mine(p)' = Mine(p) /\ HeldBy(p)' = HeldBy(p)
    BY DEF Mine, HeldBy, InProcess, Claiming
<1>4. \A p \in AgentPanes : (Visible(p) => Visible(p)') /\ (Private(p) => Private(p)')
    BY <1>3 DEF Visible, Private
<1>5. Apart => Apart'
    BY <1>3, <1>4 DEF Apart
<1> QED
    BY <1>1, <1>2, <1>5 DEF ResumeInv

LEMMA ResumeStep == ResumeInv /\ [ResumeNext]_resumeVars => ResumeInv'
<1> SUFFICES ASSUME ResumeInv, [ResumeNext]_resumeVars PROVE ResumeInv'
    OBVIOUS
<1> USE DEF ResumeInv, None0, InProcess, Claiming, Upd
<1>a. ASSUME NEW p \in AgentPanes, NEW r, ap' = [ap EXCEPT ![p] = r], ResumeTypeOK
      PROVE  /\ ap'[p] = r /\ \A q \in AgentPanes \ {p} : ap'[q] = ap[q]
             /\ DOMAIN ap' = AgentPanes /\ DOMAIN ap = AgentPanes
    BY <1>a DEF ResumeTypeOK
<1>1. ASSUME NEW p \in AgentPanes, Publish(p) PROVE ResumeInv'
    <2> DEFINE a == ap[p]
    <2>f. /\ a.st = "absent" /\ UNCHANGED <<onDisk, fresh, spawns, gap>>
          /\ ap' = [ap EXCEPT ![p] = [Unborn EXCEPT !.st = "published"]]
        BY <1>1 DEF Publish
    <2>g. /\ DOMAIN a = {"st", "sid", "path", "pick", "rec", "recPath", "had", "resume", "cur", "restored"}
          /\ fresh \in Nat /\ {a.rec, a.sid, a.pick, a.resume, a.cur} \subseteq 0 .. fresh
        BY DEF ResumeTypeOK
    <2>h. /\ ap'[p].st = "published" /\ ap'[p].sid = None0 /\ ap'[p].pick = None0 /\ ap'[p].rec = None0
          /\ ap'[p].had = FALSE /\ ap'[p].resume = None0 /\ ap'[p].cur = None0 /\ DOMAIN ap'[p] = DOMAIN a
          /\ DOMAIN ap' = AgentPanes /\ DOMAIN ap = AgentPanes /\ \A q \in AgentPanes \ {p} : ap'[q] = ap[q]
        BY <2>f, <2>g DEF ResumeTypeOK, Unborn
    <2>1. ResumeTypeOK'
        BY <2>f, <2>g, <2>h DEF ResumeTypeOK
    <2>2. ~gap' => ~gap /\ Stages'
        BY <2>f, <2>h DEF Stages
    <2>3. ASSUME ~gap' PROVE Apart'
        <3>1. ~gap /\ Stages /\ Apart
            BY <2>2, <2>3
        <3>2. Mine(p)' = None0
            BY <2>h DEF Mine
        <3>3. Mine(p)' # None0 => Visible(p)' \/ Private(p)'
            BY <3>2
        <3>4. \A q \in AgentPanes \ {p} : Mine(q) # None0 => Mine(q) # Mine(p)'
            BY <3>2
        <3>5. \A q \in AgentPanes \ {p} : Mine(q) # None0 /\ Private(q) =>
                 Mine(q) \notin onDisk' /\ Mine(q) \notin Fields(p)'
            BY <2>f, <2>h DEF Private, Fields
        <3> QED
            BY <2>h, <3>1, <3>3, <3>4, <3>5, OnePaneStep
    <2> QED
        BY <2>1, <2>2, <2>3
<1>2. ASSUME NEW p \in AgentPanes, SettleSession(p) PROVE ResumeInv'
    <2> DEFINE a == ap[p]
    <2> DEFINE pick == IF a.pick # None0 /\ a.rec # None0 /\ a.rec # a.pick THEN None0 ELSE a.pick
    <2> DEFINE had == a.sid # None0
    <2> DEFINE adopt == had /\ a.rec # None0 /\ a.sid # a.rec
    <2> DEFINE sid == IF adopt THEN a.rec ELSE IF had THEN a.sid ELSE IF pick # None0 THEN pick ELSE fresh + 1
    <2>f. /\ a.st = "pending" /\ UNCHANGED <<onDisk, spawns, gap>>
          /\ fresh' = IF sid > fresh THEN sid ELSE fresh
          /\ ap' = [ap EXCEPT ![p] = [a EXCEPT !.st = "claim", !.pick = pick, !.sid = sid, !.had = had,
                                    !.path = IF adopt THEN a.recPath ELSE @, !.resume = pick]]
        BY <1>2 DEF SettleSession
    <2>g. DOMAIN a = {"st", "sid", "path", "pick", "rec", "recPath", "had", "resume", "cur", "restored"}
        BY DEF ResumeTypeOK
    <2>h. /\ ap'[p].st = "claim" /\ ap'[p].pick = pick /\ ap'[p].sid = sid /\ ap'[p].had = had
          /\ ap'[p].resume = pick /\ ap'[p].rec = a.rec /\ ap'[p].cur = a.cur /\ DOMAIN ap'[p] = DOMAIN a
          /\ DOMAIN ap' = AgentPanes /\ DOMAIN ap = AgentPanes /\ \A q \in AgentPanes \ {p} : ap'[q] = ap[q]
        BY <2>f, <2>g DEF ResumeTypeOK
    <2>i. /\ sid # None0 /\ pick \in {None0, a.pick} /\ sid \in {a.rec, a.sid, a.pick, fresh + 1}
          /\ fresh \in Nat /\ {a.rec, a.sid, a.pick, a.resume, a.cur} \subseteq 0 .. fresh
          /\ fresh' \in {fresh, fresh + 1} /\ sid <= fresh'
        BY <2>f DEF ResumeTypeOK
    <2>j. ~gap /\ ~had => a.rec = None0 /\ pick = a.pick /\ (a.pick # None0 => sid = a.pick)
                           /\ (a.pick = None0 => sid = fresh + 1)
        BY <2>f DEF Stages
    <2> HIDE DEF pick, had, adopt, sid
    <2>k. /\ sid \in 0 .. fresh' /\ pick \in 0 .. fresh' /\ fresh' \in Nat
          /\ \A x \in 0 .. fresh : x \in 0 .. fresh'
        BY <2>i
    <2>1. ResumeTypeOK'
        BY <2>f, <2>g, <2>h, <2>i, <2>k DEF ResumeTypeOK
    <2>2. ~gap' => ~gap /\ Stages'
        BY <2>f, <2>h, <2>i, <2>j DEF Stages
    <2>3. ASSUME ~gap' PROVE Apart'
        <3>1. ~gap /\ Stages /\ Apart
            BY <2>2, <2>3
        <3>2. Mine(p)' = IF had THEN None0 ELSE sid
            BY <2>h DEF Mine
        <3>3. Mine(p)' # None0 => Visible(p)'
            BY <2>h, <2>i, <2>j, <3>1, <3>2 DEF Visible, HeldBy
        <3>4. ~had => Mine(p) = a.pick
            BY <2>f DEF had, Mine
        <3>5. \A q \in AgentPanes \ {p} : Mine(q) \in 0 .. fresh
            BY <2>i DEF Mine, ResumeTypeOK
        <3>6. \A q \in AgentPanes \ {p} : Mine(q) # None0 => Mine(q) # Mine(p)'
            BY <2>i, <2>j, <3>1, <3>2, <3>4, <3>5 DEF Apart
        <3>7. \A q \in AgentPanes \ {p} : Mine(q) # None0 /\ Private(q) =>
                 Mine(q) \notin onDisk' /\ Mine(q) \notin Fields(p)'
            BY <2>f, <2>h, <2>i, <3>5 DEF Private, Fields
        <3> QED
            BY <2>h, <3>1, <3>3, <3>6, <3>7, OnePaneStep
    <2> QED
        BY <2>1, <2>2, <2>3
<1>3. ASSUME NEW p \in AgentPanes, NEW l \in BOOLEAN, LocatedOwnSession(p, l) PROVE ResumeInv'
    <2> DEFINE a == ap[p]
    <2> DEFINE c == Candidates(p)[1]
    <2>g. /\ DOMAIN a = {"st", "sid", "path", "pick", "rec", "recPath", "had", "resume", "cur", "restored"}
          /\ fresh \in Nat /\ {a.rec, a.sid, a.pick, a.resume, a.cur} \subseteq 0 .. fresh
        BY DEF ResumeTypeOK
    <2>1. CASE a.resume = None0 /\ a.had /\ Located(c) /\ ~HeldElsewhere(p, c[1], l)
        <3>1. /\ a.st = "claim" /\ UNCHANGED <<onDisk, fresh, spawns>> /\ gap' = (gap \/ HeldByOther(p, c[1]))
              /\ ap' = [ap EXCEPT ![p] = [a EXCEPT !.st = "exec", !.resume = c[1], !.sid = c[1], !.path = c[2]]]
            BY <1>3, <2>1 DEF LocatedOwnSession
        <3>2. c[1] # None0 /\ c[1] \in {a.rec, a.sid} /\ (a.rec # None0 => c[1] = a.rec)
            BY <3>1, CandidatesAreOwn DEF ResumeTypeOK
        <3>3. /\ ap'[p].st = "exec" /\ ap'[p].pick = a.pick /\ ap'[p].sid = c[1] /\ ap'[p].had = a.had
              /\ ap'[p].resume = c[1] /\ ap'[p].rec = a.rec /\ ap'[p].cur = a.cur /\ DOMAIN ap'[p] = DOMAIN a
              /\ DOMAIN ap' = AgentPanes /\ DOMAIN ap = AgentPanes /\ \A q \in AgentPanes \ {p} : ap'[q] = ap[q]
            BY <2>g, <3>1 DEF ResumeTypeOK
        <3>4. ResumeTypeOK'
            BY <2>g, <3>1, <3>2, <3>3 DEF ResumeTypeOK
        <3>5. ~gap' => ~gap /\ ~HeldByOther(p, c[1]) /\ Stages'
            BY <3>1, <3>2, <3>3 DEF Stages
        <3>6. ASSUME ~gap' PROVE Apart'
            <4>1. ~gap /\ Stages /\ Apart
                BY <3>5, <3>6
            <4>2. Mine(p)' \in {None0, c[1]} /\ HeldBy(p)' = c[1]
                BY <3>2, <3>3 DEF Mine, HeldBy
            <4>3. \A q \in AgentPanes \ {p} : Mine(q) # None0 => Mine(q) # Mine(p)'
                BY <3>2, <3>5, <3>6, <4>1, <4>2, FreeIsNobodys DEF Fields
            <4>4. \A q \in AgentPanes \ {p} : Mine(q) # None0 /\ Private(q) =>
                     Mine(q) \notin onDisk' /\ Mine(q) \notin Fields(p)'
                BY <3>1, <3>2, <3>3 DEF Private, Fields
            <4> QED
                BY <3>3, <4>1, <4>2, <4>3, <4>4, OnePaneStep DEF Visible
        <3> QED
            BY <3>4, <3>5, <3>6
    <2>2. CASE ~(a.resume = None0 /\ a.had /\ Located(c) /\ ~HeldElsewhere(p, c[1], l))
        <3>a. /\ a.st = "claim" /\ UNCHANGED <<onDisk, fresh, spawns>>
              /\ ap' = [ap EXCEPT ![p] = [a EXCEPT !.st = "exec"]]
            BY <1>3, <2>2 DEF LocatedOwnSession
        <3>b. ~gap' => ~gap
            BY <1>3, Zenon DEF LocatedOwnSession
        <3>1. /\ a.st = "claim" /\ UNCHANGED <<onDisk, fresh, spawns>> /\ (~gap' => ~gap)
              /\ ap' = [ap EXCEPT ![p] = [a EXCEPT !.st = "exec"]]
            BY <3>a, <3>b
        <3>3. /\ ap'[p].st = "exec" /\ ap'[p].pick = a.pick /\ ap'[p].sid = a.sid /\ ap'[p].had = a.had
              /\ ap'[p].resume = a.resume /\ ap'[p].rec = a.rec /\ ap'[p].cur = a.cur /\ DOMAIN ap'[p] = DOMAIN a
              /\ DOMAIN ap' = AgentPanes /\ DOMAIN ap = AgentPanes /\ \A q \in AgentPanes \ {p} : ap'[q] = ap[q]
            BY <2>g, <3>1 DEF ResumeTypeOK
        <3>4. ResumeTypeOK'
            BY <2>g, <3>1, <3>3 DEF ResumeTypeOK
        <3>5. ~gap' => ~gap /\ Stages'
            BY <3>1, <3>3 DEF Stages, ResumeTypeOK
        <3>6. ASSUME ~gap' PROVE Apart'
            <4>1. ~gap /\ Stages /\ Apart
                BY <3>5, <3>6
            <4>2. Mine(p)' = Mine(p) /\ HeldBy(p)' = HeldBy(p) /\ Fields(p)' = Fields(p)
                BY <3>1, <3>3, <4>1 DEF Mine, HeldBy, Fields, Stages
            <4>3. Mine(p)' # None0 => Visible(p)' \/ Private(p)'
                BY <3>1, <3>3, <4>1, <4>2 DEF Apart, Visible, Private
            <4> QED
                BY <3>1, <3>3, <4>1, <4>2, <4>3, OnePaneStep DEF Apart, Private, Fields
        <3> QED
            BY <3>4, <3>5, <3>6
    <2> QED
        BY <2>1, <2>2
<1>4. ASSUME NEW p \in AgentPanes, NEW l \in BOOLEAN, ResumeTemplate(p, l) PROVE ResumeInv'
    <2> DEFINE a == ap[p]
    <2> DEFINE c == FirstFree(p, l)
    <2>g. /\ DOMAIN a = {"st", "sid", "path", "pick", "rec", "recPath", "had", "resume", "cur", "restored"}
          /\ fresh \in Nat /\ {a.rec, a.sid, a.pick, a.resume, a.cur} \subseteq 0 .. fresh
        BY DEF ResumeTypeOK
    <2>h. a.st = "pending" /\ UNCHANGED <<onDisk, spawns>>
        BY <1>4 DEF ResumeTemplate
    <2>1. CASE /\ Free(p, l) # {} /\ fresh' = fresh
               /\ ap' = [ap EXCEPT ![p] = [a EXCEPT !.st = "exec", !.sid = c[1], !.path = c[2], !.resume = c[1]]]
               /\ gap' = (gap \/ Hidden(p, c[1]) \/ HeldByOther(p, c[1]))
        <3>2. c[1] # None0 /\ c[1] \in {a.rec, a.sid, a.pick}
            BY <2>1, FirstFreeIsOwn
        <3> HIDE DEF c
        <3>3. /\ ap'[p].st = "exec" /\ ap'[p].pick = a.pick /\ ap'[p].sid = c[1] /\ ap'[p].had = a.had
              /\ ap'[p].resume = c[1] /\ ap'[p].rec = a.rec /\ ap'[p].cur = a.cur /\ DOMAIN ap'[p] = DOMAIN a
              /\ DOMAIN ap' = AgentPanes /\ DOMAIN ap = AgentPanes /\ \A q \in AgentPanes \ {p} : ap'[q] = ap[q]
            BY <2>g, <2>1 DEF ResumeTypeOK
        <3>4. ResumeTypeOK'
            BY <2>g, <2>h, <2>1, <3>2, <3>3 DEF ResumeTypeOK
        <3>5. ~gap' => ~gap /\ Stages' /\ ~a.had /\ a.rec \in {None0, c[1]} /\ ~HeldByOther(p, c[1])
            BY <2>h, <2>1, <3>2, <3>3 DEF Stages, Hidden
        <3>6. ASSUME ~gap' PROVE Apart'
            <4>1. ~gap /\ Stages /\ Apart
                BY <3>5, <3>6
            <4>2. Mine(p)' = c[1] /\ HeldBy(p)' = c[1]
                BY <3>2, <3>3, <3>5, <3>6 DEF Mine, HeldBy
            <4>3. \A q \in AgentPanes \ {p} : Mine(q) # None0 => Mine(q) # Mine(p)'
                BY <3>2, <3>5, <3>6, <4>1, <4>2, FreeIsNobodys DEF Fields
            <4>4. \A q \in AgentPanes \ {p} : Mine(q) # None0 /\ Private(q) =>
                     Mine(q) \notin onDisk' /\ Mine(q) \notin Fields(p)'
                BY <2>h, <3>2, <3>3 DEF Private, Fields
            <4> QED
                BY <3>3, <4>1, <4>2, <4>3, <4>4, OnePaneStep DEF Visible
        <3> QED
            BY <3>4, <3>5, <3>6
    <2>2. CASE /\ fresh' = fresh + 1 /\ gap' = gap
               /\ ap' = [ap EXCEPT ![p] = [a EXCEPT !.st = "exec", !.sid = fresh + 1, !.path = FALSE, !.resume = None0]]
        <3>3. /\ ap'[p].st = "exec" /\ ap'[p].pick = a.pick /\ ap'[p].sid = fresh + 1 /\ ap'[p].had = a.had
              /\ ap'[p].resume = None0 /\ ap'[p].rec = a.rec /\ ap'[p].cur = a.cur /\ DOMAIN ap'[p] = DOMAIN a
              /\ DOMAIN ap' = AgentPanes /\ DOMAIN ap = AgentPanes /\ \A q \in AgentPanes \ {p} : ap'[q] = ap[q]
            BY <2>g, <2>2 DEF ResumeTypeOK
        <3>k. fresh + 1 # None0 /\ fresh + 1 \in 0 .. fresh' /\ fresh' \in Nat /\ \A x \in 0 .. fresh : x \in 0 .. fresh'
            BY <2>g, <2>2
        <3>4. ResumeTypeOK'
            BY <2>g, <2>h, <2>2, <3>3, <3>k DEF ResumeTypeOK
        <3>5. ~gap' => ~gap /\ Stages' /\ ~a.had
            BY <2>h, <2>2, <3>3, <3>k DEF Stages
        <3>6. ASSUME ~gap' PROVE Apart'
            <4>1. ~gap /\ Stages /\ Apart
                BY <3>5, <3>6
            <4>2. Mine(p)' = fresh + 1
                BY <3>3, <3>5, <3>6 DEF Mine
            <4>3. \A q \in AgentPanes \ {p} : Mine(q) \in 0 .. fresh /\ Fields(q) \subseteq 0 .. fresh /\ Fields(q)' = Fields(q)
                BY <3>3 DEF Mine, Fields, ResumeTypeOK
            <4>4. Private(p)'
                BY <2>g, <2>h, <4>2, <4>3 DEF Private, Fields, ResumeTypeOK
            <4>5. \A q \in AgentPanes \ {p} : Mine(q) # None0 => Mine(q) # Mine(p)'
                BY <2>g, <4>2, <4>3
            <4>6. \A q \in AgentPanes \ {p} : Mine(q) # None0 /\ Private(q) =>
                     Mine(q) \notin onDisk' /\ Mine(q) \notin Fields(p)'
                BY <2>g, <2>h, <3>3, <4>3 DEF Private, Fields
            <4> QED
                BY <3>3, <4>1, <4>4, <4>5, <4>6, OnePaneStep
        <3> QED
            BY <3>4, <3>5, <3>6
    <2>3. CASE /\ Candidates(p) = <<>> /\ fresh' = fresh /\ gap' = gap
               /\ ap' = [ap EXCEPT ![p] = [a EXCEPT !.st = "exited", !.restored = FALSE]]
        <3>2. a.rec = None0 /\ a.sid = None0 /\ a.pick = None0
            BY <2>3, CandidatesAreOwn
        <3>3. /\ ap'[p].st = "exited" /\ ap'[p].pick = a.pick /\ ap'[p].sid = a.sid /\ ap'[p].had = a.had
              /\ ap'[p].resume = a.resume /\ ap'[p].rec = a.rec /\ ap'[p].cur = a.cur /\ DOMAIN ap'[p] = DOMAIN a
              /\ DOMAIN ap' = AgentPanes /\ DOMAIN ap = AgentPanes /\ \A q \in AgentPanes \ {p} : ap'[q] = ap[q]
            BY <2>g, <2>3 DEF ResumeTypeOK
        <3>4. ResumeTypeOK'
            BY <2>g, <2>h, <2>3, <3>3 DEF ResumeTypeOK
        <3>5. ~gap' => ~gap /\ Stages'
            BY <2>h, <2>3, <3>2, <3>3 DEF Stages
        <3>6. ASSUME ~gap' PROVE Apart'
            <4>1. ~gap /\ Stages /\ Apart
                BY <3>5, <3>6
            <4>2. Mine(p)' = None0
                BY <3>3 DEF Mine
            <4>3. \A q \in AgentPanes \ {p} : Mine(q) # None0 /\ Private(q) =>
                     Mine(q) \notin onDisk' /\ Mine(q) \notin Fields(p)'
                BY <2>h, <3>3 DEF Private, Fields
            <4> QED
                BY <3>3, <4>1, <4>2, <4>3, OnePaneStep
        <3> QED
            BY <3>4, <3>5, <3>6
    <2>4. ASSUME NEW s \in onDisk, fresh' = fresh, gap' = TRUE,
                 ap' = [ap EXCEPT ![p] = [a EXCEPT !.st = "exec", !.resume = s]]
          PROVE  ResumeInv'
        BY <2>g, <2>h, <2>4 DEF ResumeTypeOK
    <2> QED
        BY <1>4, <2>1, <2>2, <2>3, <2>4 DEF ResumeTemplate
<1>5. ASSUME NEW p \in AgentPanes, Exec(p) PROVE ResumeInv'
    <2> DEFINE a == ap[p]
    <2> DEFINE s == IF a.resume # None0 THEN a.resume ELSE a.sid
    <2> DEFINE refused == (a.resume # None0) # (s \in onDisk)
    <2>g. /\ DOMAIN a = {"st", "sid", "path", "pick", "rec", "recPath", "had", "resume", "cur", "restored"}
          /\ fresh \in Nat /\ {a.rec, a.sid, a.pick, a.resume, a.cur} \subseteq 0 .. fresh
        BY DEF ResumeTypeOK
    <2>f. /\ a.st = "exec" /\ UNCHANGED <<onDisk, fresh>>
          /\ ap' = [ap EXCEPT ![p] =
                      [a EXCEPT !.st = IF refused THEN "exited" ELSE "run", !.restored = FALSE,
                                !.cur = IF refused THEN None0 ELSE s, !.resume = None0, !.had = FALSE]]
          /\ gap' = (gap \/ (a.had /\ a.resume \in {None0, a.pick} /\ (HeldByOther(p, s) \/ HeldBy(p) # s)))
        BY <1>5 DEF Exec
    <2>i. s \in 0 .. fresh /\ s \in Fields(p)
        BY <2>g DEF Fields
    <2> HIDE DEF refused
    <2>h. /\ ap'[p].st = (IF refused THEN "exited" ELSE "run") /\ ap'[p].pick = a.pick /\ ap'[p].sid = a.sid
          /\ ~ap'[p].had /\ ap'[p].cur = (IF refused THEN None0 ELSE s)
          /\ ap'[p].resume = None0 /\ ap'[p].rec = a.rec /\ DOMAIN ap'[p] = DOMAIN a
          /\ DOMAIN ap' = AgentPanes /\ DOMAIN ap = AgentPanes /\ \A q \in AgentPanes \ {p} : ap'[q] = ap[q]
        BY <2>g, <2>f DEF ResumeTypeOK
    <2>j. ~gap => s # None0 /\ a.sid # None0
        BY <2>f DEF Stages
    <2>1. ResumeTypeOK'
        BY <2>f, <2>g, <2>h, <2>i DEF ResumeTypeOK
    <2>2. ~gap' => ~gap /\ Stages'
        <3> SUFFICES ASSUME ~gap' PROVE ~gap /\ Stages'
            OBVIOUS
        <3>1. ~gap
            BY <2>f
        <3>2. /\ ap'[p].st \in {"exited", "run"} /\ ap'[p].sid # None0 /\ ~ap'[p].had /\ ap'[p].resume = None0
              /\ ap'[p].st = "run" => ap'[p].cur # None0
            BY <2>h, <2>j, <3>1
        <3> QED
            BY <2>h, <3>1, <3>2 DEF Stages
    <2>3. ASSUME ~gap' PROVE Apart'
        <3>1. ~gap /\ Stages /\ Apart
            BY <2>2, <2>3
        <3>2. Mine(p)' = IF refused THEN None0 ELSE s
            BY <2>h DEF Mine
        <3>3. ~refused => HeldBy(p)' = HeldBy(p)
            BY <2>f, <2>h, <2>j, <3>1 DEF HeldBy
        <3>4. CASE a.had /\ a.resume \in {None0, a.pick}
            <4>1. ~HeldByOther(p, s) /\ HeldBy(p) = s
                BY <2>3, <2>f, <3>4
            <4>2. \A q \in AgentPanes \ {p} : Mine(q) # None0 => Mine(q) # Mine(p)'
                BY <2>i, <3>1, <3>2, <4>1, FreeIsNobodys
            <4>3. Mine(p)' # None0 => Visible(p)'
                BY <3>2, <3>3, <4>1 DEF Visible
            <4>4. \A q \in AgentPanes \ {p} : Mine(q) # None0 /\ Private(q) =>
                     Mine(q) \notin onDisk' /\ Mine(q) \notin Fields(p)'
                BY <2>f, <2>h DEF Private, Fields
            <4> QED
                BY <2>h, <3>1, <4>2, <4>3, <4>4, OnePaneStep
        <3>5. CASE ~(a.had /\ a.resume \in {None0, a.pick})
            <4>1. Mine(p) = s
                BY <2>f, <3>5 DEF Mine
            <4>2. \A q \in AgentPanes \ {p} : Mine(q) # None0 => Mine(q) # Mine(p)'
                BY <3>1, <3>2, <4>1 DEF Apart
            <4>3. Mine(p)' # None0 => Visible(p)' \/ Private(p)'
                BY <2>f, <2>h, <3>1, <3>2, <3>3, <4>1 DEF Apart, Visible, Private
            <4>4. \A q \in AgentPanes \ {p} : Mine(q) # None0 /\ Private(q) =>
                     Mine(q) \notin onDisk' /\ Mine(q) \notin Fields(p)'
                BY <2>f, <2>h DEF Private, Fields
            <4> QED
                BY <2>h, <3>1, <4>2, <4>3, <4>4, OnePaneStep
        <3> QED
            BY <3>4, <3>5
    <2> QED
        BY <2>1, <2>2, <2>3
<1>6. ASSUME NEW p \in AgentPanes, SessionStart(p) PROVE ResumeInv'
    <2> DEFINE a == ap[p]
    <2>f. /\ a.st = "run" /\ UNCHANGED <<onDisk, fresh, spawns, gap>>
          /\ ap' = [ap EXCEPT ![p] = [a EXCEPT !.rec = a.cur, !.recPath = TRUE]]
        BY <1>6 DEF SessionStart
    <2>g. /\ DOMAIN a = {"st", "sid", "path", "pick", "rec", "recPath", "had", "resume", "cur", "restored"}
          /\ fresh \in Nat /\ {a.rec, a.sid, a.pick, a.resume, a.cur} \subseteq 0 .. fresh
        BY DEF ResumeTypeOK
    <2>h. /\ ap'[p].st = a.st /\ ap'[p].sid = a.sid /\ ap'[p].pick = a.pick /\ ap'[p].rec = a.cur
          /\ ap'[p].had = a.had /\ ap'[p].resume = a.resume /\ ap'[p].cur = a.cur /\ DOMAIN ap'[p] = DOMAIN a
          /\ DOMAIN ap' = AgentPanes /\ DOMAIN ap = AgentPanes /\ \A q \in AgentPanes \ {p} : ap'[q] = ap[q]
        BY <2>f, <2>g DEF ResumeTypeOK
    <2>1. ResumeTypeOK'
        BY <2>f, <2>g, <2>h DEF ResumeTypeOK
    <2>2. ~gap' => ~gap /\ Stages'
        BY <2>f, <2>h DEF Stages
    <2>3. ASSUME ~gap' PROVE Apart'
        <3>1. ~gap /\ Stages /\ Apart
            BY <2>2, <2>3
        <3>2. Mine(p)' = a.cur /\ Mine(p) = a.cur /\ a.cur # None0
            BY <2>f, <2>h, <3>1 DEF Mine, Stages
        <3>3. Mine(p)' # None0 => Visible(p)' \/ Private(p)'
            BY <2>f, <2>h, <3>2 DEF Visible, HeldBy
        <3>4. \A q \in AgentPanes \ {p} : Mine(q) # None0 => Mine(q) # Mine(p)'
            BY <3>1, <3>2 DEF Apart
        <3>5. \A q \in AgentPanes \ {p} : Mine(q) # None0 /\ Private(q) =>
                 Mine(q) \notin onDisk' /\ Mine(q) \notin Fields(p)'
            BY <2>f, <2>h, <3>1, <3>2 DEF Apart, Private, Fields
        <3> QED
            BY <2>h, <3>1, <3>3, <3>4, <3>5, OnePaneStep
    <2> QED
        BY <2>1, <2>2, <2>3
<1>7. ASSUME NEW p \in AgentPanes, Prompt(p) PROVE ResumeInv'
    <2>f. /\ ap[p].st = "run" /\ onDisk' = onDisk \cup {ap[p].cur} /\ UNCHANGED <<ap, fresh, spawns, gap>>
          /\ ap[p].rec = ap[p].cur
        BY <1>7 DEF Prompt
    <2>1. ResumeTypeOK'
        BY <2>f DEF ResumeTypeOK
    <2>2. ~gap' => ~gap /\ Stages'
        BY <2>f DEF Stages
    <2>3. ASSUME ~gap' PROVE Apart'
        <3>1. ~gap /\ Stages /\ Apart
            BY <2>2, <2>3
        <3>2. \A q \in AgentPanes : Mine(q)' = Mine(q) /\ HeldBy(q)' = HeldBy(q)
            BY <2>f DEF Mine, HeldBy
        <3>3. Mine(p) = ap[p].cur /\ HeldBy(p) = Mine(p)
            BY <2>f, <3>1 DEF Mine, HeldBy, Stages
        <3>4. \A q \in AgentPanes : Mine(q) # None0 /\ q # p => Mine(q) # ap[p].cur
            BY <3>1, <3>3 DEF Apart
        <3>5. \A q \in AgentPanes : Mine(q) # None0 /\ q # p /\ Private(q) => Private(q)'
            BY <2>f, <3>2, <3>4 DEF Private
        <3>6. \A q \in AgentPanes : Visible(q) => Visible(q)'
            BY <3>2 DEF Visible
        <3>7. Visible(p)'
            BY <3>2, <3>3 DEF Visible
        <3> QED
            BY <3>1, <3>2, <3>5, <3>6, <3>7 DEF Apart
    <2> QED
        BY <2>1, <2>2, <2>3
<1>8. ASSUME NEW p \in AgentPanes, RotateSession(p) PROVE ResumeInv'
    <2> DEFINE a == ap[p]
    <2>f. /\ a.st = "run" /\ fresh' = fresh + 1 /\ UNCHANGED <<onDisk, spawns, gap>>
          /\ ap' = [ap EXCEPT ![p] = [a EXCEPT !.cur = fresh + 1]]
        BY <1>8 DEF RotateSession
    <2>g. /\ DOMAIN a = {"st", "sid", "path", "pick", "rec", "recPath", "had", "resume", "cur", "restored"}
          /\ fresh \in Nat /\ {a.rec, a.sid, a.pick, a.resume, a.cur} \subseteq 0 .. fresh
        BY DEF ResumeTypeOK
    <2>h. /\ ap'[p].st = a.st /\ ap'[p].sid = a.sid /\ ap'[p].pick = a.pick /\ ap'[p].rec = a.rec
          /\ ap'[p].had = a.had /\ ap'[p].resume = a.resume /\ ap'[p].cur = fresh + 1 /\ DOMAIN ap'[p] = DOMAIN a
          /\ DOMAIN ap' = AgentPanes /\ DOMAIN ap = AgentPanes /\ \A q \in AgentPanes \ {p} : ap'[q] = ap[q]
        BY <2>f, <2>g DEF ResumeTypeOK
    <2>k. fresh' \in Nat /\ fresh + 1 \in 0 .. fresh' /\ \A x \in 0 .. fresh : x \in 0 .. fresh'
        BY <2>f, <2>g
    <2>1. ResumeTypeOK'
        BY <2>f, <2>g, <2>h, <2>k DEF ResumeTypeOK
    <2>2. ~gap' => ~gap /\ Stages'
        BY <2>f, <2>h, <2>g DEF Stages
    <2>3. ASSUME ~gap' PROVE Apart'
        <3>1. ~gap /\ Stages /\ Apart
            BY <2>2, <2>3
        <3>2. Mine(p)' = fresh + 1
            BY <2>f, <2>h DEF Mine
        <3>6. \A q \in AgentPanes \ {p} : Mine(q) \in 0 .. fresh
            BY <2>g DEF Mine, ResumeTypeOK
        <3>3. Mine(p)' # None0 => Visible(p)' \/ Private(p)'
            <4>1. \A q \in AgentPanes \ {p} : fresh + 1 \notin {ap[q].sid, ap[q].pick, ap[q].rec, ap[q].resume}
                BY <2>g DEF ResumeTypeOK
            <4>2. fresh + 1 \notin onDisk
                BY <2>g DEF ResumeTypeOK
            <4> QED
                BY <2>f, <2>h, <3>2, <4>1, <4>2 DEF Private
        <3>4. \A q \in AgentPanes \ {p} : Mine(q) # None0 => Mine(q) # Mine(p)'
            BY <2>g, <3>2, <3>6
        <3>5. \A q \in AgentPanes \ {p} : Mine(q) # None0 /\ Private(q) =>
                 Mine(q) \notin onDisk' /\ Mine(q) \notin Fields(p)'
            BY <2>f, <2>h DEF Private, Fields
        <3> QED
            BY <2>h, <3>1, <3>3, <3>4, <3>5, OnePaneStep
    <2> QED
        BY <2>1, <2>2, <2>3
<1>9. ASSUME NEW p \in AgentPanes, ProcessEnds(p) PROVE ResumeInv'
    <2> DEFINE a == ap[p]
    <2>f. /\ a.st = "run" /\ UNCHANGED <<onDisk, fresh, spawns, gap>>
          /\ ap' = [ap EXCEPT ![p] = [a EXCEPT !.st = "exited", !.cur = None0]]
        BY <1>9 DEF ProcessEnds
    <2>g. /\ DOMAIN a = {"st", "sid", "path", "pick", "rec", "recPath", "had", "resume", "cur", "restored"}
          /\ fresh \in Nat /\ {a.rec, a.sid, a.pick, a.resume, a.cur} \subseteq 0 .. fresh
        BY DEF ResumeTypeOK
    <2>h. /\ ap'[p].st = "exited" /\ ap'[p].sid = a.sid /\ ap'[p].pick = a.pick /\ ap'[p].rec = a.rec
          /\ ap'[p].had = a.had /\ ap'[p].resume = a.resume /\ ap'[p].cur = None0 /\ DOMAIN ap'[p] = DOMAIN a
          /\ DOMAIN ap' = AgentPanes /\ DOMAIN ap = AgentPanes /\ \A q \in AgentPanes \ {p} : ap'[q] = ap[q]
        BY <2>f, <2>g DEF ResumeTypeOK
    <2>1. ResumeTypeOK'
        BY <2>f, <2>g, <2>h DEF ResumeTypeOK
    <2>2. ~gap' => ~gap /\ Stages'
        BY <2>f, <2>h DEF Stages
    <2>3. ASSUME ~gap' PROVE Apart'
        <3>1. ~gap /\ Stages /\ Apart
            BY <2>2, <2>3
        <3>2. Mine(p)' = None0
            BY <2>h DEF Mine
        <3>3. Mine(p)' # None0 => Visible(p)' \/ Private(p)'
            BY <3>2
        <3>4. \A q \in AgentPanes \ {p} : Mine(q) # None0 => Mine(q) # Mine(p)'
            BY <3>2
        <3>5. \A q \in AgentPanes \ {p} : Mine(q) # None0 /\ Private(q) =>
                 Mine(q) \notin onDisk' /\ Mine(q) \notin Fields(p)'
            BY <2>f, <2>h DEF Private, Fields
        <3> QED
            BY <2>h, <3>1, <3>3, <3>4, <3>5, OnePaneStep
    <2> QED
        BY <2>1, <2>2, <2>3
<1>10. ASSUME NEW p \in AgentPanes, RestartAgent(p) PROVE ResumeInv'
    <2> DEFINE a == ap[p]
    <2>f. /\ a.st \in {"run", "exited"} /\ UNCHANGED <<onDisk, fresh, spawns, gap>>
          /\ ap' = [ap EXCEPT ![p] = [a EXCEPT !.st = "pending", !.cur = None0]]
        BY <1>10 DEF RestartAgent
    <2>g. /\ DOMAIN a = {"st", "sid", "path", "pick", "rec", "recPath", "had", "resume", "cur", "restored"}
          /\ fresh \in Nat /\ {a.rec, a.sid, a.pick, a.resume, a.cur} \subseteq 0 .. fresh
        BY DEF ResumeTypeOK
    <2>h. /\ ap'[p].st = "pending" /\ ap'[p].sid = a.sid /\ ap'[p].pick = a.pick /\ ap'[p].rec = a.rec
          /\ ap'[p].had = a.had /\ ap'[p].resume = a.resume /\ ap'[p].cur = None0 /\ DOMAIN ap'[p] = DOMAIN a
          /\ DOMAIN ap' = AgentPanes /\ DOMAIN ap = AgentPanes /\ \A q \in AgentPanes \ {p} : ap'[q] = ap[q]
        BY <2>f, <2>g DEF ResumeTypeOK
    <2>1. ResumeTypeOK'
        BY <2>f, <2>g, <2>h DEF ResumeTypeOK
    <2>2. ~gap' => ~gap /\ Stages'
        BY <2>f, <2>h DEF Stages
    <2>3. ASSUME ~gap' PROVE Apart'
        <3>1. ~gap /\ Stages /\ Apart
            BY <2>2, <2>3
        <3>2. Mine(p)' = None0
            BY <2>f, <2>h, <3>1 DEF Mine, Stages
        <3>3. Mine(p)' # None0 => Visible(p)' \/ Private(p)'
            BY <3>2
        <3>4. \A q \in AgentPanes \ {p} : Mine(q) # None0 => Mine(q) # Mine(p)'
            BY <3>2
        <3>5. \A q \in AgentPanes \ {p} : Mine(q) # None0 /\ Private(q) =>
                 Mine(q) \notin onDisk' /\ Mine(q) \notin Fields(p)'
            BY <2>f, <2>h DEF Private, Fields
        <3> QED
            BY <2>h, <3>1, <3>3, <3>4, <3>5, OnePaneStep
    <2> QED
        BY <2>1, <2>2, <2>3
<1>11. ASSUME NEW p \in AgentPanes, NEW s \in onDisk \cup {None0}, ApplyResumeSessionID(p, s) PROVE ResumeInv'
    <2> DEFINE a == ap[p]
    <2>f. /\ a.st = "published" /\ UNCHANGED <<onDisk, fresh, spawns, gap>>
          /\ ap' = [ap EXCEPT ![p] = [a EXCEPT !.st = "pending", !.pick = (IF HeldByOther(p, s) THEN None0 ELSE s)]]
        BY <1>11 DEF ApplyResumeSessionID, HeldElsewhere
    <2>g. /\ DOMAIN a = {"st", "sid", "path", "pick", "rec", "recPath", "had", "resume", "cur", "restored"}
          /\ fresh \in Nat /\ {a.rec, a.sid, a.pick, a.resume, a.cur} \subseteq 0 .. fresh
        BY DEF ResumeTypeOK
    <2>h. /\ ap'[p].st = "pending" /\ ap'[p].sid = a.sid /\ ap'[p].pick = (IF HeldByOther(p, s) THEN None0 ELSE s) /\ ap'[p].rec = a.rec
          /\ ap'[p].had = a.had /\ ap'[p].resume = a.resume /\ ap'[p].cur = a.cur /\ DOMAIN ap'[p] = DOMAIN a
          /\ DOMAIN ap' = AgentPanes /\ DOMAIN ap = AgentPanes /\ \A q \in AgentPanes \ {p} : ap'[q] = ap[q]
        BY <2>f, <2>g DEF ResumeTypeOK
    <2>k. (IF HeldByOther(p, s) THEN None0 ELSE s) \in 0 .. fresh
        BY <2>g DEF ResumeTypeOK
    <2>1. ResumeTypeOK'
        BY <2>f, <2>g, <2>h, <2>k DEF ResumeTypeOK
    <2>2. ~gap' => ~gap /\ Stages'
        BY <2>f, <2>h DEF Stages
    <2>3. ASSUME ~gap' PROVE Apart'
        <3>1. ~gap /\ Stages /\ Apart
            BY <2>2, <2>3
        <3>2. Mine(p)' = (IF HeldByOther(p, s) THEN None0 ELSE s) /\ a.sid = None0 /\ a.rec = None0
            BY <2>f, <2>h, <3>1 DEF Mine, Stages
        <3>3. Mine(p)' # None0 => Visible(p)' \/ Private(p)'
            BY <2>f, <2>h, <3>2 DEF Visible, HeldBy
        <3>4. \A q \in AgentPanes \ {p} : Mine(q) # None0 => Mine(q) # Mine(p)'
            <4>1. s # None0 => s \in Fields(p) \cup onDisk
                OBVIOUS
            <4> QED
                BY <3>1, <3>2, <4>1, FreeIsNobodys
        <3>5. \A q \in AgentPanes \ {p} : Mine(q) # None0 /\ Private(q) =>
                 Mine(q) \notin onDisk' /\ Mine(q) \notin Fields(p)'
            <4>1. \A q \in AgentPanes \ {p} : Mine(q) # None0 /\ Private(q) => Mine(q) \notin Fields(p) \cup onDisk \cup {None0}
                BY DEF Private, Fields
            <4>2. Fields(p)' \subseteq Fields(p) \cup onDisk \cup {None0}
                BY <2>h DEF Fields
            <4> QED
                BY <2>f, <4>1, <4>2
        <3> QED
            BY <2>h, <3>1, <3>3, <3>4, <3>5, OnePaneStep
    <2> QED
        BY <2>1, <2>2, <2>3
<1>12. CASE DaemonRestart
    <2>1. PICK clean \in BOOLEAN :
             ap' = [p \in AgentPanes |->
                      IF ap[p].st = "absent" THEN ap[p]
                      ELSE [(IF clean THEN Refresh(ap[p]) ELSE ap[p])
                              EXCEPT !.st = "pending", !.restored = TRUE, !.cur = None0]]
        BY <1>12 DEF DaemonRestart
    <2>2. /\ UNCHANGED <<onDisk, fresh, spawns, gap>>
          /\ \A p \in AgentPanes : ap[p].st \in {"absent", "pending", "run", "exited"}
        BY <1>12 DEF DaemonRestart
    <2>3. ASSUME NEW p \in AgentPanes
          PROVE  /\ DOMAIN ap'[p] = {"st", "sid", "path", "pick", "rec", "recPath", "had", "resume", "cur", "restored"}
                 /\ ap'[p].st = (IF ap[p].st = "absent" THEN "absent" ELSE "pending")
                 /\ ap'[p].rec = ap[p].rec /\ ap'[p].resume = ap[p].resume /\ ap'[p].had = ap[p].had
                 /\ ap'[p].cur \in {None0, ap[p].cur}
                 /\ \/ ap'[p].sid = ap[p].sid /\ ap'[p].pick = ap[p].pick
                    \/ ap[p].rec # None0 /\ ap'[p].sid = ap[p].rec /\ ap'[p].pick = None0
        <3>1. DOMAIN ap[p] = {"st", "sid", "path", "pick", "rec", "recPath", "had", "resume", "cur", "restored"}
            BY DEF ResumeTypeOK
        <3>2. CASE ap[p].st = "absent"
            BY <2>1, <3>1, <3>2
        <3>3. CASE ap[p].st # "absent" /\ ~(clean /\ ap[p].rec # None0)
            <4>1. ap'[p] = [ap[p] EXCEPT !.st = "pending", !.restored = TRUE, !.cur = None0]
                BY <2>1, <3>3 DEF Refresh
            <4> QED
                BY <3>1, <3>3, <4>1
        <3>4. CASE ap[p].st # "absent" /\ clean /\ ap[p].rec # None0
            <4>1. ap'[p] = [[ap[p] EXCEPT !.sid = ap[p].rec, !.path = ap[p].recPath, !.pick = None0]
                              EXCEPT !.st = "pending", !.restored = TRUE, !.cur = None0]
                BY <2>1, <3>4 DEF Refresh
            <4> QED
                BY <3>1, <3>4, <4>1
        <3> QED
            BY <3>2, <3>3, <3>4
    <2>4. DOMAIN ap' = AgentPanes
        BY <2>1
    <2>5. ResumeTypeOK'
        BY <2>2, <2>3, <2>4 DEF ResumeTypeOK
    <2>6. ASSUME ~gap' PROVE Stages'
        BY <2>2, <2>3, <2>6 DEF Stages
    <2>7. ASSUME ~gap' PROVE Apart'
        <3>1. Stages /\ Apart
            BY <2>2, <2>7
        <3>2. \A p \in AgentPanes : Mine(p)' # None0 =>
                 Mine(p)' = Mine(p) /\ Visible(p)'
            BY <2>2, <2>3, <3>1 DEF Mine, Stages, Visible, HeldBy
        <3> QED
            BY <3>1, <3>2 DEF Apart
    <2> QED
        BY <2>5, <2>6, <2>7, <2>2
<1>13. CASE Prune
    <2>f. onDisk' \subseteq onDisk /\ UNCHANGED <<ap, fresh, spawns, gap>>
        BY <1>13 DEF Prune
    <2> QED
        BY <2>f, SameClaims
<1>14. CASE UNCHANGED resumeVars
    <2>f. onDisk' \subseteq onDisk /\ UNCHANGED <<ap, fresh, spawns, gap>>
        BY <1>14 DEF resumeVars
    <2> QED
        BY <2>f, SameClaims
<1> QED
    BY <1>1, <1>2, <1>3, <1>4, <1>5, <1>6, <1>7, <1>8, <1>9, <1>10, <1>11, <1>12, <1>13, <1>14 DEF ResumeNext

\* Whichever panes are created, restarted, restored, cleared and closed in
\* whatever order, two running processes are never in one session, for any
\* number of panes and sessions; excepted is what ClaimsKeepApart excepts.
THEOREM ClaimsKeepSessionsApart == ResumeSpec => []ClaimsKeepApart
<1>1. ResumeInit => ResumeInv
    BY DEF ResumeInit, ResumeInv, ResumeTypeOK, Stages, Apart, Mine, Unborn, None0
<1>2. ResumeInv => ClaimsKeepApart
    BY DEF ResumeInv, Stages, Apart, Mine, ClaimsKeepApart, SessionsApart, InProcess
<1> QED
    BY <1>1, <1>2, ResumeStep, PTL DEF ResumeSpec

-----------------------------------------------------------------------------
(* The workspace file and the event loop that saves it                       *)

\* The event loop drives persist.Save as WorkspaceFile allows, so what is proved
\* of the file holds of the running daemon.

\* The files the daemon starts from satisfy the invariant.
LEMMA FileInvInit == ASSUME ~Damaged, FileInit PROVE FileInv
  BY FileAssumption DEF FileInit, FileInv, FileTypeOK, Content, Version, Absent, Corrupt

\* Every call of Save and every kill preserves the invariant.
LEMMA FileInvStep == ASSUME FileInv, [FileNext]_fvars PROVE FileInv'
  <1> USE DEF FileInv, FileTypeOK
  <1>1. ASSUME NEW v \in Version, BeginSave(v) PROVE FileInv'
    BY <1>1 DEF BeginSave, Content, Version
  <1>2. CASE WriteTemp
    BY <1>2 DEF WriteTemp, Content, Version, Absent, Corrupt
  <1>3. CASE RemoveBackup
    BY <1>3 DEF RemoveBackup, Content, Version, Absent, Corrupt
  <1>4. CASE Rotate
    BY <1>4 DEF Rotate, Content, Version, Absent, Corrupt
  <1>5. CASE Promote
    BY <1>5 DEF Promote, Content, Version, Absent, Corrupt
  <1>6. CASE SaveReturns
    BY <1>6 DEF SaveReturns
  <1>7. CASE Killed
    BY <1>7 DEF Killed, Content, Version, Absent, Corrupt
  <1>8. CASE UNCHANGED fvars
    BY <1>8 DEF fvars
  <1> QED BY <1>1, <1>2, <1>3, <1>4, <1>5, <1>6, <1>7, <1>8 DEF FileNext

\* The invariant is strong enough: Load returns the last version saved.
LEMMA FileInvLoads == ASSUME FileInv PROVE LoadsLastSaved
  BY DEF FileInv, FileTypeOK, LoadsLastSaved, Load, Content, Version, Absent, Corrupt

\* The inductive invariant holds of every behaviour of persist.Save.
THEOREM FileInvHolds == ASSUME ~Damaged PROVE FileSpec => []FileInv
  <1>1. FileInit => FileInv
    BY FileInvInit
  <1>2. FileInv /\ [FileNext]_fvars => FileInv'
    BY FileInvStep
  <1> QED BY <1>1, <1>2, PTL DEF FileSpec

\* Killed between any two system calls, or with any of them failing, the
\* daemon restores the last workspace whose promotion succeeded.
THEOREM LastSavedIsLoaded == ASSUME ~Damaged PROVE FileSpec => []LoadsLastSaved
  <1>1. FileInv => LoadsLastSaved
    BY FileInvLoads
  <1> QED BY <1>1, FileInvHolds, PTL

-----------------------------------------------------------------------------
(* The running daemon                                                        *)

\* Only versions that exist are ever handed to Save.
VersionOK == version \in Version

\* Each step of the daemon is a step of the file, or leaves it alone.
LEMMA FileStep ==
    ASSUME VersionOK, [Next]_svars
    PROVE  VersionOK' /\ [FileNext]_fvars
  <1> USE DEF VersionOK
  <1>1. CASE Mutate
    BY <1>1, FileAssumption DEF Mutate, Version
  <1>2. CASE RequestSnapshot
    BY <1>2 DEF RequestSnapshot
  <1>3. CASE Tick
    BY <1>3 DEF Tick
  <1>4. CASE TimerFires
    BY <1>4 DEF TimerFires
  <1>5. CASE Stop
    BY <1>5 DEF Stop, FileNext
  <1>6. CASE Kill
    BY <1>6 DEF Kill, FileNext
  <1>7. ASSUME NEW p \in Panes, ClosePane(p) PROVE VersionOK' /\ [FileNext]_fvars
    BY <1>7, FileAssumption DEF ClosePane, Version
  <1>8. ASSUME NEW p \in Panes, Output(p) PROVE VersionOK' /\ [FileNext]_fvars
    BY <1>8 DEF Output
  <1>9. CASE LoopStep
    <2>1. CASE OnRequest
      BY <2>1 DEF OnRequest
    <2>2. CASE OnTick
      BY <2>2 DEF OnTick, TakeState, FileNext
    <2>3. CASE OnDebounce
      BY <2>3 DEF OnDebounce, TakeState, FileNext
    <2>4. CASE SaveCall
      BY <2>4 DEF SaveCall, FileNext
    <2>5. CASE SaveEnds
      BY <2>5 DEF SaveEnds, FileNext
    <2>6. CASE Collect
      BY <2>6 DEF Collect
    <2>7. ASSUME NEW p \in Panes, WriteBuffer(p) PROVE VersionOK' /\ [FileNext]_fvars
      BY <2>7 DEF WriteBuffer
    <2>8. CASE RemoveBuffer
      BY <2>8 DEF RemoveBuffer
    <2>9. CASE RenameBuffer
      BY <2>9 DEF RenameBuffer
    <2>10. CASE CleanBuffers
      BY <2>10 DEF CleanBuffers
    <2> QED BY <1>9, <2>1, <2>2, <2>3, <2>4, <2>5, <2>6, <2>7, <2>8, <2>9, <2>10 DEF LoopStep
  <1>10. CASE UNCHANGED svars
    BY <1>10 DEF svars
  <1> QED BY <1>1, <1>2, <1>3, <1>4, <1>5, <1>6, <1>7, <1>8, <1>9, <1>10 DEF Next

\* The daemon's event loop, its debounce, ticker, Stop and crashes included,
\* implements the specification of the workspace file.
THEOREM SnapshotImplementsFile == Spec => FileSpec
  <1>1. Init => VersionOK /\ FileInit
    BY FileAssumption DEF Init, VersionOK, Version
  <1>2. VersionOK /\ [Next]_svars => VersionOK' /\ [FileNext]_fvars
    BY FileStep
  <1> QED BY <1>1, <1>2, PTL DEF Spec, FileSpec

\* However requests, timers, Stop, failing calls and kills interleave, a
\* daemon started again loads the last workspace that went live.
THEOREM DaemonLoadsLastSaved == ASSUME ~Damaged PROVE Spec => []LoadsLastSaved
  BY SnapshotImplementsFile, LastSavedIsLoaded, PTL

-----------------------------------------------------------------------------
(* Redraw keys and the input queue                                           *)

Items == [key : BOOLEAN, pos : Nat]
KickStages == [pc : {"idle", "send", "add", "seq"}, key : BOOLEAN, pos : Nat]
Writers == [pc : {"idle", "hold", "mark", "stamp"}, key : BOOLEAN, pos : Nat]
Held == IF writer.pc \in {"idle", "stamp"} THEN 0 ELSE 1
Adding == {k \in Senders : kicker[k].pc = "add"}

KickTypes ==
    /\ inputCh \in Seq(Items) /\ enqueued \in Nat /\ written \in Nat /\ redrawSeq \in Nat
    /\ age \in 0 .. Cooldown /\ readAge \in 0 .. Cooldown
    /\ kicker \in [Senders -> KickStages] /\ writer \in Writers
    /\ tooClose \in BOOLEAN /\ excepted \in BOOLEAN
    /\ \A k \in Senders : /\ kicker[k].pc = "idle" => ~kicker[k].key
                          /\ kicker[k].pc = "seq" => kicker[k].key

\* The queue holds the items pushed and not yet written, in order.
Counted ==
    /\ IsFiniteSet(Adding)
    /\ written + Held + Len(inputCh) = Pushed
    /\ writer.pc \in {"hold", "mark"} => writer.pos = written + 1
    /\ writer.pc = "stamp" => writer.pos = written /\ written # 0
    /\ \A i \in DOMAIN inputCh : inputCh[i].pos = written + Held + i

\* One goroutine at a time has a key that is not recorded, and the clock stands.
OneKey ==
    /\ \A j, k \in Senders : kicker[j].key /\ kicker[k].key => j = k
    /\ \A k \in Senders : kicker[k].key => age = 0 /\ redrawSeq <= written

\* Where the key is that the child has not read.
AtPos(n) ==
    /\ \A i \in DOMAIN inputCh : inputCh[i].key => inputCh[i].pos = n
    /\ writer.pc = "hold" /\ writer.key => writer.pos = n
NoneUnread ==
    /\ \A i \in DOMAIN inputCh : ~inputCh[i].key
    /\ ~(writer.pc = "hold" /\ writer.key)
Tracked ==
    /\ \A k \in Senders : kicker[k].key =>
         /\ kicker[k].pc = "send" => NoneUnread
         /\ kicker[k].pc # "send" => AtPos(kicker[k].pos)
    /\ (\A k \in Senders : ~kicker[k].key) => AtPos(redrawSeq)

\* The throttle's clock is never ahead of the child's own, save while the key
\* that was read is neither counted nor stamped.
ClockBehind ==
    age <= readAge \/ (writer.pc \in {"mark", "stamp"} /\ writer.key /\ redrawSeq = writer.pos)

\* A key on its way finds the child's window passed.
WindowPassed ==
    ~NoneUnread \/ (\E k \in Senders : kicker[k].key /\ kicker[k].pc = "send") => readAge = Cooldown

KickInv ==
    /\ KickTypes /\ Counted
    /\ ~excepted => OneKey /\ Tracked /\ ClockBehind /\ WindowPassed
    /\ KeysSpaced

\* The start.
LEMMA KickStarts ==
    ASSUME KickInit
    PROVE  KickInv
  <1>1. Cooldown \in Nat \ {0}
    BY KickAssumption
  <1>2. \A k \in Senders : kicker[k] = AtRest
    BY DEF KickInit
  <1>3. Adding = {} /\ IsFiniteSet(Adding) /\ Pushed = 0
    <2>1. Adding = {}
      BY <1>2 DEF Adding, AtRest
    <2>2. Pushed = enqueued + Cardinality(Adding)
      BY DEF Pushed, Adding
    <2> QED BY <2>1, <2>2, FS_EmptySet DEF KickInit
  <1>4. inputCh \in Seq(Items) /\ Len(inputCh) = 0 /\ DOMAIN inputCh = {}
    <2>1. PICK S : S = Items
      OBVIOUS
    <2>2. inputCh \in Seq(S)
      BY DEF KickInit
    <2> QED BY <2>1, <2>2 DEF KickInit
  <1>5. KickTypes
    <2>1. AtRest \in KickStages /\ writer \in Writers
      BY DEF KickInit, KickStages, Writers, AtRest
    <2>2. kicker \in [Senders -> KickStages]
      BY <2>1 DEF KickInit
    <2>3. \A k \in Senders : kicker[k].pc = "idle" /\ ~kicker[k].key
      BY <1>2 DEF AtRest
    <2>4. /\ enqueued = 0 /\ written = 0 /\ redrawSeq = 0 /\ age = Cooldown /\ readAge = Cooldown
          /\ tooClose = FALSE /\ excepted = FALSE
      BY DEF KickInit
    <2>5. age \in 0 .. Cooldown /\ readAge \in 0 .. Cooldown
      BY <1>1, <2>4
    <2> QED BY <1>4, <2>1, <2>2, <2>3, <2>4, <2>5 DEF KickTypes
  <1>6. Counted
    BY <1>3, <1>4 DEF KickInit, Counted, Held
  <1>7. OneKey /\ Tracked /\ ClockBehind /\ WindowPassed /\ KeysSpaced
    BY <1>1, <1>2, <1>4 DEF KickInit, OneKey, Tracked, AtPos, NoneUnread, ClockBehind, WindowPassed,
       KeysSpaced, AtRest
  <1> QED BY <1>5, <1>6, <1>7 DEF KickInv

\* What the argument is about, left alone.
Quiet == UNCHANGED <<inputCh, enqueued, written, redrawSeq, age, kicker, writer, readAge, tooClose, excepted>>

\* A step that leaves the queue and the throttle alone.
LEMMA QuietKeeps ==
    ASSUME KickInv, Quiet
    PROVE  KickInv'
  <1>1. KickTypes'
    BY DEF KickInv, Quiet, KickTypes
  <1>2. Counted'
    <2>1. Adding' = Adding /\ Pushed' = Pushed /\ Held' = Held
      BY DEF Quiet, Adding, Pushed, Held
    <2> QED BY <2>1 DEF KickInv, Quiet, Counted
  <1>3. ASSUME ~excepted'
        PROVE  OneKey' /\ Tracked' /\ ClockBehind' /\ WindowPassed'
    <2>1. OneKey /\ Tracked /\ ClockBehind /\ WindowPassed
      BY <1>3 DEF KickInv, Quiet
    <2>2. OneKey'
      BY <2>1 DEF Quiet, OneKey
    <2>3. Tracked'
      BY <2>1 DEF Quiet, Tracked, AtPos, NoneUnread
    <2>4. ClockBehind' /\ WindowPassed'
      BY <2>1 DEF Quiet, ClockBehind, WindowPassed, NoneUnread
    <2> QED BY <2>2, <2>3, <2>4
  <1> QED BY <1>1, <1>2, <1>3 DEF KickInv, Quiet, KeysSpaced

\* A key may be sent once the cooldown has passed and the last one has left the
\* queue and was stamped: then none is on its way, and the child's window has
\* passed too.
LEMMA KeyAllowed ==
    ASSUME KickInv, ~excepted, age >= Cooldown, ~QueuedKick, ~Unstamped
    PROVE  /\ \A k \in Senders : ~kicker[k].key
           /\ NoneUnread /\ readAge = Cooldown
  <1>0. /\ Cooldown \in Nat \ {0} /\ age = Cooldown /\ redrawSeq <= written
        /\ readAge \in 0 .. Cooldown /\ written \in Nat /\ redrawSeq \in Nat
    BY KickAssumption DEF KickInv, KickTypes, QueuedKick
  <1>1. \A k \in Senders : ~kicker[k].key
    BY <1>0 DEF KickInv, OneKey
  <1>2. AtPos(redrawSeq)
    BY <1>1 DEF KickInv, Tracked
  <1>3. \A i \in DOMAIN inputCh : i \in Nat \ {0} /\ inputCh[i].pos = written + Held + i
    BY DEF KickInv, Counted, KickTypes
  <1>4. \A i \in DOMAIN inputCh : ~inputCh[i].key
    BY <1>0, <1>2, <1>3 DEF AtPos, Held
  <1>5. ~(writer.pc = "hold" /\ writer.key)
    BY <1>0, <1>2 DEF AtPos, KickInv, Counted
  <1>6. readAge = Cooldown
    <2>1. /\ writer.pc = "mark" => writer.pos = written + 1
          /\ writer.pc = "stamp" => writer.pos = written
      BY DEF KickInv, Counted
    <2>2. ~(writer.pc = "stamp" /\ writer.key /\ redrawSeq = writer.pos)
      BY <2>1 DEF Unstamped
    <2> QED BY <1>0, <2>1, <2>2 DEF KickInv, ClockBehind
  <1> QED BY <1>1, <1>4, <1>5, <1>6 DEF NoneUnread

\* A goroutine decides to send the key.
LEMMA KeySent ==
    ASSUME KickInv, NEW k \in Senders, kicker[k].pc = "idle", age >= Cooldown, ~QueuedKick,
           age' = 0, kicker' = [kicker EXCEPT ![k] = [pc |-> "send", key |-> TRUE, pos |-> 0]],
           excepted' = (excepted \/ Unstamped),
           UNCHANGED <<inputCh, enqueued, written, redrawSeq, writer, readAge, tooClose>>
    PROVE  KickInv'
  <1>0. Cooldown \in Nat \ {0} /\ kicker \in [Senders -> KickStages] /\ redrawSeq <= written
    BY KickAssumption DEF KickInv, KickTypes, QueuedKick
  <1>1. /\ kicker'[k] = [pc |-> "send", key |-> TRUE, pos |-> 0]
        /\ \A j \in Senders \ {k} : kicker'[j] = kicker[j]
        /\ kicker' \in [Senders -> KickStages]
    BY <1>0 DEF KickStages
  <1>2. KickTypes'
    <2>1. excepted' \in BOOLEAN
      BY DEF KickInv, KickTypes
    <2> QED BY <1>0, <1>1, <2>1 DEF KickInv, KickTypes
  <1>3. Counted'
    <2>1. Adding' = Adding
      BY <1>0, <1>1 DEF Adding
    <2>2. Pushed' = Pushed /\ Held' = Held
      BY <2>1 DEF Adding, Pushed, Held
    <2> QED BY <2>1, <2>2 DEF KickInv, Counted
  <1>4. ASSUME ~excepted'
        PROVE  OneKey' /\ Tracked' /\ ClockBehind' /\ WindowPassed'
    <2>0. ~excepted /\ ~Unstamped
      BY <1>4
    <2>1. (\A j \in Senders : ~kicker[j].key) /\ NoneUnread /\ readAge = Cooldown
      BY <2>0, KeyAllowed
    <2>2. OneKey'
      BY <1>0, <1>1, <2>1 DEF OneKey
    <2>3. NoneUnread'
      BY <2>1 DEF NoneUnread
    <2>4. Tracked'
      BY <1>1, <2>1, <2>3 DEF Tracked
    <2>5. ClockBehind' /\ WindowPassed'
      BY <1>0, <2>1 DEF ClockBehind, WindowPassed
    <2> QED BY <2>2, <2>4, <2>5
  <1> QED BY <1>2, <1>3, <1>4 DEF KickInv, KeysSpaced

\* A redraw is asked for, now or by the timer.
LEMMA RedrawsKeep ==
    ASSUME KickInv, (\E k \in Kickers : SendRedrawKey(k)) \/ DeferredRedrawKey
    PROVE  KickInv'
  <1>0. Cooldown \in Nat \ {0} /\ age \in Nat
    BY KickAssumption DEF KickInv, KickTypes
  <1>1. ASSUME NEW k \in Kickers, SendRedrawKey(k)
        PROVE  KickInv'
    <2>1. CASE age >= Cooldown /\ ~QueuedKick
      <3>1. k \in Senders
        BY DEF Senders
      <3> QED BY <1>1, <2>1, <3>1, KeySent DEF SendRedrawKey
    <2>2. CASE ~(age >= Cooldown /\ ~QueuedKick)
      <3>1. Quiet
        BY <1>1, <2>2 DEF SendRedrawKey, Quiet
      <3> QED BY <3>1, QuietKeeps
    <2> QED BY <2>1, <2>2
  <1>2. CASE DeferredRedrawKey
    <2>1. CASE UNCHANGED <<age, kicker, excepted>>
      <3>1. Quiet
        BY <1>2, <2>1 DEF DeferredRedrawKey, Quiet
      <3> QED BY <3>1, QuietKeeps
    <2>2. CASE ~UNCHANGED <<age, kicker, excepted>>
      <3>1. /\ Timer \in Senders /\ kicker[Timer].pc = "idle" /\ ~QueuedKick /\ ~(Cooldown - age > 0)
            /\ age' = 0 /\ kicker' = [kicker EXCEPT ![Timer] = [pc |-> "send", key |-> TRUE, pos |-> 0]]
            /\ excepted' = (excepted \/ Unstamped)
            /\ UNCHANGED <<inputCh, enqueued, written, redrawSeq, writer, readAge, tooClose>>
        BY <1>2, <2>2 DEF DeferredRedrawKey, Senders
      <3>2. age >= Cooldown
        BY <1>0, <3>1
      <3> QED BY <3>1, <3>2, KeySent
    <2> QED BY <2>1, <2>2
  <1> QED BY <1>1, <1>2

\* Keystrokes of a client.
LEMMA TypingKeeps ==
    ASSUME KickInv, NEW k \in Senders, TypeInput(k)
    PROVE  KickInv'
  <1>0. /\ kicker \in [Senders -> KickStages] /\ kicker[k].pc = "idle" /\ ~kicker[k].key
        /\ kicker' = [kicker EXCEPT ![k] = [pc |-> "send", key |-> FALSE, pos |-> 0]]
        /\ UNCHANGED <<inputCh, enqueued, written, redrawSeq, age, writer, readAge, tooClose, excepted>>
    BY DEF KickInv, KickTypes, TypeInput
  <1>1. /\ kicker'[k] = [pc |-> "send", key |-> FALSE, pos |-> 0]
        /\ \A j \in Senders \ {k} : kicker'[j] = kicker[j]
        /\ kicker' \in [Senders -> KickStages]
    BY <1>0 DEF KickStages
  <1>2. KickTypes'
    BY <1>0, <1>1 DEF KickInv, KickTypes
  <1>3. Counted'
    <2>1. Adding' = Adding
      BY <1>0, <1>1 DEF Adding
    <2>2. Pushed' = Pushed /\ Held' = Held
      BY <1>0, <2>1 DEF Adding, Pushed, Held
    <2> QED BY <1>0, <2>1, <2>2 DEF KickInv, Counted
  <1>4. ASSUME ~excepted'
        PROVE  OneKey' /\ Tracked' /\ ClockBehind' /\ WindowPassed'
    <2>1. OneKey /\ Tracked /\ ClockBehind /\ WindowPassed
      BY <1>0, <1>4 DEF KickInv
    <2>2. OneKey'
      BY <1>0, <1>1, <2>1 DEF OneKey
    <2>3. NoneUnread' = NoneUnread /\ \A n : AtPos(n)' = AtPos(n)
      BY <1>0 DEF NoneUnread, AtPos
    <2>4. Tracked'
      <3>1. \A j \in Senders : kicker'[j].key => kicker[j].key /\ kicker'[j] = kicker[j]
        BY <1>0, <1>1
      <3>2. \A j \in Senders : kicker[j].key => kicker'[j].key
        BY <1>0, <1>1
      <3> QED BY <1>0, <2>1, <3>1, <3>2 DEF Tracked, NoneUnread, AtPos
    <2>5. ClockBehind' /\ WindowPassed'
      <3>1. \A j \in Senders : kicker'[j].key => kicker[j].key /\ kicker'[j] = kicker[j]
        BY <1>0, <1>1
      <3> QED BY <1>0, <2>1, <3>1 DEF ClockBehind, WindowPassed, NoneUnread
    <2> QED BY <2>2, <2>4, <2>5
  <1> QED BY <1>0, <1>2, <1>3, <1>4 DEF KickInv, KeysSpaced

\* An item is pushed, or refused by a full queue.
LEMMA PushKeeps ==
    ASSUME KickInv, NEW k \in Senders, Push(k)
    PROVE  KickInv'
  <1>0. /\ kicker \in [Senders -> KickStages] /\ kicker[k].pc = "send" /\ kicker[k].key \in BOOLEAN
        /\ UNCHANGED <<enqueued, written, redrawSeq, age, writer, readAge, tooClose, excepted>>
        /\ inputCh \in Seq(Items) /\ Len(inputCh) \in Nat /\ DOMAIN inputCh = 1 .. Len(inputCh)
        /\ IsFiniteSet(Adding) /\ Cardinality(Adding) \in Nat /\ Pushed = enqueued + Cardinality(Adding)
        /\ written + Held + Len(inputCh) = Pushed /\ Held \in {0, 1} /\ Pushed \in Nat
    <2>1. /\ kicker \in [Senders -> KickStages] /\ kicker[k].pc = "send" /\ kicker[k].key \in BOOLEAN
          /\ UNCHANGED <<enqueued, written, redrawSeq, age, writer, readAge, tooClose, excepted>>
          /\ inputCh \in Seq(Items)
      BY DEF KickInv, KickTypes, Push, KickStages
    <2>2. Len(inputCh) \in Nat /\ DOMAIN inputCh = 1 .. Len(inputCh)
      BY <2>1
    <2>3. IsFiniteSet(Adding) /\ Cardinality(Adding) \in Nat
      BY FS_CardinalityType DEF KickInv, Counted
    <2>4. Pushed = enqueued + Cardinality(Adding) /\ Held \in {0, 1} /\ written + Held + Len(inputCh) = Pushed
      BY DEF Pushed, Adding, Held, KickInv, Counted
    <2>5. enqueued \in Nat
      BY DEF KickInv, KickTypes
    <2> QED BY <2>1, <2>2, <2>3, <2>4, <2>5
  <1>1. CASE Len(inputCh) < QSize
    <2>1. PICK x, e : x = [kicker[k] EXCEPT !.pc = "add", !.pos = Pushed + 1] /\ e = [key |-> kicker[k].key, pos |-> Pushed + 1]
      OBVIOUS
    <2>2. /\ x \in KickStages /\ x.pc = "add" /\ x.key = kicker[k].key /\ x.pos = Pushed + 1 /\ e \in Items
          /\ e.key = kicker[k].key /\ e.pos = Pushed + 1
      <3>1. kicker[k] \in KickStages /\ Pushed + 1 \in Nat
        BY <1>0
      <3>2. x = [pc |-> "add", key |-> kicker[k].key, pos |-> Pushed + 1]
        BY <2>1, <3>1 DEF KickStages
      <3> QED BY <1>0, <2>1, <3>1, <3>2 DEF KickStages, Items
    <2>3. kicker' = [kicker EXCEPT ![k] = x] /\ inputCh' = Append(inputCh, e)
      <3>1. kicker' = [kicker EXCEPT ![k].pc = "add", ![k].pos = Pushed + 1] /\ inputCh' = Append(inputCh, e)
        BY <1>1, <2>1 DEF Push
      <3> QED BY <1>0, <2>1, <3>1
    <2>4. /\ kicker'[k] = x /\ (\A j \in Senders \ {k} : kicker'[j] = kicker[j]) /\ kicker' \in [Senders -> KickStages]
      BY <1>0, <2>2, <2>3
    <2>5. /\ inputCh' \in Seq(Items) /\ Len(inputCh') = Len(inputCh) + 1 /\ DOMAIN inputCh' = 1 .. (Len(inputCh) + 1)
          /\ \A i \in 1 .. Len(inputCh) : inputCh'[i] = inputCh[i]
          /\ inputCh'[Len(inputCh) + 1] = e
      BY <1>0, <2>2, <2>3, AppendProperties
    <2>6. KickTypes'
      BY <1>0, <2>2, <2>4, <2>5 DEF KickInv, KickTypes
    <2>7. Counted'
      <3>1. Adding' = Adding \cup {k} /\ k \notin Adding
        BY <1>0, <2>2, <2>4 DEF Adding
      <3>2. IsFiniteSet(Adding') /\ Cardinality(Adding') = Cardinality(Adding) + 1
        BY <1>0, <3>1, FS_AddElement
      <3>3. Pushed' = enqueued + Cardinality(Adding')
        BY <1>0 DEF Pushed, Adding
      <3>4. Held' = Held
        BY <1>0 DEF Held
      <3>5. written + Held' + Len(inputCh') = Pushed'
        <4>1. enqueued \in Nat /\ written \in Nat
          BY DEF KickInv, KickTypes
        <4>2. written + Held + (Len(inputCh) + 1) = enqueued + (Cardinality(Adding) + 1)
          BY <1>0, <4>1
        <4> QED BY <2>5, <3>2, <3>3, <3>4, <4>2
      <3>6. \A i \in DOMAIN inputCh' : inputCh'[i].pos = written + Held + i
        <4> TAKE i \in DOMAIN inputCh'
        <4>1. CASE i \in 1 .. Len(inputCh)
          BY <1>0, <2>5, <4>1 DEF KickInv, Counted
        <4>2. CASE i = Len(inputCh) + 1
          <5>1. inputCh'[i] = e
            BY <2>5, <4>2
          <5> QED BY <1>0, <2>2, <4>2, <5>1 DEF KickInv, KickTypes
        <4> QED BY <1>0, <2>5, <4>1, <4>2
      <3> QED BY <1>0, <3>2, <3>4, <3>5, <3>6 DEF KickInv, Counted
    <2>8. ASSUME ~excepted'
          PROVE  OneKey' /\ Tracked' /\ ClockBehind' /\ WindowPassed'
      <3>1. OneKey /\ Tracked /\ ClockBehind /\ WindowPassed
        BY <1>0, <2>8 DEF KickInv
      <3>2. \A j \in Senders : kicker'[j].key = kicker[j].key
        BY <2>2, <2>4
      <3>3. OneKey'
        BY <1>0, <3>1, <3>2 DEF OneKey
      <3>4. ClockBehind'
        BY <1>0, <3>1 DEF ClockBehind
      <3>5. CASE kicker[k].key
        <4>1. NoneUnread
          BY <1>0, <3>1, <3>5 DEF Tracked
        <4>2. AtPos(x.pos)'
          BY <1>0, <2>2, <2>5, <4>1 DEF NoneUnread, AtPos
        <4>3. Tracked'
          BY <2>2, <2>4, <3>1, <3>2, <3>5, <4>2 DEF Tracked, OneKey
        <4>4. readAge = Cooldown
          BY <1>0, <3>1, <3>5 DEF WindowPassed
        <4> QED BY <1>0, <3>3, <3>4, <4>3, <4>4 DEF WindowPassed
      <3>6. CASE ~kicker[k].key
        <4>1. NoneUnread' <=> NoneUnread
          BY <1>0, <2>2, <2>5, <3>6 DEF NoneUnread
        <4>2. \A n : AtPos(n) => AtPos(n)'
          BY <1>0, <2>2, <2>5, <3>6 DEF AtPos
        <4>3. \A j \in Senders : kicker[j].key => kicker'[j] = kicker[j]
          BY <2>4, <3>6
        <4>4. Tracked'
          BY <1>0, <3>1, <3>2, <4>1, <4>2, <4>3 DEF Tracked
        <4>5. WindowPassed'
          BY <1>0, <3>1, <3>2, <4>1, <4>3 DEF WindowPassed
        <4> QED BY <3>3, <3>4, <4>4, <4>5
      <3> QED BY <1>0, <3>5, <3>6
    <2> QED BY <1>0, <2>6, <2>7, <2>8 DEF KickInv, KeysSpaced
  <1>2. CASE ~(Len(inputCh) < QSize)
    <2>1. kicker' = [kicker EXCEPT ![k] = AtRest] /\ inputCh' = inputCh /\ AtRest \in KickStages
      BY <1>2 DEF Push, AtRest, KickStages
    <2>2. /\ kicker'[k] = AtRest /\ (\A j \in Senders \ {k} : kicker'[j] = kicker[j]) /\ kicker' \in [Senders -> KickStages]
          /\ ~AtRest.key /\ AtRest.pc = "idle"
      BY <1>0, <2>1 DEF AtRest
    <2>3. KickTypes'
      BY <1>0, <2>1, <2>2 DEF KickInv, KickTypes
    <2>4. Counted'
      <3>1. Adding' = Adding
        BY <1>0, <2>2 DEF Adding
      <3>2. Pushed' = Pushed /\ Held' = Held
        BY <1>0, <3>1 DEF Adding, Pushed, Held
      <3> QED BY <1>0, <2>1, <3>1, <3>2 DEF KickInv, Counted
    <2>5. ASSUME ~excepted'
          PROVE  OneKey' /\ Tracked' /\ ClockBehind' /\ WindowPassed'
      <3>1. OneKey /\ Tracked /\ ClockBehind /\ WindowPassed
        BY <1>0, <2>5 DEF KickInv
      <3>2. \A j \in Senders : kicker'[j].key => kicker[j].key /\ kicker'[j] = kicker[j]
        BY <2>2
      <3>3. OneKey'
        BY <1>0, <3>1, <3>2 DEF OneKey
      <3>4. ClockBehind'
        BY <1>0, <3>1 DEF ClockBehind
      <3>5. WindowPassed'
        BY <1>0, <2>1, <3>1, <3>2 DEF WindowPassed, NoneUnread
      <3>6. Tracked'
        <4>1. kicker[k].key => NoneUnread
          BY <1>0, <3>1 DEF Tracked
        <4>2. NoneUnread => AtPos(redrawSeq)
          BY DEF NoneUnread, AtPos
        <4>3. (\A j \in Senders : ~kicker'[j].key) => AtPos(redrawSeq)
          <5>1. CASE kicker[k].key
            BY <4>1, <4>2, <5>1
          <5>2. CASE ~kicker[k].key
            BY <2>2, <3>1, <5>2 DEF Tracked
          <5> QED BY <5>1, <5>2
        <4> QED BY <1>0, <2>1, <3>1, <3>2, <4>3 DEF Tracked, NoneUnread, AtPos
      <3> QED BY <3>3, <3>4, <3>5, <3>6
    <2> QED BY <1>0, <2>3, <2>4, <2>5 DEF KickInv, KeysSpaced
  <1> QED BY <1>1, <1>2

\* The counter is bumped: the position of a key is the one it was pushed at, or
\* two producers swapped.
LEMMA CountKeeps ==
    ASSUME KickInv, NEW k \in Senders, Count(k)
    PROVE  KickInv'
  <1>0. /\ kicker \in [Senders -> KickStages] /\ kicker[k].pc = "add" /\ kicker[k] \in KickStages /\ kicker[k].key \in BOOLEAN
        /\ UNCHANGED <<inputCh, written, redrawSeq, age, writer, readAge, tooClose>>
        /\ enqueued \in Nat /\ enqueued' = enqueued + 1
    BY DEF KickInv, KickTypes, Count, KickStages
  <1>x. excepted' = (excepted \/ (kicker[k].key /\ kicker[k].pos # enqueued + 1))
    BY DEF Count
  <1>1. PICK x : x = IF kicker[k].key THEN [kicker[k] EXCEPT !.pc = "seq", !.pos = enqueued + 1] ELSE AtRest
    OBVIOUS
  <1>2. /\ kicker' = [kicker EXCEPT ![k] = x] /\ x \in KickStages /\ x.key = kicker[k].key /\ x.pc \in {"seq", "idle"}
        /\ x.key => x.pc = "seq" /\ x.pos = enqueued + 1
        /\ ~x.key => x.pc = "idle"
    <2>1. CASE kicker[k].key
      <3>1. x = [kicker[k] EXCEPT !.pc = "seq", !.pos = enqueued + 1]
        BY <1>1, <2>1
      <3>2. kicker' = [kicker EXCEPT ![k] = [@ EXCEPT !.pc = "seq", !.pos = enqueued + 1]]
        BY <2>1 DEF Count
      <3>3. kicker' = [kicker EXCEPT ![k] = x]
        BY <1>0, <3>1, <3>2
      <3>4. x = [kicker[k] EXCEPT !.pc = "seq", !.pos = enqueued + 1]
        BY <1>1, <2>1
      <3>5. x = [pc |-> "seq", key |-> kicker[k].key, pos |-> enqueued + 1]
        BY <1>0, <3>4 DEF KickStages
      <3> QED BY <1>0, <2>1, <3>3, <3>5 DEF KickStages
    <2>2. CASE ~kicker[k].key
      <3>1. kicker' = [kicker EXCEPT ![k] = x]
        BY <1>1, <2>2 DEF Count
      <3> QED BY <1>0, <1>1, <2>2, <3>1 DEF KickStages, AtRest
    <2> QED BY <1>0, <2>1, <2>2
  <1>3. /\ kicker'[k] = x /\ (\A j \in Senders \ {k} : kicker'[j] = kicker[j]) /\ kicker' \in [Senders -> KickStages]
    BY <1>0, <1>2
  <1>4. KickTypes'
    <2>1. excepted' \in BOOLEAN
      BY <1>0, <1>x DEF KickInv, KickTypes
    <2>3. enqueued' \in Nat /\ inputCh' \in Seq(Items) /\ written' \in Nat /\ redrawSeq' \in Nat
      BY <1>0 DEF KickInv, KickTypes
    <2>4. age' \in 0 .. Cooldown /\ readAge' \in 0 .. Cooldown /\ writer' \in Writers /\ tooClose' \in BOOLEAN
      BY <1>0 DEF KickInv, KickTypes
    <2>2. \A j \in Senders : /\ kicker'[j].pc = "idle" => ~kicker'[j].key
                             /\ kicker'[j].pc = "seq" => kicker'[j].key
      BY <1>2, <1>3 DEF KickInv, KickTypes
    <2> QED BY <1>3, <2>1, <2>2, <2>3, <2>4, Zenon DEF KickTypes
  <1>5. Counted'
    <2>1. Adding' = Adding \ {k} /\ k \in Adding
      BY <1>0, <1>2, <1>3 DEF Adding
    <2>2. IsFiniteSet(Adding)
      BY DEF KickInv, Counted
    <2>3. IsFiniteSet(Adding') /\ Cardinality(Adding') = Cardinality(Adding) - 1 /\ Cardinality(Adding) \in Nat
      BY <2>1, <2>2, FS_RemoveElement, FS_CardinalityType
    <2>4. Pushed' = enqueued' + Cardinality(Adding') /\ Pushed = enqueued + Cardinality(Adding) /\ Held' = Held
      BY <1>0 DEF Pushed, Adding, Held
    <2>5. Pushed' = Pushed
      BY <1>0, <2>3, <2>4
    <2> QED BY <1>0, <2>3, <2>4, <2>5 DEF KickInv, Counted
  <1>6. ASSUME ~excepted'
        PROVE  OneKey' /\ Tracked' /\ ClockBehind' /\ WindowPassed'
    <2>1. OneKey /\ Tracked /\ ClockBehind /\ WindowPassed /\ ~excepted /\ (kicker[k].key => kicker[k].pos = enqueued + 1)
      BY <1>x, <1>6 DEF KickInv
    <2>2. \A j \in Senders : kicker'[j].key => kicker[j].key
      BY <1>2, <1>3
    <2>3. \A j \in Senders : kicker[j].key =>
             /\ kicker'[j].key /\ kicker'[j].pos = kicker[j].pos
             /\ kicker'[j].pc = "send" => kicker[j].pc = "send"
             /\ kicker[j].pc = "send" => kicker'[j].pc = "send"
      <3> TAKE j \in Senders
      <3>1. CASE j = k
        BY <1>0, <1>2, <1>3, <2>1, <3>1
      <3>2. CASE j # k
        BY <1>3, <3>2
      <3> QED BY <3>1, <3>2
    <2>4. OneKey'
      BY <1>0, <2>1, <2>2 DEF OneKey
    <2>5. ClockBehind'
      BY <1>0, <2>1 DEF ClockBehind
    <2>6. NoneUnread' <=> NoneUnread
      BY <1>0 DEF NoneUnread
    <2>7. WindowPassed'
      BY <1>0, <2>1, <2>2, <2>3, <2>6 DEF WindowPassed
    <2>8. \A n : AtPos(n) => AtPos(n)'
      BY <1>0 DEF AtPos
    <2>9. Tracked'
      BY <1>0, <2>1, <2>2, <2>3, <2>6, <2>8 DEF Tracked
    <2> QED BY <2>4, <2>5, <2>7, <2>9
  <1>7. KeysSpaced'
    BY <1>0, <1>x DEF KickInv, KeysSpaced
  <1> QED BY <1>4, <1>5, <1>6, <1>7 DEF KickInv

\* The key's position is recorded.
LEMMA RecordKeeps ==
    ASSUME KickInv, NEW k \in Senders, RecordSeq(k)
    PROVE  KickInv'
  <1>0. /\ kicker \in [Senders -> KickStages] /\ kicker[k].pc = "seq" /\ kicker[k].key /\ kicker[k].pos \in Nat
        /\ redrawSeq' = kicker[k].pos /\ kicker' = [kicker EXCEPT ![k] = AtRest]
        /\ UNCHANGED <<inputCh, enqueued, written, age, writer, readAge, tooClose, excepted>>
    BY DEF KickInv, KickTypes, RecordSeq, KickStages
  <1>1. /\ kicker'[k] = AtRest /\ (\A j \in Senders \ {k} : kicker'[j] = kicker[j]) /\ kicker' \in [Senders -> KickStages]
        /\ ~AtRest.key /\ AtRest.pc = "idle"
    BY <1>0 DEF AtRest, KickStages
  <1>2. KickTypes'
    BY <1>0, <1>1 DEF KickInv, KickTypes
  <1>3. Counted'
    <2>1. Adding' = Adding
      BY <1>0, <1>1 DEF Adding
    <2>2. Pushed' = Pushed /\ Held' = Held
      BY <1>0, <2>1 DEF Adding, Pushed, Held
    <2> QED BY <1>0, <2>1, <2>2 DEF KickInv, Counted
  <1>4. ASSUME ~excepted'
        PROVE  OneKey' /\ Tracked' /\ ClockBehind' /\ WindowPassed'
    <2>1. OneKey /\ Tracked /\ ClockBehind /\ WindowPassed
      BY <1>0, <1>4 DEF KickInv
    <2>2. \A j \in Senders : ~kicker'[j].key
      BY <1>0, <1>1, <2>1 DEF OneKey
    <2>3. AtPos(kicker[k].pos)
      BY <1>0, <2>1 DEF Tracked
    <2>4. AtPos(redrawSeq)'
      BY <1>0, <2>3 DEF AtPos
    <2>5. OneKey' /\ Tracked'
      BY <2>2, <2>4 DEF OneKey, Tracked
    <2>6. WindowPassed'
      BY <1>0, <2>1, <2>2 DEF WindowPassed, NoneUnread
    <2>7. age <= readAge
      <3>1. redrawSeq <= written /\ age = 0
        BY <1>0, <2>1 DEF OneKey
      <3> QED BY <3>1 DEF KickInv, KickTypes
    <2> QED BY <1>0, <2>5, <2>6, <2>7 DEF ClockBehind
  <1> QED BY <1>0, <1>2, <1>3, <1>4 DEF KickInv, KeysSpaced

\* The writer takes the next item.
LEMMA TakeKeeps ==
    ASSUME KickInv, Take
    PROVE  KickInv'
  <1>0. /\ inputCh \in Seq(Items) /\ inputCh # <<>> /\ writer.pc = "idle" /\ written \in Nat
        /\ writer' = [pc |-> "hold", key |-> Head(inputCh).key, pos |-> Head(inputCh).pos]
        /\ inputCh' = Tail(inputCh)
        /\ UNCHANGED <<enqueued, written, redrawSeq, age, kicker, readAge, tooClose, excepted>>
    BY DEF KickInv, KickTypes, Take
  <1>1. /\ Len(inputCh) \in Nat \ {0} /\ DOMAIN inputCh = 1 .. Len(inputCh) /\ Head(inputCh) = inputCh[1]
        /\ inputCh[1] \in Items
        /\ inputCh' \in Seq(Items) /\ Len(inputCh') = Len(inputCh) - 1 /\ DOMAIN inputCh' = 1 .. (Len(inputCh) - 1)
        /\ \A i \in 1 .. (Len(inputCh) - 1) : inputCh'[i] = inputCh[i + 1]
    BY <1>0, HeadTailProperties, EmptySeq
  <1>2. /\ writer'.pc = "hold" /\ writer'.key = inputCh[1].key /\ writer'.pos = inputCh[1].pos /\ writer' \in Writers
        /\ inputCh[1].pos = written + 1
    <2>1. inputCh[1].pos = written + Held + 1 /\ Held = 0
      BY <1>0, <1>1 DEF KickInv, Counted, Held
    <2> QED BY <1>0, <1>1, <2>1 DEF Items, Writers
  <1>3. KickTypes'
    BY <1>0, <1>1, <1>2 DEF KickInv, KickTypes
  <1>4. Counted'
    <2>1. Adding' = Adding /\ Pushed' = Pushed /\ Held' = 1 /\ Held = 0
      BY <1>0, <1>2 DEF Adding, Pushed, Held
    <2>2. written + Held' + Len(inputCh') = Pushed'
      BY <1>0, <1>1, <2>1 DEF KickInv, Counted
    <2>3. \A i \in DOMAIN inputCh' : inputCh'[i].pos = written + Held' + i
      <3> TAKE i \in DOMAIN inputCh'
      <3>1. inputCh'[i] = inputCh[i + 1] /\ i + 1 \in DOMAIN inputCh /\ i \in Nat
        BY <1>1
      <3>2. inputCh[i + 1].pos = written + Held + (i + 1)
        BY <3>1 DEF KickInv, Counted
      <3> QED BY <1>0, <2>1, <3>1, <3>2
    <2> QED BY <1>0, <1>2, <2>1, <2>2, <2>3 DEF KickInv, Counted
  <1>5. ASSUME ~excepted'
        PROVE  OneKey' /\ Tracked' /\ ClockBehind' /\ WindowPassed'
    <2>1. OneKey /\ Tracked /\ ClockBehind /\ WindowPassed
      BY <1>0, <1>5 DEF KickInv
    <2>2. 1 \in DOMAIN inputCh /\ \A i \in DOMAIN inputCh' : i + 1 \in DOMAIN inputCh /\ inputCh'[i] = inputCh[i + 1]
      BY <1>1
    <2>3. NoneUnread => NoneUnread'
      BY <1>2, <2>2 DEF NoneUnread
    <2>4. NoneUnread' => NoneUnread
      <3>1. \A i \in DOMAIN inputCh : i # 1 => i - 1 \in DOMAIN inputCh' /\ inputCh'[i - 1] = inputCh[i]
        BY <1>1
      <3> QED BY <1>0, <1>2, <3>1 DEF NoneUnread
    <2>5. \A n : AtPos(n) => AtPos(n)'
      BY <1>2, <2>2 DEF AtPos
    <2>6. OneKey'
      BY <1>0, <2>1 DEF OneKey
    <2>7. Tracked'
      BY <1>0, <2>1, <2>3, <2>5 DEF Tracked
    <2>8. WindowPassed'
      BY <1>0, <2>1, <2>3, <2>4 DEF WindowPassed
    <2>9. ClockBehind'
      BY <1>0, <2>1 DEF ClockBehind
    <2> QED BY <2>6, <2>7, <2>8, <2>9
  <1> QED BY <1>0, <1>3, <1>4, <1>5 DEF KickInv, KeysSpaced

\* The child reads the item.
LEMMA ReadKeeps ==
    ASSUME KickInv, WriteInput
    PROVE  KickInv'
  <1>0. /\ writer \in Writers /\ writer.pc = "hold" /\ writer.key \in BOOLEAN /\ writer' = [writer EXCEPT !.pc = "mark"]
        /\ UNCHANGED <<inputCh, enqueued, written, redrawSeq, age, kicker, excepted>>
        /\ Cooldown \in Nat \ {0} /\ written \in Nat /\ DOMAIN inputCh = 1 .. Len(inputCh)
    BY KickAssumption DEF KickInv, KickTypes, WriteInput, Writers
  <1>1. writer' \in Writers /\ writer'.pc = "mark" /\ writer'.key = writer.key /\ writer'.pos = writer.pos
    BY <1>0 DEF Writers
  <1>2. Counted'
    <2>1. Adding' = Adding /\ Pushed' = Pushed /\ Held' = Held
      BY <1>0, <1>1 DEF Adding, Pushed, Held
    <2> QED BY <1>0, <1>1, <2>1 DEF KickInv, Counted
  <1>3. CASE ~writer.key
    <2>0. tooClose' = tooClose /\ readAge' = readAge
      BY <1>3 DEF WriteInput
    <2>1. KickTypes'
      BY <1>0, <1>1, <2>0 DEF KickInv, KickTypes
    <2>2. ASSUME ~excepted'
          PROVE  OneKey' /\ Tracked' /\ ClockBehind' /\ WindowPassed'
      <3>1. OneKey /\ Tracked /\ ClockBehind /\ WindowPassed
        BY <1>0, <2>2 DEF KickInv
      <3>2. OneKey'
        BY <1>0, <3>1 DEF OneKey
      <3>3. Tracked'
        BY <1>0, <1>1, <1>3, <3>1 DEF Tracked, NoneUnread, AtPos
      <3>4. ClockBehind' /\ WindowPassed'
        BY <1>0, <1>1, <1>3, <2>0, <3>1 DEF ClockBehind, WindowPassed, NoneUnread
      <3> QED BY <3>2, <3>3, <3>4
    <2> QED BY <1>0, <1>2, <2>0, <2>1, <2>2 DEF KickInv, KeysSpaced
  <1>4. CASE writer.key
    <2>0. tooClose' = (tooClose \/ (readAge < Cooldown)) /\ readAge' = 0
      BY <1>4 DEF WriteInput
    <2>1. KickTypes'
      BY <1>0, <1>1, <2>0 DEF KickInv, KickTypes
    <2>2. ASSUME ~excepted'
          PROVE  OneKey' /\ Tracked' /\ ClockBehind' /\ WindowPassed' /\ ~tooClose'
      <3>1. OneKey /\ Tracked /\ ClockBehind /\ WindowPassed /\ ~tooClose
        BY <1>0, <2>2 DEF KickInv, KeysSpaced
      <3>2. OneKey'
        BY <1>0, <3>1 DEF OneKey
      <3>3. ~NoneUnread
        BY <1>0, <1>4 DEF NoneUnread
      <3>4. ~tooClose'
        <4>1. readAge = Cooldown
          BY <3>1, <3>3 DEF WindowPassed
        <4>2. ~(readAge < Cooldown)
          BY <1>0, <4>1
        <4> QED BY <2>0, <3>1, <4>2
      <3>5. \A i \in DOMAIN inputCh : i \in Nat \ {0} /\ inputCh[i].pos = writer.pos + i /\ writer.pos \in Nat
        BY <1>0 DEF KickInv, Counted, Held
      <3>6. \A n : AtPos(n) => \A i \in DOMAIN inputCh : ~inputCh[i].key
        BY <1>0, <1>4, <3>5 DEF AtPos
      <3>7. \A i \in DOMAIN inputCh : ~inputCh[i].key
        BY <3>1, <3>3, <3>6 DEF Tracked
      <3>8. NoneUnread' /\ \A n : AtPos(n)'
        BY <1>0, <1>1, <3>7 DEF NoneUnread, AtPos
      <3>9. Tracked'
        BY <3>8 DEF Tracked
      <3>10. WindowPassed'
        BY <1>0, <3>1, <3>3, <3>8 DEF WindowPassed, Tracked
      <3>11. ClockBehind'
        <4>1. CASE \E k \in Senders : kicker[k].key
          BY <1>0, <2>0, <3>1, <4>1 DEF OneKey, ClockBehind
        <4>2. CASE \A k \in Senders : ~kicker[k].key
          <5>1. AtPos(redrawSeq)
            BY <3>1, <4>2 DEF Tracked
          <5> QED BY <1>0, <1>1, <1>4, <5>1 DEF AtPos, ClockBehind
        <4> QED BY <4>1, <4>2
      <3> QED BY <3>2, <3>4, <3>9, <3>10, <3>11
    <2> QED BY <1>0, <1>2, <2>0, <2>1, <2>2 DEF KickInv, KeysSpaced
  <1> QED BY <1>0, <1>3, <1>4

\* The item is counted.
LEMMA MarkKeeps ==
    ASSUME KickInv, MarkInputWritten
    PROVE  KickInv'
  <1>0. /\ writer \in Writers /\ writer.pc = "mark" /\ writer' = [writer EXCEPT !.pc = "stamp"]
        /\ written \in Nat /\ written' = written + 1 /\ redrawSeq \in Nat
        /\ UNCHANGED <<inputCh, enqueued, redrawSeq, age, kicker, readAge, tooClose, excepted>>
    BY DEF KickInv, KickTypes, MarkInputWritten
  <1>1. writer' \in Writers /\ writer'.pc = "stamp" /\ writer'.key = writer.key /\ writer'.pos = writer.pos
    BY <1>0 DEF Writers
  <1>2. writer.pos = written + 1
    BY <1>0 DEF KickInv, Counted
  <1>3. KickTypes'
    BY <1>0, <1>1 DEF KickInv, KickTypes
  <1>4. Counted'
    <2>1. Adding' = Adding /\ Pushed' = Pushed /\ Held' = 0 /\ Held = 1
      BY <1>0, <1>1 DEF Adding, Pushed, Held
    <2>2. Len(inputCh) \in Nat /\ DOMAIN inputCh = 1 .. Len(inputCh)
      BY DEF KickInv, KickTypes
    <2> QED BY <1>0, <1>1, <1>2, <2>1, <2>2 DEF KickInv, Counted
  <1>5. ASSUME ~excepted'
        PROVE  OneKey' /\ Tracked' /\ ClockBehind' /\ WindowPassed'
    <2>1. OneKey /\ Tracked /\ ClockBehind /\ WindowPassed
      BY <1>0, <1>5 DEF KickInv
    <2>2. OneKey'
      BY <1>0, <2>1 DEF OneKey
    <2>3. Tracked'
      BY <1>0, <1>1, <2>1 DEF Tracked, NoneUnread, AtPos
    <2>4. WindowPassed'
      BY <1>0, <1>1, <2>1 DEF WindowPassed, NoneUnread
    <2>5. ClockBehind'
      BY <1>0, <1>1, <2>1 DEF ClockBehind
    <2> QED BY <2>2, <2>3, <2>4, <2>5
  <1> QED BY <1>0, <1>3, <1>4, <1>5 DEF KickInv, KeysSpaced

\* The cooldown restarts when the item was the key.
LEMMA StampKeeps ==
    ASSUME KickInv, StampWritten
    PROVE  KickInv'
  <1>0. /\ writer.pc = "stamp" /\ writer' = AtRest /\ written \in Nat /\ redrawSeq \in Nat
        /\ age' = IF redrawSeq # 0 /\ written = redrawSeq THEN 0 ELSE age
        /\ UNCHANGED <<inputCh, enqueued, written, redrawSeq, kicker, readAge, tooClose, excepted>>
        /\ Cooldown \in Nat \ {0} /\ age \in 0 .. Cooldown /\ readAge \in 0 .. Cooldown
    BY KickAssumption DEF KickInv, KickTypes, StampWritten
  <1>1. writer' \in Writers /\ writer'.pc = "idle" /\ ~writer'.key
    BY <1>0 DEF AtRest, Writers
  <1>2. age' \in 0 .. Cooldown /\ (age' = 0 \/ age' = age) /\ writer.pos = written
    BY <1>0 DEF KickInv, Counted
  <1>3. KickTypes'
    BY <1>0, <1>1, <1>2 DEF KickInv, KickTypes
  <1>4. Counted'
    <2>1. Adding' = Adding /\ Pushed' = Pushed /\ Held' = 0 /\ Held = 0
      BY <1>0, <1>1 DEF Adding, Pushed, Held
    <2> QED BY <1>0, <1>1, <2>1 DEF KickInv, Counted
  <1>5. ASSUME ~excepted'
        PROVE  OneKey' /\ Tracked' /\ ClockBehind' /\ WindowPassed'
    <2>1. OneKey /\ Tracked /\ ClockBehind /\ WindowPassed
      BY <1>0, <1>5 DEF KickInv
    <2>2. OneKey'
      BY <1>0, <1>2, <2>1 DEF OneKey
    <2>3. Tracked'
      BY <1>0, <1>1, <2>1 DEF Tracked, NoneUnread, AtPos
    <2>4. WindowPassed'
      BY <1>0, <1>1, <2>1 DEF WindowPassed, NoneUnread
    <2>5. age' <= readAge
      <3>1. CASE age <= readAge
        BY <1>0, <1>2, <3>1
      <3>2. CASE redrawSeq = writer.pos
        <4>1. written # 0
          BY <1>0 DEF KickInv, Counted
        <4> QED BY <1>0, <1>2, <3>2, <4>1
      <3> QED BY <2>1, <3>1, <3>2 DEF ClockBehind
    <2> QED BY <1>0, <2>2, <2>3, <2>4, <2>5 DEF ClockBehind
  <1> QED BY <1>0, <1>3, <1>4, <1>5 DEF KickInv, KeysSpaced

\* A restart: the throttle is reset, and the new child has read nothing.
LEMMA RestartKeeps ==
    ASSUME KickInv, NewGeneration
    PROVE  KickInv'
  <1>0. /\ redrawSeq' = 0 /\ age' = Cooldown /\ readAge' = Cooldown /\ Cooldown \in Nat \ {0} /\ written \in Nat
        /\ writer \in Writers /\ writer' \in {writer, IF writer.pc = "hold" THEN [writer EXCEPT !.pc = "mark"] ELSE writer}
        /\ excepted' = (excepted \/ (\E i \in DOMAIN inputCh : inputCh[i].key)
                                 \/ (writer'.pc = "hold" /\ writer'.key) \/ (\E k \in Senders : kicker[k].key))
        /\ UNCHANGED <<inputCh, enqueued, written, kicker, tooClose>>
    BY KickAssumption DEF KickInv, KickTypes, NewGeneration
  <1>1. /\ writer' \in Writers
        /\ writer'.pc = writer.pc \/ (writer.pc = "hold" /\ writer'.pc = "mark")
        /\ writer'.pos = writer.pos /\ excepted' \in BOOLEAN
    <2>1. CASE writer.pc = "hold"
      BY <1>0, <2>1 DEF Writers
    <2>2. CASE writer.pc # "hold"
      BY <1>0, <2>2 DEF Writers
    <2>3. excepted' \in BOOLEAN
      BY <1>0 DEF KickInv, KickTypes
    <2> QED BY <2>1, <2>2, <2>3
  <1>2. KickTypes'
    BY <1>0, <1>1 DEF KickInv, KickTypes
  <1>3. Counted'
    <2>1. Adding' = Adding /\ Pushed' = Pushed /\ Held' = Held
      BY <1>0, <1>1 DEF Adding, Pushed, Held
    <2> QED BY <1>0, <1>1, <2>1 DEF KickInv, Counted
  <1>4. ASSUME ~excepted'
        PROVE  OneKey' /\ Tracked' /\ ClockBehind' /\ WindowPassed'
    <2>1. /\ \A i \in DOMAIN inputCh : ~inputCh[i].key
          /\ \A k \in Senders : ~kicker[k].key
          /\ ~(writer'.pc = "hold" /\ writer'.key)
      BY <1>0, <1>4
    <2>2. OneKey' /\ Tracked'
      BY <1>0, <1>1, <2>1 DEF OneKey, Tracked, AtPos
    <2>3. ClockBehind' /\ WindowPassed'
      BY <1>0 DEF ClockBehind, WindowPassed
    <2> QED BY <2>2, <2>3
  <1> QED BY <1>0, <1>2, <1>3, <1>4 DEF KickInv, KeysSpaced

\* Time passes, while no goroutine has a key.
LEMMA TicksKeep ==
    ASSUME KickInv, ClockTick
    PROVE  KickInv'
  <1>0. /\ \A k \in Senders : ~kicker[k].key
        /\ writer.pc \notin {"mark", "stamp"} /\ Cooldown \in Nat \ {0} /\ age \in 0 .. Cooldown /\ readAge \in 0 .. Cooldown
        /\ age' = IF age < Cooldown THEN age + 1 ELSE age
        /\ readAge' = IF readAge < Cooldown THEN readAge + 1 ELSE readAge
        /\ UNCHANGED <<inputCh, enqueued, written, redrawSeq, kicker, writer, tooClose, excepted>>
    BY KickAssumption DEF KickInv, KickTypes, ClockTick
  <1>1. /\ age' \in 0 .. Cooldown /\ readAge' \in 0 .. Cooldown
        /\ age <= readAge => age' <= readAge'
        /\ readAge = Cooldown => readAge' = Cooldown
    BY <1>0
  <1>2. KickTypes'
    BY <1>0, <1>1 DEF KickInv, KickTypes
  <1>3. Counted'
    <2>1. Adding' = Adding /\ Pushed' = Pushed /\ Held' = Held
      BY <1>0 DEF Adding, Pushed, Held
    <2> QED BY <1>0, <2>1 DEF KickInv, Counted
  <1>4. ASSUME ~excepted'
        PROVE  OneKey' /\ Tracked' /\ ClockBehind' /\ WindowPassed'
    <2>1. OneKey /\ Tracked /\ ClockBehind /\ WindowPassed
      BY <1>0, <1>4 DEF KickInv
    <2>2. OneKey'
      BY <1>0 DEF OneKey
    <2>3. Tracked'
      BY <1>0, <2>1 DEF Tracked, AtPos
    <2>4. ClockBehind' /\ WindowPassed'
      BY <1>0, <1>1, <2>1 DEF ClockBehind, WindowPassed, NoneUnread
    <2> QED BY <2>2, <2>3, <2>4
  <1> QED BY <1>0, <1>2, <1>3, <1>4 DEF KickInv, KeysSpaced

\* Every step.
LEMMA KickKept ==
    ASSUME KickInv, [KickNext]_kickVars
    PROVE  KickInv'
  <1>1. CASE UNCHANGED kickVars
    BY <1>1, QuietKeeps DEF kickVars, Quiet
  <1>2. CASE StopInput
    BY <1>2, QuietKeeps DEF StopInput, Quiet
  <1>3. CASE \E k \in Kickers : TypeInput(k)
    BY <1>3, TypingKeeps DEF Senders
  <1>4. CASE \E k \in Senders : SenderStep(k)
    BY <1>4, PushKeeps, CountKeeps, RecordKeeps DEF SenderStep
  <1>5. CASE WriterStep
    BY <1>5, TakeKeeps, ReadKeeps, MarkKeeps, StampKeeps DEF WriterStep
  <1> QED BY <1>1, <1>2, <1>3, <1>4, <1>5, RedrawsKeep, RestartKeeps, TicksKeep DEF KickNext

\* Redraw keys (redraw.go sendRedrawKey, deferredRedrawKey, session.go inputWriter): for any number of
\* goroutines that ask for redraws and type, any queue and any child that reads late, the child never reads
\* two redraw keys within the cooldown, but for the three races the model names.
THEOREM KeysAreSpaced == KickSpec => []KeysSpaced
  <1>1. KickInit => KickInv
    BY KickStarts
  <1>2. KickInv /\ [KickNext]_kickVars => KickInv'
    BY KickKept
  <1>3. KickInv => KeysSpaced
    BY DEF KickInv
  <1> QED BY <1>1, <1>2, <1>3, PTL DEF KickSpec

-----------------------------------------------------------------------------
(* The path of a hook's line                                                 *)

\* A pane's lines still to be submitted.
Coming(p) == Unread(p) \cup {inbox[i].line : i \in {j \in DOMAIN inbox : inbox[j].pane = p}}

SpoolLine == [line : Nat, hook : HookNames]
\* A file's lines are in the order they were written, and those before its
\* offset were read.
FilesOK ==
    /\ lines \in Nat
    /\ file \in [SpoolPanes -> [whole : Seq(SpoolLine), torn : BOOLEAN]]
    /\ offset \in [SpoolPanes -> Nat]
    /\ \A p \in SpoolPanes :
         /\ offset[p] <= Len(file[p].whole)
         /\ \A i \in 1 .. Len(file[p].whole) :
              /\ file[p].whole[i].line \in 1 .. lines
              /\ \A j \in 1 .. Len(file[p].whole) : i < j => file[p].whole[i].line < file[p].whole[j].line

\* What a tick read comes before what is still in the file.
InboxOK ==
    /\ inbox \in Seq([line : Nat, hook : HookNames, pane : SpoolPanes])
    /\ \A i \in 1 .. Len(inbox) :
         /\ inbox[i].line \in 1 .. lines
         /\ \A j \in 1 .. Len(inbox) : i < j => inbox[i].line < inbox[j].line
         /\ \A x \in Unread(inbox[i].pane) : inbox[i].line < x

\* Bursts hold lines that were written.
BurstsOK ==
    /\ pending \in [SpoolKeys -> [of : SUBSET Nat, first : Nat, due : BOOLEAN]]
    /\ \A k \in SpoolKeys : pending[k].of \subseteq 1 .. lines /\ pending[k].first <= lines

\* The queue holds each key with an open burst once, a pane's in the order
\* their first lines were written.
OrderOK ==
    /\ order \in Seq(SpoolKeys)
    /\ \A i \in 1 .. Len(order) : IsPending(order[i])
    /\ \A k \in SpoolKeys : IsPending(k) => \E i \in 1 .. Len(order) : order[i] = k
    /\ \A i, j \in 1 .. Len(order) :
         i < j => /\ order[i] # order[j]
                  /\ order[i][1] = order[j][1] => pending[order[i]].first < pending[order[j]].first

\* So does what is held to be emitted.
BatchOK ==
    /\ batch \in Seq([key : SpoolKeys, of : SUBSET Nat, first : Nat])
    /\ \A i \in 1 .. Len(batch) : batch[i].of \subseteq 1 .. lines /\ batch[i].first <= lines
    /\ \A i, j \in 1 .. Len(batch) :
         i < j /\ batch[i].key[1] = batch[j].key[1] => batch[i].first < batch[j].first

\* What left was written.
GoneOK ==
    /\ emitted \in [of : SUBSET Nat, last : [SpoolPanes -> Nat]]
    /\ emitted.of \subseteq 1 .. lines
    /\ \A p \in SpoolPanes : emitted.last[p] <= lines
    /\ gone \subseteq 1 .. lines

\* Line x comes after all that pane p had emitted or held to be emitted.
BehindBatch(p, x) ==
    /\ emitted.last[p] < x
    /\ \A i \in 1 .. Len(batch) : batch[i].key[1] = p => batch[i].first < x

\* A pane's last emitted burst comes before those held to be emitted, these
\* before those coalescing, and all of them before the lines still to come.
InTurn ==
    /\ \A i \in 1 .. Len(batch) : emitted.last[batch[i].key[1]] < batch[i].first
    /\ \A k \in SpoolKeys : IsPending(k) => BehindBatch(k[1], pending[k].first)
    /\ \A p \in SpoolPanes : \A x \in Coming(p) :
         /\ BehindBatch(p, x)
         /\ \A k \in SpoolKeys : IsPending(k) /\ k[1] = p => pending[k].first < x

\* One place is taken once and the others are empty.
Single(S) == \E t : S = {t}
Lone(U, I, K, B, E, G) ==
    \/ Single(U) /\ I = {} /\ K = {} /\ B = {} /\ E = {} /\ G = {}
    \/ U = {} /\ Single(I) /\ K = {} /\ B = {} /\ E = {} /\ G = {}
    \/ U = {} /\ I = {} /\ Single(K) /\ B = {} /\ E = {} /\ G = {}
    \/ U = {} /\ I = {} /\ K = {} /\ Single(B) /\ E = {} /\ G = {}
    \/ U = {} /\ I = {} /\ K = {} /\ B = {} /\ Single(E) /\ G = {}
    \/ U = {} /\ I = {} /\ K = {} /\ B = {} /\ E = {} /\ Single(G)
Alone(n) == Lone(InFile(n), InInbox(n), InBurst(n), InBatch(n), {n} \cap emitted.of, {n} \cap gone)
\* Every line written is in exactly one place.
Once == \A n \in 1 .. lines : Alone(n)

\* The inductive invariant.
HookInv == FilesOK /\ InboxOK /\ BurstsOK /\ OrderOK /\ BatchOK /\ GoneOK /\ InTurn /\ Once
-----------------------------------------------------------------------------
\* A set of numbers has a least one.
LEMMA Least ==
  ASSUME NEW T, T \subseteq Nat, T # {}
  PROVE  \E m \in T : \A k \in T : m <= k
  <1>1. PICK m \in T : \A k \in T : <<k, m>> \notin OpToRel(<, Nat)
    BY NatLessThanWellFounded, WFMin
  <1>2. \A k \in T : ~(k < m)
    BY <1>1 DEF OpToRel
  <1> QED BY <1>2

\* Of tagged places that leaves exactly one.
LEMMA OneLone ==
  ASSUME NEW U, NEW I, NEW K, NEW B, NEW E, NEW G, Lone(U, I, K, B, E, G)
  PROVE  Cardinality(({"unread"} \X U) \cup ({"inbox"} \X I) \cup ({"burst"} \X K)
                       \cup ({"batch"} \X B) \cup ({"emitted"} \X E) \cup ({"gone"} \X G)) = 1
  <1>1. PICK S : S = ({"unread"} \X U) \cup ({"inbox"} \X I) \cup ({"burst"} \X K)
                       \cup ({"batch"} \X B) \cup ({"emitted"} \X E) \cup ({"gone"} \X G)
    OBVIOUS
  <1>2. \E t : S = {t}
    <2>1. CASE Single(U) /\ I = {} /\ K = {} /\ B = {} /\ E = {} /\ G = {}
      <3>1. PICK x : U = {x}
        BY <2>1 DEF Single
      <3>2. S = {<<"unread", x>>}
        BY <1>1, <2>1, <3>1
      <3> QED BY <3>2
    <2>2. CASE U = {} /\ Single(I) /\ K = {} /\ B = {} /\ E = {} /\ G = {}
      <3>1. PICK x : I = {x}
        BY <2>2 DEF Single
      <3>2. S = {<<"inbox", x>>}
        BY <1>1, <2>2, <3>1
      <3> QED BY <3>2
    <2>3. CASE U = {} /\ I = {} /\ Single(K) /\ B = {} /\ E = {} /\ G = {}
      <3>1. PICK x : K = {x}
        BY <2>3 DEF Single
      <3>2. S = {<<"burst", x>>}
        BY <1>1, <2>3, <3>1
      <3> QED BY <3>2
    <2>4. CASE U = {} /\ I = {} /\ K = {} /\ Single(B) /\ E = {} /\ G = {}
      <3>1. PICK x : B = {x}
        BY <2>4 DEF Single
      <3>2. S = {<<"batch", x>>}
        BY <1>1, <2>4, <3>1
      <3> QED BY <3>2
    <2>5. CASE U = {} /\ I = {} /\ K = {} /\ B = {} /\ Single(E) /\ G = {}
      <3>1. PICK x : E = {x}
        BY <2>5 DEF Single
      <3>2. S = {<<"emitted", x>>}
        BY <1>1, <2>5, <3>1
      <3> QED BY <3>2
    <2>6. CASE U = {} /\ I = {} /\ K = {} /\ B = {} /\ E = {} /\ Single(G)
      <3>1. PICK x : G = {x}
        BY <2>6 DEF Single
      <3>2. S = {<<"gone", x>>}
        BY <1>1, <2>6, <3>1
      <3> QED BY <3>2
    <2> QED BY <2>1, <2>2, <2>3, <2>4, <2>5, <2>6 DEF Lone
  <1>3. Cardinality(S) = 1
    BY <1>2, FS_Singleton
  <1> QED BY <1>1, <1>3

\* A sequence that loses its head keeps its other places, one lower.
LEMMA Shifted ==
  ASSUME NEW I, NEW J, I \subseteq Nat \ {0}, J \subseteq Nat \ {0},
         \A i \in Nat \ {0} : i \in J <=> i + 1 \in I
  PROVE  /\ 1 \notin I => (I = {} => J = {}) /\ (Single(I) => Single(J))
         /\ I = {1} => J = {}
  <1>1. ASSUME NEW x, I = {x}, 1 \notin I PROVE Single(J)
    <2>1. x \in Nat \ {0} /\ x # 1
      BY <1>1
    <2>2. x - 1 \in Nat \ {0} /\ (x - 1) + 1 = x
      BY <2>1
    <2>3. x - 1 \in J
      BY <1>1, <2>2
    <2>4. \A j \in J : j \in Nat \ {0} /\ j + 1 = x
      BY <1>1
    <2>5. \A j \in J : j = x - 1
      BY <2>1, <2>4
    <2>6. J = {x - 1}
      BY <2>3, <2>5
    <2> QED BY <2>6 DEF Single
  <1>2. ASSUME I = {}, NEW j \in J PROVE FALSE
    BY <1>2
  <1>3. ASSUME I = {1}, NEW j \in J PROVE FALSE
    <2>1. j \in Nat \ {0} /\ j + 1 \in I
      OBVIOUS
    <2>2. j + 1 = 1
      BY <1>3, <2>1
    <2> QED BY <2>1, <2>2
  <1> QED BY <1>1, <1>2, <1>3 DEF Single

\* What holds at 0 and is passed on holds up to n.
LEMMA UpTo ==
  ASSUME NEW n \in Nat, NEW G, 0 \in G, \A i \in 1 .. n : i - 1 \in G => i \in G
  PROVE  \A i \in 0 .. n : i \in G
  <1> SUFFICES ASSUME NEW z \in 0 .. n, z \notin G PROVE FALSE
    OBVIOUS
  <1>1. PICK B : B = {i \in 0 .. n : i \notin G}
    OBVIOUS
  <1>2. PICK m \in B : \A k \in B : m <= k
    <2>1. B \subseteq Nat /\ B # {}
      BY <1>1
    <2> QED BY <2>1, Least
  <1>3. m \in 1 .. n /\ m \notin G
    BY <1>1, <1>2
  <1>4. m - 1 \in 0 .. n /\ m - 1 \notin B
    BY <1>1, <1>2, <1>3
  <1> QED BY <1>1, <1>3, <1>4

\* A loop of n turns over V: F[i] is what turn i does, f the values between.
Turns(F, n, V) == \A i \in 1 .. n, x \in V : F[i][x] \in V
Run(f, F, n, v, V) == f \in [0 .. n -> V] /\ f[0] = v /\ \A i \in 1 .. n : f[i] = F[i][f[i - 1]]

\* It runs to its end.
LEMMA Iteration ==
  ASSUME NEW V, NEW v \in V, NEW n \in Nat, NEW F, Turns(F, n, V)
  PROVE  \E f : Run(f, F, n, v, V)
  <1>1. PICK G : G = {m \in 0 .. n : \E f \in [0 .. m -> V] :
                         f[0] = v /\ \A i \in 1 .. m : f[i] = F[i][f[i - 1]]}
    OBVIOUS
  <1>2. 0 \in G
    <2>1. PICK f : f = [i \in 0 .. 0 |-> v]
      OBVIOUS
    <2>2. f \in [0 .. 0 -> V] /\ f[0] = v /\ \A i \in 1 .. 0 : f[i] = F[i][f[i - 1]]
      BY <2>1
    <2>3. 0 \in 0 .. n
      OBVIOUS
    <2> QED BY <1>1, <2>2, <2>3
  <1>3. ASSUME NEW m \in 1 .. n, m - 1 \in G PROVE m \in G
    <2>1. PICK f \in [0 .. m - 1 -> V] : f[0] = v /\ \A i \in 1 .. m - 1 : f[i] = F[i][f[i - 1]]
      BY <1>1, <1>3
    <2>2. F[m][f[m - 1]] \in V
      BY <2>1 DEF Turns
    <2>3. PICK h : h = [i \in 0 .. m |-> IF i = m THEN F[m][f[m - 1]] ELSE f[i]]
      OBVIOUS
    <2>4. h \in [0 .. m -> V] /\ h[0] = v
      BY <2>1, <2>2, <2>3
    <2>5. ASSUME NEW i \in 1 .. m PROVE h[i] = F[i][h[i - 1]]
      <3>1. h[i - 1] = f[i - 1]
        BY <2>3
      <3>2. CASE i = m
        BY <2>3, <3>1, <3>2
      <3>3. CASE i # m
        <4>1. i \in 1 .. m - 1 /\ h[i] = f[i]
          BY <2>3, <3>3
        <4> QED BY <2>1, <3>1, <4>1
      <3> QED BY <3>2, <3>3
    <2>6. m \in 0 .. n
      OBVIOUS
    <2> QED BY <1>1, <2>4, <2>5, <2>6
  <1>4. n \in G
    <2>1. \A m \in 1 .. n : m - 1 \in G => m \in G
      BY <1>3
    <2>2. \A m \in 0 .. n : m \in G
      BY <1>2, <2>1, UpTo
    <2> QED BY <2>2
  <1>5. PICK f \in [0 .. n -> V] : f[0] = v /\ \A i \in 1 .. n : f[i] = F[i][f[i - 1]]
    BY <1>1, <1>4
  <1> QED BY <1>5 DEF Run

\* The due prefix exists.
LEMMA DueFirstIs == order \in Seq(SpoolKeys) => DueFirst \in 0 .. Len(order)
  <1> SUFFICES ASSUME order \in Seq(SpoolKeys) PROVE DueFirst \in 0 .. Len(order)
    OBVIOUS
  <1>1. PICK B : B = {i \in 1 .. Len(order) : ~pending[order[i]].due}
    OBVIOUS
  <1>2. \E m \in 0 .. Len(order) : /\ \A i \in 1 .. m : pending[order[i]].due
                                   /\ m < Len(order) => ~pending[order[m + 1]].due
    <2>1. CASE B = {}
      BY <1>1, <2>1
    <2>2. CASE B # {}
      <3>1. PICK z \in B : \A k \in B : z <= k
        <4>1. B \subseteq Nat
          BY <1>1
        <4> QED BY <2>2, <4>1, Least
      <3>2. z \in 1 .. Len(order) /\ ~pending[order[z]].due
        BY <1>1, <3>1
      <3>3. \A i \in 1 .. z - 1 : pending[order[i]].due
        BY <1>1, <3>1, <3>2
      <3>4. z - 1 \in 0 .. Len(order) /\ (z - 1) + 1 = z
        BY <3>2
      <3> QED BY <3>2, <3>3, <3>4
    <2> QED BY <2>1, <2>2
  <1> QED BY <1>2 DEF DueFirst

\* s is what is left of the first n keys without pane p's.
Picked(s, n, p) ==
    /\ s \in Seq(SpoolKeys)
    /\ \A a \in 1 .. Len(s) : \E c \in 1 .. n : s[a] = order[c] /\ order[c][1] # p
    /\ \A c \in 1 .. n : order[c][1] # p => \E a \in 1 .. Len(s) : s[a] = order[c]
    /\ \A a, b \in 1 .. Len(s) :
         a < b => \E c, d \in 1 .. n : c < d /\ s[a] = order[c] /\ s[b] = order[d]

\* One turn of Cancel's loop.
LEMMA PickedOne ==
  ASSUME order \in Seq(SpoolKeys), NEW p, NEW i \in 1 .. Len(order), NEW s, Picked(s, i - 1, p)
  PROVE  /\ order[i][1] = p => Picked(s, i, p)
         /\ order[i][1] # p => Picked(Append(s, order[i]), i, p)
  <1>1. order[i] \in SpoolKeys
    BY ElementOfSeq
  <1>2. /\ s \in Seq(SpoolKeys) /\ Len(s) \in Nat
        /\ \A a \in 1 .. Len(s) : \E c \in 1 .. i - 1 : s[a] = order[c] /\ order[c][1] # p
        /\ \A c \in 1 .. i - 1 : order[c][1] # p => \E a \in 1 .. Len(s) : s[a] = order[c]
        /\ \A a, b \in 1 .. Len(s) :
             a < b => \E c, d \in 1 .. i - 1 : c < d /\ s[a] = order[c] /\ s[b] = order[d]
    <2>1. /\ s \in Seq(SpoolKeys)
          /\ \A a \in 1 .. Len(s) : \E c \in 1 .. i - 1 : s[a] = order[c] /\ order[c][1] # p
          /\ \A c \in 1 .. i - 1 : order[c][1] # p => \E a \in 1 .. Len(s) : s[a] = order[c]
          /\ \A a, b \in 1 .. Len(s) :
               a < b => \E c, d \in 1 .. i - 1 : c < d /\ s[a] = order[c] /\ s[b] = order[d]
      BY Zenon DEF Picked
    <2>2. Len(s) \in Nat
      BY <2>1
    <2> QED BY <2>1, <2>2, Zenon
  <1>3. \A c \in 1 .. i - 1 : c \in 1 .. i
    OBVIOUS
  <1>4. ASSUME order[i][1] = p PROVE Picked(s, i, p)
    <2>1. \A c \in 1 .. i : order[c][1] # p => c \in 1 .. i - 1
      BY <1>4
    <2>2. \A a \in 1 .. Len(s) : \E c \in 1 .. i : s[a] = order[c] /\ order[c][1] # p
      BY <1>2, <1>3
    <2>3. \A a, b \in 1 .. Len(s) :
            a < b => \E c, d \in 1 .. i : c < d /\ s[a] = order[c] /\ s[b] = order[d]
      BY <1>2, <1>3
    <2> QED BY <1>2, <2>1, <2>2, <2>3 DEF Picked
  <1>5. ASSUME order[i][1] # p PROVE Picked(Append(s, order[i]), i, p)
    <2>1. PICK t : t = Append(s, order[i])
      OBVIOUS
    <2>2. /\ t \in Seq(SpoolKeys) /\ Len(t) = Len(s) + 1
          /\ \A a \in 1 .. Len(s) : t[a] = s[a]
          /\ t[Len(s) + 1] = order[i]
      BY <1>1, <1>2, <2>1, AppendProperties
    <2>3. \A a \in 1 .. Len(t) : \E c \in 1 .. i : t[a] = order[c] /\ order[c][1] # p
      <3> SUFFICES ASSUME NEW a \in 1 .. Len(t)
                   PROVE  \E c \in 1 .. i : t[a] = order[c] /\ order[c][1] # p
        OBVIOUS
      <3>1. CASE a = Len(s) + 1
        BY <1>5, <2>2, <3>1
      <3>2. CASE a # Len(s) + 1
        <4>1. a \in 1 .. Len(s)
          BY <1>2, <2>2, <3>2
        <4>2. PICK c \in 1 .. i - 1 : s[a] = order[c] /\ order[c][1] # p
          BY <1>2, <4>1
        <4>3. c \in 1 .. i /\ t[a] = order[c]
          BY <1>3, <2>2, <4>1, <4>2
        <4> QED BY <4>2, <4>3
      <3> QED BY <3>1, <3>2
    <2>4. \A c \in 1 .. i : order[c][1] # p => \E a \in 1 .. Len(t) : t[a] = order[c]
      <3> SUFFICES ASSUME NEW c \in 1 .. i, order[c][1] # p
                   PROVE  \E a \in 1 .. Len(t) : t[a] = order[c]
        OBVIOUS
      <3>1. CASE c = i
        <4>1. Len(s) + 1 \in 1 .. Len(t) /\ t[Len(s) + 1] = order[c]
          BY <1>2, <2>2, <3>1
        <4> QED BY <4>1
      <3>2. CASE c # i
        <4>1. c \in 1 .. i - 1
          BY <3>2
        <4>2. PICK a \in 1 .. Len(s) : s[a] = order[c]
          BY <1>2, <4>1
        <4> QED BY <1>2, <2>2, <4>2
      <3> QED BY <3>1, <3>2
    <2>5. ASSUME NEW a \in 1 .. Len(t), NEW b \in 1 .. Len(t), a < b
          PROVE  \E c, d \in 1 .. i : c < d /\ t[a] = order[c] /\ t[b] = order[d]
      <3>1. a \in 1 .. Len(s) /\ t[a] = s[a]
        BY <1>2, <2>2, <2>5
      <3>2. CASE b = Len(s) + 1
        <4>1. PICK c \in 1 .. i - 1 : s[a] = order[c]
          BY <1>2, <3>1
        <4>2. c \in 1 .. i /\ i \in 1 .. i /\ c < i /\ t[b] = order[i]
          BY <2>2, <3>2
        <4> QED BY <3>1, <4>1, <4>2
      <3>3. CASE b # Len(s) + 1
        <4>1. b \in 1 .. Len(s) /\ t[b] = s[b]
          BY <1>2, <2>2, <3>3
        <4>2. PICK c, d \in 1 .. i - 1 : c < d /\ s[a] = order[c] /\ s[b] = order[d]
          BY <1>2, <2>5, <3>1, <4>1
        <4> QED BY <1>3, <3>1, <4>1, <4>2
      <3> QED BY <3>2, <3>3
    <2>6. \A a, b \in 1 .. Len(t) : a < b => \E c, d \in 1 .. i : c < d /\ t[a] = order[c] /\ t[b] = order[d]
      BY <2>5
    <2>7. Picked(t, i, p)
      BY <2>2, <2>3, <2>4, <2>6 DEF Picked
    <2> QED BY <2>1, <2>7
  <1> QED BY <1>4, <1>5

\* Cancel's loop keeps the other panes' keys in their order.
LEMMA UncancelledIs ==
  ASSUME order \in Seq(SpoolKeys), NEW p
  PROVE  Picked(Uncancelled(p), Len(order), p)
  <1>1. PICK n \in Nat : n = Len(order)
    BY LenProperties
  <1>2. PICK V : V = Seq(SpoolKeys)
    OBVIOUS
  <1>3. PICK F : F = [i \in 1 .. n |-> [s \in V |-> IF order[i][1] = p THEN s ELSE Append(s, order[i])]]
    OBVIOUS
  <1>4. Turns(F, n, V)
    <2>1. ASSUME NEW i \in 1 .. n, NEW s \in V PROVE F[i][s] \in V
      <3>1. order[i] \in SpoolKeys
        BY <1>1, ElementOfSeq
      <3>2. Append(s, order[i]) \in V
        BY <1>2, <3>1, AppendProperties
      <3> QED BY <1>3, <3>2
    <2> QED BY <2>1 DEF Turns
  <1>5. PICK v \in V : v = <<>>
    BY <1>2, EmptySeq
  <1>6. PICK f : Run(f, F, n, v, V)
    BY <1>4, Iteration
  <1>7. f \in [0 .. n -> V] /\ f[0] = v /\ \A i \in 1 .. n : f[i] = F[i][f[i - 1]]
    BY <1>6 DEF Run
  <1>8. \A i \in 1 .. n : f[i] = IF order[i][1] = p THEN f[i - 1] ELSE Append(f[i - 1], order[i])
    <2> SUFFICES ASSUME NEW i \in 1 .. n
                 PROVE  F[i][f[i - 1]] = IF order[i][1] = p THEN f[i - 1] ELSE Append(f[i - 1], order[i])
      BY <1>7
    <2>1. f[i - 1] \in V
      BY <1>7
    <2> QED BY <1>3, <2>1
  <1>9. f = [i \in 0 .. n |-> IF i = 0 THEN <<>>
                              ELSE IF order[i][1] = p THEN f[i - 1] ELSE Append(f[i - 1], order[i])]
    <2>1. f = [i \in 0 .. n |-> f[i]]
      BY <1>7
    <2>2. \A i \in 0 .. n : f[i] = IF i = 0 THEN <<>>
                              ELSE IF order[i][1] = p THEN f[i - 1] ELSE Append(f[i - 1], order[i])
      <3> SUFFICES ASSUME NEW i \in 0 .. n
                   PROVE  f[i] = IF i = 0 THEN <<>>
                                 ELSE IF order[i][1] = p THEN f[i - 1] ELSE Append(f[i - 1], order[i])
        OBVIOUS
      <3>1. CASE i = 0
        BY <1>5, <1>7, <3>1
      <3>2. CASE i # 0
        <4>1. i \in 1 .. n
          BY <3>2
        <4> QED BY <1>8, <3>2, <4>1
      <3> QED BY <3>1, <3>2
    <2> QED BY <2>1, <2>2
  <1>10. \E e : e = [i \in 0 .. Len(order) |-> IF i = 0 THEN <<>>
                              ELSE IF order[i][1] = p THEN e[i - 1] ELSE Append(e[i - 1], order[i])]
    BY <1>1, <1>9
  <1>11. PICK e : /\ Uncancelled(p) = e[Len(order)]
                  /\ e = [i \in 0 .. Len(order) |-> IF i = 0 THEN <<>>
                              ELSE IF order[i][1] = p THEN e[i - 1] ELSE Append(e[i - 1], order[i])]
    BY <1>10 DEF Uncancelled
  <1>12. PICK G : G = {i \in 0 .. n : Picked(e[i], i, p)}
    OBVIOUS
  <1>13. 0 \in G
    <2>1. e[0] = v
      <3>1. 0 \in 0 .. Len(order)
        BY <1>1
      <3>2. e[0] = <<>>
        BY <1>11, <3>1
      <3> QED BY <1>5, <3>2
    <2>2. Picked(v, 0, p)
      BY <1>2, <1>5 DEF Picked
    <2> QED BY <1>12, <2>1, <2>2
  <1>14. ASSUME NEW i \in 1 .. n, i - 1 \in G PROVE i \in G
    <2>1. Picked(e[i - 1], i - 1, p)
      BY <1>12, <1>14
    <2>2. e[i] = IF order[i][1] = p THEN e[i - 1] ELSE Append(e[i - 1], order[i])
      <3>1. i \in 0 .. Len(order) /\ i # 0
        BY <1>1
      <3> QED BY <1>11, <3>1
    <2>3. Picked(e[i], i, p)
      BY <1>1, <2>1, <2>2, PickedOne
    <2> QED BY <1>12, <2>3
  <1>15. \A i \in 0 .. n : i \in G
    BY <1>13, <1>14, UpTo
  <1>16. Picked(e[n], n, p)
    BY <1>12, <1>15
  <1> QED BY <1>1, <1>11, <1>16

-----------------------------------------------------------------------------
\* Nothing is written yet.
LEMMA HookStarts == HookInit => HookInv
  <1> SUFFICES ASSUME HookInit PROVE HookInv
    OBVIOUS
  <1>1. /\ file = [p \in SpoolPanes |-> [whole |-> <<>>, torn |-> FALSE]]
        /\ offset = [p \in SpoolPanes |-> 0] /\ lines = 0
        /\ inbox = <<>> /\ order = <<>> /\ batch = <<>>
        /\ pending = [k \in SpoolKeys |-> [of |-> {}, first |-> 0, due |-> FALSE]]
        /\ emitted = [of |-> {}, last |-> [p \in SpoolPanes |-> 0]] /\ gone = {}
    BY DEF HookInit, NoPending
  <1>2. \A S : <<>> \in Seq(S)
    BY EmptySeq
  <1>3. Len(<<>>) = 0 /\ 1 .. 0 = {}
    OBVIOUS
  <1>4. \A p \in SpoolPanes : file[p].whole = <<>> /\ Unread(p) = {}
    BY <1>1, <1>3 DEF Unread
  <1>5. FilesOK
    <2>1. [whole |-> <<>>, torn |-> FALSE] \in [whole : Seq(SpoolLine), torn : BOOLEAN]
      BY <1>2
    <2> QED BY <1>1, <1>3, <1>4, <2>1 DEF FilesOK
  <1>6. InboxOK
    BY <1>1, <1>2, <1>3 DEF InboxOK
  <1>7. BurstsOK /\ \A k \in SpoolKeys : ~IsPending(k)
    BY <1>1 DEF BurstsOK, IsPending
  <1>8. OrderOK
    BY <1>1, <1>2, <1>3, <1>7 DEF OrderOK
  <1>9. BatchOK
    BY <1>1, <1>2, <1>3 DEF BatchOK
  <1>10. GoneOK
    BY <1>1 DEF GoneOK
  <1>11. InTurn
    <2>1. \A p \in SpoolPanes : Coming(p) = {}
      BY <1>1, <1>3, <1>4 DEF Coming
    <2> QED BY <1>1, <1>3, <1>7, <2>1 DEF InTurn
  <1>12. Once
    BY <1>1 DEF Once
  <1> QED BY <1>5, <1>6, <1>7, <1>8, <1>9, <1>10, <1>11, <1>12 DEF HookInv

\* Steps that move no line.
LEMMA Unmoved ==
  ASSUME HookInv, FilesOK',
         \A p \in SpoolPanes : file'[p].whole = file[p].whole /\ offset'[p] = offset[p],
         UNCHANGED <<lines, inbox, order, batch, emitted, gone>>,
         BurstsOK', \A k \in SpoolKeys : pending'[k].of = pending[k].of /\ pending'[k].first = pending[k].first
  PROVE  HookInv'
  <1>1. \A p \in SpoolPanes : Unread(p)' = Unread(p)
    BY DEF Unread
  <1>2. \A k \in SpoolKeys : IsPending(k)' <=> IsPending(k)
    BY DEF IsPending
  <1>3. InboxOK'
    <2>1. \A i \in 1 .. Len(inbox) : inbox[i].pane \in SpoolPanes
      <3> SUFFICES ASSUME NEW i \in 1 .. Len(inbox) PROVE inbox[i].pane \in SpoolPanes
        OBVIOUS
      <3>1. inbox[i] \in [line : Nat, hook : HookNames, pane : SpoolPanes]
        BY ElementOfSeq DEF HookInv, InboxOK
      <3> QED BY <3>1
    <2>2. \A i \in 1 .. Len(inbox) : Unread(inbox[i].pane)' = Unread(inbox[i].pane)
      BY <1>1, <2>1
    <2> QED BY <2>2 DEF HookInv, InboxOK
  <1>4. OrderOK'
    <2>1. \A i \in 1 .. Len(order) : order[i] \in SpoolKeys
      BY ElementOfSeq DEF HookInv, OrderOK
    <2>2. \A i \in 1 .. Len(order) : pending'[order[i]].first = pending[order[i]].first
      BY <2>1
    <2>3. \A i \in 1 .. Len(order) : IsPending(order[i])'
      BY <1>2, <2>1 DEF HookInv, OrderOK
    <2> QED BY <1>2, <2>2, <2>3 DEF HookInv, OrderOK
  <1>5. BatchOK' /\ GoneOK'
    BY DEF HookInv, BatchOK, GoneOK
  <1>6. InTurn'
    <2>1. \A p \in SpoolPanes : Coming(p)' = Coming(p)
      BY <1>1 DEF Coming
    <2>2. \A p, x : BehindBatch(p, x)' <=> BehindBatch(p, x)
      BY DEF BehindBatch
    <2> QED BY <1>2, <2>1, <2>2 DEF HookInv, InTurn
  <1>7. Once'
    <2>1. \A n : InFile(n)' = InFile(n) /\ InInbox(n)' = InInbox(n)
      BY <1>1 DEF InFile, InInbox
    <2>2. \A n : InBurst(n)' = InBurst(n) /\ InBatch(n)' = InBatch(n)
      BY DEF InBurst, InBatch
    <2>3. \A n : Alone(n)' <=> Alone(n)
      BY <2>1, <2>2 DEF Alone
    <2> QED BY <2>3 DEF HookInv, Once
  <1> QED BY <1>3, <1>4, <1>5, <1>6, <1>7 DEF HookInv

\* A write seen before its newline.
LEMMA TornKeeps ==
  ASSUME HookInv, NEW p \in SpoolPanes, AppendTorn(p)
  PROVE  HookInv'
  <1>1. /\ file' = [file EXCEPT ![p].torn = TRUE]
        /\ UNCHANGED <<offset, lines, inbox, pending, order, batch, emitted, gone>>
    BY DEF AppendTorn
  <1>2. file \in [SpoolPanes -> [whole : Seq(SpoolLine), torn : BOOLEAN]]
    BY DEF HookInv, FilesOK
  <1>3. \A q \in SpoolPanes : file'[q].whole = file[q].whole
    BY <1>1, <1>2
  <1>4. file' \in [SpoolPanes -> [whole : Seq(SpoolLine), torn : BOOLEAN]]
    BY <1>1, <1>2
  <1>5. FilesOK'
    BY <1>1, <1>3, <1>4 DEF HookInv, FilesOK
  <1>6. BurstsOK'
    BY <1>1 DEF HookInv, BurstsOK
  <1> QED BY <1>1, <1>3, <1>5, <1>6, Unmoved

\* A timer.
LEMMA FlushKeeps ==
  ASSUME HookInv, NEW k \in SpoolKeys, Flush(k)
  PROVE  HookInv'
  <1>1. /\ pending' = [pending EXCEPT ![k].due = TRUE]
        /\ UNCHANGED <<file, offset, lines, inbox, order, batch, emitted, gone>>
    BY DEF Flush
  <1>2. pending \in [SpoolKeys -> [of : SUBSET Nat, first : Nat, due : BOOLEAN]]
    BY DEF HookInv, BurstsOK
  <1>3. \A c \in SpoolKeys : pending'[c].of = pending[c].of /\ pending'[c].first = pending[c].first
    BY <1>1, <1>2
  <1>4. pending' \in [SpoolKeys -> [of : SUBSET Nat, first : Nat, due : BOOLEAN]]
    BY <1>1, <1>2
  <1>5. BurstsOK'
    BY <1>1, <1>3, <1>4 DEF HookInv, BurstsOK
  <1>6. FilesOK'
    BY <1>1 DEF HookInv, FilesOK
  <1> QED BY <1>1, <1>3, <1>5, <1>6, Unmoved

\* Steps of the limiter and the watcher alone.
LEMMA StillKeeps ==
  ASSUME HookInv, UNCHANGED <<file, offset, lines, inbox, pending, order, batch, emitted, gone>>
  PROVE  HookInv'
  <1>1. FilesOK' /\ BurstsOK'
    BY DEF HookInv, FilesOK, BurstsOK
  <1> QED BY <1>1, Unmoved

\* A function on 1 .. n is a sequence of length n.
LEMMA AsSeq ==
  ASSUME NEW n \in Nat, NEW E, NEW f \in [1 .. n -> E]
  PROVE  f \in Seq(E) /\ Len(f) = n /\ DOMAIN f = 1 .. n
  <1>1. f \in Seq(E)
    OBVIOUS
  <1>2. DOMAIN f = 1 .. n
    OBVIOUS
  <1> QED BY <1>1, <1>2, LenProperties

\* The lines of a file are among those written.
LEMMA UnreadWritten ==
  ASSUME FilesOK, NEW p \in SpoolPanes
  PROVE  Unread(p) \subseteq 1 .. lines
  <1>1. \A i \in offset[p] + 1 .. Len(file[p].whole) : i \in 1 .. Len(file[p].whole)
    <2>1. offset[p] \in Nat
      BY DEF FilesOK
    <2> QED BY <2>1
  <1> QED BY <1>1 DEF FilesOK, Unread

\* What the parts say of one entry.
LEMMA Entries ==
  ASSUME HookInv
  PROVE  /\ \A i \in 1 .. Len(inbox) : /\ inbox[i].line \in 1 .. lines
                                       /\ inbox[i].pane \in SpoolPanes /\ inbox[i].hook \in HookNames
         /\ \A i \in 1 .. Len(order) : order[i] \in SpoolKeys
         /\ \A i \in 1 .. Len(batch) : /\ batch[i].key \in SpoolKeys /\ batch[i].key[1] \in SpoolPanes
                                       /\ batch[i].of \subseteq 1 .. lines
                                       /\ batch[i].first \in Nat /\ batch[i].first <= lines
         /\ \A k \in SpoolKeys : /\ k[1] \in SpoolPanes /\ pending[k].of \subseteq 1 .. lines
                                 /\ pending[k].first \in Nat /\ pending[k].first <= lines
         /\ \A p \in SpoolPanes : emitted.last[p] \in Nat /\ emitted.last[p] <= lines
         /\ Len(inbox) \in Nat /\ DOMAIN inbox = 1 .. Len(inbox)
         /\ Len(order) \in Nat
         /\ Len(batch) \in Nat /\ DOMAIN batch = 1 .. Len(batch)
  <1>1. ASSUME NEW i \in 1 .. Len(inbox)
        PROVE  inbox[i].line \in 1 .. lines /\ inbox[i].pane \in SpoolPanes /\ inbox[i].hook \in HookNames
    <2>1. inbox[i] \in [line : Nat, hook : HookNames, pane : SpoolPanes]
      BY ElementOfSeq DEF HookInv, InboxOK
    <2> QED BY <2>1 DEF HookInv, InboxOK
  <1>2. \A i \in 1 .. Len(order) : order[i] \in SpoolKeys
    BY ElementOfSeq DEF HookInv, OrderOK
  <1>3. ASSUME NEW i \in 1 .. Len(batch)
        PROVE  /\ batch[i].key \in SpoolKeys /\ batch[i].key[1] \in SpoolPanes
               /\ batch[i].of \subseteq 1 .. lines
               /\ batch[i].first \in Nat /\ batch[i].first <= lines
    <2>1. batch[i] \in [key : SpoolKeys, of : SUBSET Nat, first : Nat]
      BY ElementOfSeq DEF HookInv, BatchOK
    <2>2. batch[i].key \in SpoolKeys /\ batch[i].first \in Nat
      BY <2>1
    <2>3. batch[i].key[1] \in SpoolPanes
      BY <2>2 DEF SpoolKeys
    <2> QED BY <2>2, <2>3 DEF HookInv, BatchOK
  <1>4. ASSUME NEW k \in SpoolKeys
        PROVE  /\ k[1] \in SpoolPanes /\ pending[k].of \subseteq 1 .. lines
               /\ pending[k].first \in Nat /\ pending[k].first <= lines
    <2>1. pending[k] \in [of : SUBSET Nat, first : Nat, due : BOOLEAN]
      BY DEF HookInv, BurstsOK
    <2>2. k[1] \in SpoolPanes
      BY DEF SpoolKeys
    <2> QED BY <2>1, <2>2 DEF HookInv, BurstsOK
  <1>5. \A p \in SpoolPanes : emitted.last[p] \in Nat /\ emitted.last[p] <= lines
    BY DEF HookInv, GoneOK
  <1>6. /\ Len(inbox) \in Nat /\ DOMAIN inbox = 1 .. Len(inbox)
        /\ Len(order) \in Nat
        /\ Len(batch) \in Nat /\ DOMAIN batch = 1 .. Len(batch)
    BY LenProperties DEF HookInv, InboxOK, OrderOK, BatchOK
  <1> QED BY <1>1, <1>2, <1>3, <1>4, <1>5, <1>6

\* A hook writes a line: it is new, and comes after all others.
LEMMA AppendKeeps ==
  ASSUME HookInv, NEW p \in SpoolPanes, NEW h \in HookNames, AppendLine(p, h)
  PROVE  HookInv'
  <1>1. /\ lines' = lines + 1
        /\ file' = [file EXCEPT ![p].whole = Append(@, [line |-> lines + 1, hook |-> h]), ![p].torn = FALSE]
        /\ UNCHANGED <<offset, inbox, pending, order, batch, emitted, gone>>
    BY DEF AppendLine
  <1>2. /\ lines \in Nat
        /\ file \in [SpoolPanes -> [whole : Seq(SpoolLine), torn : BOOLEAN]]
        /\ offset \in [SpoolPanes -> Nat]
        /\ \A q \in SpoolPanes :
             /\ offset[q] <= Len(file[q].whole)
             /\ \A i \in 1 .. Len(file[q].whole) :
                  /\ file[q].whole[i].line \in 1 .. lines
                  /\ \A j \in 1 .. Len(file[q].whole) : i < j => file[q].whole[i].line < file[q].whole[j].line
    BY DEF HookInv, FilesOK
  <1>3. PICK r : r = [line |-> lines + 1, hook |-> h]
    OBVIOUS
  <1>4. PICK s : s = Append(file[p].whole, r)
    OBVIOUS
  <1>5. r \in SpoolLine /\ r.line = lines + 1
    BY <1>2, <1>3 DEF SpoolLine
  <1>6. file[p].whole \in Seq(SpoolLine) /\ Len(file[p].whole) \in Nat
    BY <1>2
  <1>7. /\ s \in Seq(SpoolLine) /\ Len(s) = Len(file[p].whole) + 1
        /\ \A i \in 1 .. Len(file[p].whole) : s[i] = file[p].whole[i]
        /\ s[Len(file[p].whole) + 1] = r
    BY <1>4, <1>5, <1>6, AppendProperties
  <1>8. /\ file' \in [SpoolPanes -> [whole : Seq(SpoolLine), torn : BOOLEAN]]
        /\ file'[p].whole = s
        /\ \A q \in SpoolPanes : q # p => file'[q].whole = file[q].whole
    BY <1>1, <1>2, <1>3, <1>4, <1>7
  <1>9. FilesOK'
    <2>1. ASSUME NEW q \in SpoolPanes, q # p
          PROVE  /\ offset'[q] <= Len(file'[q].whole)
                 /\ \A i \in 1 .. Len(file'[q].whole) :
                      /\ file'[q].whole[i].line \in 1 .. lines'
                      /\ \A j \in 1 .. Len(file'[q].whole) : i < j => file'[q].whole[i].line < file'[q].whole[j].line
      BY <1>1, <1>2, <1>8, <2>1
    <2>2. offset'[p] <= Len(s)
      BY <1>1, <1>2, <1>6, <1>7
    <2>3. ASSUME NEW i \in 1 .. Len(s)
          PROVE  s[i].line \in 1 .. lines' /\ \A j \in 1 .. Len(s) : i < j => s[i].line < s[j].line
      <3>1. CASE i = Len(s)
        BY <1>1, <1>2, <1>5, <1>6, <1>7, <3>1
      <3>2. CASE i # Len(s)
        <4>1. i \in 1 .. Len(file[p].whole) /\ s[i].line = file[p].whole[i].line
          BY <1>6, <1>7, <3>2
        <4>2. s[i].line \in 1 .. lines
          BY <1>2, <4>1
        <4>3. ASSUME NEW j \in 1 .. Len(s), i < j PROVE s[i].line < s[j].line
          <5>1. CASE j = Len(s)
            BY <1>2, <1>5, <1>6, <1>7, <4>2, <5>1
          <5>2. CASE j # Len(s)
            <6>1. j \in 1 .. Len(file[p].whole) /\ s[j].line = file[p].whole[j].line
              BY <1>6, <1>7, <5>2
            <6> QED BY <1>2, <4>1, <4>3, <6>1
          <5> QED BY <5>1, <5>2
        <4> QED BY <1>1, <1>2, <4>2, <4>3
      <3> QED BY <3>1, <3>2
    <2>4. \A q \in SpoolPanes :
            /\ offset'[q] <= Len(file'[q].whole)
            /\ \A i \in 1 .. Len(file'[q].whole) :
                 /\ file'[q].whole[i].line \in 1 .. lines'
                 /\ \A j \in 1 .. Len(file'[q].whole) : i < j => file'[q].whole[i].line < file'[q].whole[j].line
      BY <1>8, <2>1, <2>2, <2>3
    <2>5. lines' \in Nat /\ offset' \in [SpoolPanes -> Nat]
      BY <1>1, <1>2
    <2> QED BY <1>8, <2>4, <2>5, Zenon DEF FilesOK
  <1>10. \A q \in SpoolPanes : q # p => Unread(q)' = Unread(q)
    BY <1>1, <1>8 DEF Unread
  <1>11. Unread(p)' = Unread(p) \cup {lines + 1}
    <2>1. Unread(p)' = {s[i].line : i \in offset[p] + 1 .. Len(s)}
      <3>1. Unread(p)' = {file'[p].whole[i].line : i \in offset'[p] + 1 .. Len(file'[p].whole)}
        BY DEF Unread
      <3>2. file'[p].whole = s /\ offset' = offset
        BY <1>1, <1>8
      <3> QED BY <3>1, <3>2, Zenon
    <2>2. ASSUME NEW i \in offset[p] + 1 .. Len(s) PROVE s[i].line \in Unread(p) \cup {lines + 1}
      <3>1. offset[p] \in Nat
        BY <1>2
      <3>2. CASE i = Len(s)
        BY <1>5, <1>6, <1>7, <3>2
      <3>3. CASE i # Len(s)
        <4>1. i \in 1 .. Len(file[p].whole) /\ i \in offset[p] + 1 .. Len(file[p].whole)
          BY <1>6, <1>7, <3>1, <3>3
        <4> QED BY <1>7, <4>1 DEF Unread
      <3> QED BY <3>2, <3>3
    <2>3. ASSUME NEW x \in Unread(p) PROVE x \in Unread(p)'
      <3>1. PICK i \in offset[p] + 1 .. Len(file[p].whole) : x = file[p].whole[i].line
        BY DEF Unread
      <3>2. i \in 1 .. Len(file[p].whole) /\ i \in offset[p] + 1 .. Len(s)
        BY <1>2, <1>6, <1>7
      <3> QED BY <1>7, <2>1, <3>1, <3>2
    <2>4. lines + 1 \in Unread(p)'
      <3>1. Len(s) \in offset[p] + 1 .. Len(s) /\ s[Len(s)].line = lines + 1
        BY <1>2, <1>5, <1>6, <1>7
      <3> QED BY <2>1, <3>1
    <2> QED BY <2>1, <2>2, <2>3, <2>4
  <1>12. \A q \in SpoolPanes : Unread(q) \subseteq 1 .. lines
    BY UnreadWritten DEF HookInv
  <1>13. \A x \in 1 .. lines : x \in 1 .. lines' /\ x < lines + 1
    BY <1>1, <1>2
  <1>14. InboxOK'
    <2>1. ASSUME NEW i \in 1 .. Len(inbox), NEW x \in Unread(inbox[i].pane)' PROVE inbox[i].line < x
      <3>1. inbox[i].pane \in SpoolPanes /\ inbox[i].line \in 1 .. lines
        BY Entries
      <3>2. PICK q \in SpoolPanes : q = inbox[i].pane
        BY <3>1
      <3>3. Unread(inbox[i].pane)' = Unread(q)'
        BY <1>1, <3>2 DEF Unread
      <3>4. x \in Unread(q) \/ x = lines + 1
        BY <1>10, <1>11, <2>1, <3>3
      <3> QED BY <1>13, <3>1, <3>2, <3>4 DEF HookInv, InboxOK
    <2> QED BY <1>1, <1>13, <2>1 DEF HookInv, InboxOK
  <1>15. BurstsOK'
    <2>1. \A k \in SpoolKeys : pending[k].of \subseteq 1 .. lines' /\ pending[k].first <= lines'
      <3>1. \A k \in SpoolKeys : pending[k].of \subseteq 1 .. lines /\ pending[k].first <= lines /\ pending[k].first \in Nat
        BY Entries
      <3> QED BY <1>1, <1>2, <1>13, <3>1
    <2> QED BY <1>1, <2>1 DEF HookInv, BurstsOK
  <1>16. OrderOK'
    BY <1>1 DEF HookInv, OrderOK, IsPending
  <1>17. BatchOK'
    <2>1. \A i \in 1 .. Len(batch) : batch[i].of \subseteq 1 .. lines' /\ batch[i].first <= lines'
      <3>1. \A i \in 1 .. Len(batch) : batch[i].of \subseteq 1 .. lines /\ batch[i].first <= lines /\ batch[i].first \in Nat
        BY Entries
      <3> QED BY <1>1, <1>2, <1>13, <3>1
    <2> QED BY <1>1, <2>1 DEF HookInv, BatchOK
  <1>18. GoneOK'
    <2>1. \A q \in SpoolPanes : emitted.last[q] <= lines'
      <3>1. \A q \in SpoolPanes : emitted.last[q] \in Nat /\ emitted.last[q] <= lines
        BY Entries
      <3> QED BY <1>1, <1>2, <3>1
    <2> QED BY <1>1, <1>13, <2>1 DEF HookInv, GoneOK
  <1>19. InTurn'
    <2>1. \A q, x : BehindBatch(q, x)' <=> BehindBatch(q, x)
      BY <1>1 DEF BehindBatch
    <2>2. \A k \in SpoolKeys : IsPending(k)' <=> IsPending(k)
      BY <1>1 DEF IsPending
    <2>3. \A q \in SpoolPanes : Coming(q)' \subseteq Coming(q) \cup {lines + 1}
      BY <1>1, <1>10, <1>11 DEF Coming
    <2>4. \A q \in SpoolPanes : BehindBatch(q, lines + 1)
      <3>1. \A i \in 1 .. Len(batch) : batch[i].first < lines + 1
        BY <1>2, Entries
      <3>2. \A q \in SpoolPanes : emitted.last[q] < lines + 1
        BY <1>2, Entries
      <3> QED BY <3>1, <3>2 DEF BehindBatch
    <2>5. \A k \in SpoolKeys : pending[k].first < lines + 1
      BY <1>2, Entries
    <2>6. \A q \in SpoolPanes : \A x \in Coming(q)' :
            BehindBatch(q, x) /\ \A k \in SpoolKeys : IsPending(k) /\ k[1] = q => pending[k].first < x
      BY <2>3, <2>4, <2>5 DEF HookInv, InTurn
    <2> QED BY <1>1, <2>1, <2>2, <2>6 DEF HookInv, InTurn
  <1>20. Once'
    <2>1. ASSUME NEW n \in 1 .. lines PROVE Alone(n)'
      <3>1. InFile(n)' = InFile(n)
        BY <1>10, <1>11, <1>13, <2>1 DEF InFile
      <3>2. InInbox(n)' = InInbox(n) /\ InBurst(n)' = InBurst(n) /\ InBatch(n)' = InBatch(n)
        BY <1>1 DEF InInbox, InBurst, InBatch
      <3>3. Alone(n)
        BY DEF HookInv, Once
      <3> QED BY <1>1, <3>1, <3>2, <3>3 DEF Alone
    <2>2. PICK n : n = lines + 1
      OBVIOUS
    <2>3. n \notin 1 .. lines
      BY <1>2, <2>2
    <2>4. InFile(n)' = {p}
      BY <1>10, <1>11, <1>12, <2>2, <2>3 DEF InFile
    <2>5. InInbox(n)' = {}
      <3>1. InInbox(n) = {}
        BY <2>3, Entries DEF InInbox
      <3> QED BY <1>1, <3>1 DEF InInbox
    <2>6. InBurst(n)' = {}
      <3>1. InBurst(n) = {}
        BY <2>3, Entries DEF InBurst
      <3> QED BY <1>1, <3>1 DEF InBurst
    <2>7. InBatch(n)' = {}
      <3>1. InBatch(n) = {}
        BY <2>3, Entries DEF InBatch
      <3> QED BY <1>1, <3>1 DEF InBatch
    <2>8. {n} \cap emitted.of = {} /\ {n} \cap gone = {}
      BY <2>3 DEF HookInv, GoneOK
    <2>9. Alone(n)'
      <3>1. PICK U : U = {p}
        OBVIOUS
      <3>2. Lone(U, {}, {}, {}, {}, {})
        BY <3>1 DEF Lone, Single
      <3> QED BY <1>1, <2>4, <2>5, <2>6, <2>7, <2>8, <3>1, <3>2 DEF Alone
    <2>10. \A x \in 1 .. lines' : x \in 1 .. lines \/ x = n
      BY <1>1, <1>2, <2>2
    <2>11. \A x \in 1 .. lines' : Alone(x)'
      <3> SUFFICES ASSUME NEW x \in 1 .. lines' PROVE Alone(x)'
        OBVIOUS
      <3>1. CASE x \in 1 .. lines
        BY <2>1, <3>1
      <3>2. CASE x = n
        BY <2>9, <3>2 DEF Alone, InFile, InInbox, InBurst, InBatch
      <3> QED BY <2>10, <3>1, <3>2
    <2> QED BY <2>11 DEF Once
  <1> QED BY <1>9, <1>14, <1>15, <1>16, <1>17, <1>18, <1>19, <1>20 DEF HookInv

\* The watcher reads a file: its unread lines become the inbox.
LEMMA SpoolReadKeeps ==
  ASSUME HookInv, NEW p \in SpoolPanes, ReadPaneFile(p)
  PROVE  HookInv'
  <1>1. /\ lines \in Nat
        /\ file \in [SpoolPanes -> [whole : Seq(SpoolLine), torn : BOOLEAN]]
        /\ offset \in [SpoolPanes -> Nat]
        /\ \A q \in SpoolPanes :
             /\ offset[q] <= Len(file[q].whole)
             /\ \A i \in 1 .. Len(file[q].whole) :
                  /\ file[q].whole[i].line \in 1 .. lines
                  /\ \A j \in 1 .. Len(file[q].whole) : i < j => file[q].whole[i].line < file[q].whole[j].line
    BY DEF HookInv, FilesOK
  <1>2. file[p].whole \in Seq(SpoolLine) /\ Len(file[p].whole) \in Nat
    BY <1>1
  <1>3. ~(Size(p) < offset[p])
    <2>1. PICK t : t = IF file[p].torn THEN 1 ELSE 0
      OBVIOUS
    <2>2. t \in Nat /\ Size(p) = Len(file[p].whole) + t
      BY <2>1 DEF Size
    <2> QED BY <1>1, <1>2, <2>2
  <1>4. PICK a : a = offset[p]
    OBVIOUS
  <1>5. PICK n : n = Len(file[p].whole) - a
    OBVIOUS
  <1>6. a \in Nat /\ n \in Nat /\ Len(file[p].whole) = a + n
    BY <1>1, <1>2, <1>4, <1>5
  <1>7. /\ inbox = <<>>
        /\ inbox' = [i \in 1 .. n |-> Delivered(p, a + i)]
        /\ offset' = [offset EXCEPT ![p] = a + n]
        /\ UNCHANGED <<file, lines, pending, order, batch, emitted, gone>>
    BY <1>3, <1>4, <1>5, <1>6 DEF ReadPaneFile
  <1>8. ASSUME NEW i \in 1 .. n
        PROVE  /\ a + i \in 1 .. Len(file[p].whole) /\ a + i \in offset[p] + 1 .. Len(file[p].whole)
               /\ inbox'[i] \in [line : Nat, hook : HookNames, pane : SpoolPanes]
               /\ inbox'[i].line = file[p].whole[a + i].line /\ inbox'[i].pane = p
    <2>1. a + i \in 1 .. Len(file[p].whole) /\ a + i \in offset[p] + 1 .. Len(file[p].whole)
      BY <1>4, <1>6
    <2>2. file[p].whole[a + i] \in SpoolLine
      BY <1>2, <2>1, ElementOfSeq
    <2>3. file[p].whole[a + i].line \in Nat /\ file[p].whole[a + i].hook \in HookNames
      BY <2>2 DEF SpoolLine
    <2> QED BY <1>7, <2>1, <2>3 DEF Delivered
  <1>9. inbox' \in Seq([line : Nat, hook : HookNames, pane : SpoolPanes]) /\ Len(inbox') = n /\ DOMAIN inbox' = 1 .. n
    <2>1. inbox' = [i \in 1 .. n |-> inbox'[i]]
      BY <1>7
    <2>2. inbox' \in [1 .. n -> [line : Nat, hook : HookNames, pane : SpoolPanes]]
      BY <1>8, <2>1
    <2> QED BY <1>6, <2>2, AsSeq
  <1>10. Len(inbox) = 0 /\ 1 .. 0 = {} /\ DOMAIN inbox = {}
    BY <1>7
  <1>11. Unread(p)' = {}
    <2>1. (a + n) + 1 .. Len(file[p].whole) = {}
      BY <1>6
    <2>2. Unread(p)' = {file[p].whole[i].line : i \in (a + n) + 1 .. Len(file[p].whole)}
      BY <1>1, <1>7 DEF Unread
    <2> QED BY <2>1, <2>2
  <1>12. \A q \in SpoolPanes : q # p => Unread(q)' = Unread(q)
    BY <1>1, <1>7 DEF Unread
  <1>13. \A x : x \in Unread(p) <=> \E i \in 1 .. n : x = inbox'[i].line
    <2>1. ASSUME NEW x \in Unread(p) PROVE \E i \in 1 .. n : x = inbox'[i].line
      <3>1. PICK j \in offset[p] + 1 .. Len(file[p].whole) : x = file[p].whole[j].line
        BY DEF Unread
      <3>2. j - a \in 1 .. n /\ a + (j - a) = j
        BY <1>4, <1>6
      <3> QED BY <1>8, <3>1, <3>2
    <2>2. ASSUME NEW i \in 1 .. n PROVE inbox'[i].line \in Unread(p)
      BY <1>8 DEF Unread
    <2> QED BY <2>1, <2>2
  <1>14. FilesOK'
    <2>1. offset' \in [SpoolPanes -> Nat]
      BY <1>1, <1>6, <1>7
    <2>2. \A q \in SpoolPanes : offset'[q] <= Len(file[q].whole)
      BY <1>1, <1>6, <1>7
    <2> QED BY <1>1, <1>7, <2>1, <2>2 DEF FilesOK
  <1>15. InboxOK'
    <2>1. ASSUME NEW i \in 1 .. n
          PROVE  /\ inbox'[i].line \in 1 .. lines
                 /\ \A j \in 1 .. n : i < j => inbox'[i].line < inbox'[j].line
      <3>1. \A j \in 1 .. n : i < j => a + i < a + j
        BY <1>6
      <3> QED BY <1>1, <1>8, <3>1
    <2>2. \A i \in 1 .. n : Unread(inbox[i].pane)' = {}
      <3>1. ASSUME NEW i \in 1 .. n PROVE Unread(inbox[i].pane)' = {}
        <4>1. inbox'[i].pane = p
          BY <1>8
        <4>2. Unread(inbox[i].pane)' = Unread(p)'
          BY <4>1 DEF Unread
        <4> QED BY <1>11, <4>2
      <3> QED BY <3>1
    <2> QED BY <1>7, <1>9, <2>1, <2>2 DEF InboxOK
  <1>16. BurstsOK' /\ OrderOK' /\ BatchOK' /\ GoneOK'
    BY <1>7 DEF HookInv, BurstsOK, OrderOK, BatchOK, GoneOK, IsPending
  <1>17. InTurn'
    <2>1. \A q, x : BehindBatch(q, x)' <=> BehindBatch(q, x)
      BY <1>7 DEF BehindBatch
    <2>2. \A k \in SpoolKeys : IsPending(k)' <=> IsPending(k)
      BY <1>7 DEF IsPending
    <2>3. ASSUME NEW q \in SpoolPanes, NEW x \in Coming(q)' PROVE x \in Coming(q)
      <3>1. x \in Unread(q)' \/ \E i \in 1 .. n : inbox'[i].pane = q /\ x = inbox'[i].line
        BY <1>9, <2>3 DEF Coming
      <3>2. CASE x \in Unread(q)'
        BY <1>11, <1>12, <3>2 DEF Coming
      <3>3. CASE \E i \in 1 .. n : inbox'[i].pane = q /\ x = inbox'[i].line
        BY <1>8, <1>13, <3>3 DEF Coming
      <3> QED BY <3>1, <3>2, <3>3
    <2> QED BY <1>7, <2>1, <2>2, <2>3 DEF HookInv, InTurn
  <1>18. Once'
    <2>1. ASSUME NEW m \in 1 .. lines PROVE Alone(m)'
      <3>1. InInbox(m) = {}
        BY <1>10 DEF InInbox
      <3>2. InBurst(m)' = InBurst(m) /\ InBatch(m)' = InBatch(m)
        BY <1>7 DEF InBurst, InBatch
      <3>3. Lone(InFile(m), InInbox(m), InBurst(m), InBatch(m), {m} \cap emitted.of, {m} \cap gone)
        BY DEF HookInv, Once, Alone
      <3>4. CASE m \in Unread(p)
        <4>1. p \in InFile(m)
          BY <3>4 DEF InFile
        <4>2. InFile(m) = {p} /\ InBurst(m) = {} /\ InBatch(m) = {} /\ {m} \cap emitted.of = {} /\ {m} \cap gone = {}
          BY <3>3, <4>1 DEF Lone, Single
        <4>3. InFile(m)' = {}
          BY <1>11, <1>12, <4>2 DEF InFile
        <4>4. PICK i \in 1 .. n : m = inbox'[i].line
          BY <1>13, <3>4
        <4>5. \A j \in 1 .. n : j # i => inbox'[j].line # m
          <5>1. ASSUME NEW j \in 1 .. n, j # i PROVE inbox'[j].line # m
            <6>1. i < j \/ j < i
              BY <5>1
            <6>2. inbox'[i].line \in Nat /\ inbox'[j].line \in Nat
              BY <1>8
            <6> QED BY <1>9, <1>15, <4>4, <6>1, <6>2 DEF InboxOK
          <5> QED BY <5>1
        <4>6. InInbox(m)' = {i}
          BY <1>9, <4>4, <4>5 DEF InInbox
        <4>7. Lone({}, {i}, {}, {}, {}, {})
          <5>1. PICK S : S = {i}
            OBVIOUS
          <5>2. Lone({}, S, {}, {}, {}, {})
            BY <5>1 DEF Lone, Single
          <5> QED BY <5>1, <5>2
        <4> QED BY <1>7, <3>2, <4>2, <4>3, <4>6, <4>7 DEF Alone
      <3>5. CASE m \notin Unread(p)
        <4>1. InFile(m)' = InFile(m)
          BY <1>11, <1>12, <3>5 DEF InFile
        <4>2. InInbox(m)' = {}
          BY <1>9, <1>13, <3>5 DEF InInbox
        <4> QED BY <1>7, <3>1, <3>2, <3>3, <4>1, <4>2 DEF Alone
      <3> QED BY <3>4, <3>5
    <2> QED BY <1>7, <2>1 DEF Once
  <1> QED BY <1>14, <1>15, <1>16, <1>17, <1>18 DEF HookInv

\* A rotation drops the file's unread lines.
LEMMA RotateKeeps ==
  ASSUME HookInv, NEW p \in SpoolPanes, RotateSpool(p)
  PROVE  HookInv'
  <1>1. /\ lines \in Nat
        /\ file \in [SpoolPanes -> [whole : Seq(SpoolLine), torn : BOOLEAN]]
        /\ offset \in [SpoolPanes -> Nat]
    BY DEF HookInv, FilesOK
  <1>2. /\ gone' = gone \cup Unread(p)
        /\ file' = [file EXCEPT ![p] = [whole |-> <<>>, torn |-> FALSE]]
        /\ offset' = [offset EXCEPT ![p] = 0]
        /\ UNCHANGED <<lines, inbox, pending, order, batch, emitted>>
    BY DEF RotateSpool
  <1>3. PICK v : v = [whole |-> <<>>, torn |-> FALSE]
    OBVIOUS
  <1>4. v \in [whole : Seq(SpoolLine), torn : BOOLEAN] /\ v.whole = <<>> /\ Len(v.whole) = 0
    <2>1. <<>> \in Seq(SpoolLine)
      BY EmptySeq
    <2> QED BY <1>3, <2>1
  <1>5. /\ file' \in [SpoolPanes -> [whole : Seq(SpoolLine), torn : BOOLEAN]]
        /\ file'[p] = v /\ \A q \in SpoolPanes : q # p => file'[q] = file[q]
    BY <1>1, <1>2, <1>3, <1>4
  <1>6. /\ offset' \in [SpoolPanes -> Nat]
        /\ offset'[p] = 0 /\ \A q \in SpoolPanes : q # p => offset'[q] = offset[q]
    BY <1>1, <1>2
  <1>7. FilesOK'
    <2>1. ASSUME NEW q \in SpoolPanes
          PROVE  /\ offset'[q] <= Len(file'[q].whole)
                 /\ \A i \in 1 .. Len(file'[q].whole) :
                      /\ file'[q].whole[i].line \in 1 .. lines
                      /\ \A j \in 1 .. Len(file'[q].whole) : i < j => file'[q].whole[i].line < file'[q].whole[j].line
      <3>1. CASE q = p
        <4>1. Len(file'[q].whole) = 0 /\ offset'[q] = 0 /\ 1 .. 0 = {}
          BY <1>4, <1>5, <1>6, <3>1
        <4> QED BY <4>1
      <3>2. CASE q # p
        BY <1>5, <1>6, <3>2 DEF HookInv, FilesOK
      <3> QED BY <3>1, <3>2
    <2> QED BY <1>1, <1>2, <1>5, <1>6, <2>1 DEF FilesOK
  <1>8. Unread(p)' = {}
    <2>1. Unread(p)' = {file'[p].whole[i].line : i \in offset'[p] + 1 .. Len(file'[p].whole)}
      BY DEF Unread
    <2>2. offset'[p] + 1 .. Len(file'[p].whole) = {}
      BY <1>4, <1>5, <1>6
    <2> QED BY <2>1, <2>2
  <1>9. \A q \in SpoolPanes : q # p => Unread(q)' = Unread(q)
    BY <1>5, <1>6 DEF Unread
  <1>10. InboxOK'
    <2>1. ASSUME NEW i \in 1 .. Len(inbox), NEW x \in Unread(inbox[i].pane)' PROVE inbox[i].line < x
      <3>1. PICK q \in SpoolPanes : q = inbox[i].pane
        BY Entries
      <3>2. Unread(inbox[i].pane)' = Unread(q)'
        BY <1>2, <3>1 DEF Unread
      <3>3. x \in Unread(q)
        BY <1>8, <1>9, <2>1, <3>2
      <3> QED BY <3>1, <3>3 DEF HookInv, InboxOK
    <2> QED BY <1>2, <2>1 DEF HookInv, InboxOK
  <1>11. BurstsOK' /\ OrderOK' /\ BatchOK'
    BY <1>2 DEF HookInv, BurstsOK, OrderOK, BatchOK, IsPending
  <1>12. GoneOK'
    <2>1. Unread(p) \subseteq 1 .. lines
      BY UnreadWritten DEF HookInv
    <2> QED BY <1>2, <2>1 DEF HookInv, GoneOK
  <1>13. InTurn'
    <2>1. \A q, x : BehindBatch(q, x)' <=> BehindBatch(q, x)
      BY <1>2 DEF BehindBatch
    <2>2. \A k \in SpoolKeys : IsPending(k)' <=> IsPending(k)
      BY <1>2 DEF IsPending
    <2>3. \A q \in SpoolPanes : Coming(q)' \subseteq Coming(q)
      BY <1>2, <1>8, <1>9 DEF Coming
    <2> QED BY <1>2, <2>1, <2>2, <2>3 DEF HookInv, InTurn
  <1>14. Once'
    <2>1. ASSUME NEW m \in 1 .. lines PROVE Alone(m)'
      <3>1. InInbox(m)' = InInbox(m) /\ InBurst(m)' = InBurst(m) /\ InBatch(m)' = InBatch(m)
        BY <1>2 DEF InInbox, InBurst, InBatch
      <3>2. Lone(InFile(m), InInbox(m), InBurst(m), InBatch(m), {m} \cap emitted.of, {m} \cap gone)
        BY DEF HookInv, Once, Alone
      <3>3. CASE m \in Unread(p)
        <4>1. p \in InFile(m)
          BY <3>3 DEF InFile
        <4>2. InFile(m) = {p} /\ InInbox(m) = {} /\ InBurst(m) = {} /\ InBatch(m) = {} /\ {m} \cap emitted.of = {}
          BY <3>2, <4>1 DEF Lone, Single
        <4>3. InFile(m)' = {}
          BY <1>8, <1>9, <4>2 DEF InFile
        <4>4. PICK S : S = {m}
          OBVIOUS
        <4>5. {m} \cap gone' = S
          BY <1>2, <3>3, <4>4
        <4>6. Lone({}, {}, {}, {}, {}, S)
          BY <4>4 DEF Lone, Single
        <4> QED BY <1>2, <3>1, <4>2, <4>3, <4>5, <4>6 DEF Alone
      <3>4. CASE m \notin Unread(p)
        <4>1. InFile(m)' = InFile(m)
          BY <1>8, <1>9, <3>4 DEF InFile
        <4>2. {m} \cap gone' = {m} \cap gone
          BY <1>2, <3>4
        <4> QED BY <1>2, <3>1, <3>2, <4>1, <4>2 DEF Alone
      <3> QED BY <3>3, <3>4
    <2> QED BY <1>2, <2>1 DEF Once
  <1> QED BY <1>7, <1>10, <1>11, <1>12, <1>13, <1>14 DEF HookInv

\* The first m events are taken; what is left keeps its turn.
LEMMA SpoolTakeKeeps ==
  ASSUME HookInv, NEW m \in 0 .. Len(order), batch = <<>>, TakeFirst(m),
         UNCHANGED <<file, offset, lines, inbox, emitted, gone>>
  PROVE  HookInv'
  <1>1. /\ order \in Seq(SpoolKeys) /\ Len(order) \in Nat
        /\ \A i \in 1 .. Len(order) : order[i] \in SpoolKeys /\ IsPending(order[i])
        /\ \A k \in SpoolKeys : IsPending(k) => \E i \in 1 .. Len(order) : order[i] = k
        /\ \A i, j \in 1 .. Len(order) :
             i < j => /\ order[i] # order[j]
                      /\ order[i][1] = order[j][1] => pending[order[i]].first < pending[order[j]].first
    BY Entries DEF HookInv, OrderOK
  <1>2. \A i \in 1 .. m : i \in 1 .. Len(order)
    BY <1>1
  <1>3. /\ batch' = [i \in 1 .. m |->
                      [key |-> order[i], of |-> pending[order[i]].of, first |-> pending[order[i]].first]]
        /\ pending' = [k \in SpoolKeys |-> IF \E i \in 1 .. m : order[i] = k
                                           THEN [of |-> {}, first |-> 0, due |-> FALSE] ELSE pending[k]]
        /\ order' = SubSeq(order, m + 1, Len(order))
    BY DEF TakeFirst, NoPending
  <1>4. \A k \in SpoolKeys : pending[k] \in [of : SUBSET Nat, first : Nat, due : BOOLEAN]
    BY DEF HookInv, BurstsOK
  <1>5. ASSUME NEW i \in 1 .. m
        PROVE  /\ batch'[i] \in [key : SpoolKeys, of : SUBSET Nat, first : Nat]
               /\ batch'[i].key = order[i] /\ batch'[i].of = pending[order[i]].of
               /\ batch'[i].first = pending[order[i]].first
    <2>1. order[i] \in SpoolKeys
      BY <1>1, <1>2
    <2>2. pending[order[i]].of \in SUBSET Nat /\ pending[order[i]].first \in Nat
      BY <1>4, <2>1
    <2> QED BY <1>3, <2>1, <2>2
  <1>6. batch' \in Seq([key : SpoolKeys, of : SUBSET Nat, first : Nat]) /\ Len(batch') = m /\ DOMAIN batch' = 1 .. m
    <2>1. batch' = [i \in 1 .. m |-> batch'[i]]
      BY <1>3
    <2>2. batch' \in [1 .. m -> [key : SpoolKeys, of : SUBSET Nat, first : Nat]]
      BY <1>5, <2>1
    <2>3. m \in Nat
      BY <1>1
    <2> QED BY <2>2, <2>3, AsSeq
  <1>7. /\ order' \in Seq(SpoolKeys) /\ Len(order') = Len(order) - m
        /\ \A i \in 1 .. Len(order) - m : order'[i] = order[m + i] /\ m + i \in 1 .. Len(order)
    <2>1. m + 1 \in Int /\ Len(order) \in Int /\ m \in Nat
      BY <1>1
    <2>2. \A i \in m + 1 .. Len(order) : order[i] \in SpoolKeys
      BY <1>1, <2>1
    <2>3. /\ order' \in Seq(SpoolKeys)
          /\ Len(order') = IF m + 1 <= Len(order) THEN Len(order) - (m + 1) + 1 ELSE 0
          /\ \A i \in 1 .. Len(order) - (m + 1) + 1 : order'[i] = order[(m + 1) + i - 1]
      BY <1>3, <2>1, <2>2, SubSeqProperties
    <2>4. Len(order') = Len(order) - m
      BY <1>1, <2>1, <2>3
    <2>5. ASSUME NEW i \in 1 .. Len(order) - m PROVE order'[i] = order[m + i] /\ m + i \in 1 .. Len(order)
      <3>1. i \in 1 .. Len(order) - (m + 1) + 1 /\ (m + 1) + i - 1 = m + i /\ m + i \in 1 .. Len(order)
        BY <1>1, <2>1
      <3> QED BY <2>3, <3>1
    <2> QED BY <2>3, <2>4, <2>5
  <1>8. \A i \in 1 .. Len(order) : \A j \in 1 .. m : i > m => order[i] # order[j]
    <2>1. ASSUME NEW i \in 1 .. Len(order), NEW j \in 1 .. m, i > m PROVE order[i] # order[j]
      <3>1. j \in 1 .. Len(order) /\ j < i
        BY <1>1, <1>2, <2>1
      <3> QED BY <1>1, <3>1
    <2> QED BY <2>1
  <1>9. ASSUME NEW k \in SpoolKeys
        PROVE  /\ pending'[k] \in [of : SUBSET Nat, first : Nat, due : BOOLEAN]
               /\ (\E i \in 1 .. m : order[i] = k) => pending'[k].of = {} /\ pending'[k].first = 0
               /\ (~\E i \in 1 .. m : order[i] = k) => pending'[k] = pending[k]
               /\ IsPending(k)' => IsPending(k) /\ pending'[k] = pending[k] /\ ~\E i \in 1 .. m : order[i] = k
    <2>1. [of |-> {}, first |-> 0, due |-> FALSE] \in [of : SUBSET Nat, first : Nat, due : BOOLEAN]
      OBVIOUS
    <2>2. CASE \E i \in 1 .. m : order[i] = k
      <3>1. pending'[k] = [of |-> {}, first |-> 0, due |-> FALSE]
        BY <1>3, <2>2
      <3>2. pending'[k].of = {} /\ pending'[k].first = 0
        BY <3>1
      <3>3. ~IsPending(k)'
        BY <3>2 DEF IsPending
      <3> QED BY <2>1, <2>2, <3>1, <3>2, <3>3
    <2>3. CASE ~\E i \in 1 .. m : order[i] = k
      <3>1. pending'[k] = pending[k]
        BY <1>3, <2>3
      <3>2. IsPending(k)' <=> IsPending(k)
        BY <3>1 DEF IsPending
      <3> QED BY <1>4, <2>3, <3>1, <3>2
    <2> QED BY <2>2, <2>3
  <1>10. \A p : Unread(p)' = Unread(p)
    BY DEF Unread
  <1>11. FilesOK' /\ GoneOK'
    BY DEF HookInv, FilesOK, GoneOK
  <1>12. InboxOK'
    BY DEF HookInv, InboxOK, Unread
  <1>13. BurstsOK'
    <2>1. pending' = [k \in SpoolKeys |-> pending'[k]]
      BY <1>3
    <2>2. pending' \in [SpoolKeys -> [of : SUBSET Nat, first : Nat, due : BOOLEAN]]
      BY <1>9, <2>1
    <2>3. ASSUME NEW k \in SpoolKeys PROVE pending'[k].of \subseteq 1 .. lines /\ pending'[k].first <= lines
      <3>1. lines \in Nat /\ pending[k].of \subseteq 1 .. lines /\ pending[k].first <= lines
        BY Entries DEF HookInv, FilesOK
      <3>2. CASE \E i \in 1 .. m : order[i] = k
        <4>1. pending'[k].of = {} /\ pending'[k].first = 0
          BY <1>9, <3>2
        <4> QED BY <3>1, <4>1
      <3>3. CASE ~\E i \in 1 .. m : order[i] = k
        <4>1. pending'[k] = pending[k]
          BY <1>9, <3>3
        <4> QED BY <3>1, <4>1
      <3> QED BY <3>2, <3>3
    <2> QED BY <2>2, <2>3 DEF BurstsOK
  <1>14. OrderOK'
    <2>1. ASSUME NEW i \in 1 .. Len(order')
          PROVE  /\ order'[i] = order[m + i] /\ m + i \in 1 .. Len(order) /\ order'[i] \in SpoolKeys
                 /\ pending'[order'[i]] = pending[order[m + i]] /\ pending'[order'[i]].of # {}
      <3>1. order'[i] = order[m + i] /\ m + i \in 1 .. Len(order) /\ m + i > m
        BY <1>1, <1>7
      <3>2. order[m + i] \in SpoolKeys /\ pending[order[m + i]].of # {}
        BY <1>1, <3>1 DEF IsPending
      <3>3. ~\E j \in 1 .. m : order[j] = order[m + i]
        BY <1>8, <3>1
      <3>4. pending'[order[m + i]] = pending[order[m + i]]
        BY <1>9, <3>2, <3>3
      <3> QED BY <3>1, <3>2, <3>4
    <2>2. \A i \in 1 .. Len(order') : IsPending(order[i])'
      BY <2>1 DEF IsPending
    <2>3. ASSUME NEW k \in SpoolKeys, IsPending(k)' PROVE \E i \in 1 .. Len(order') : order'[i] = k
      <3>1. IsPending(k) /\ ~\E i \in 1 .. m : order[i] = k
        BY <1>9, <2>3
      <3>2. PICK i \in 1 .. Len(order) : order[i] = k
        BY <1>1, <3>1
      <3>3. i \notin 1 .. m
        BY <3>1, <3>2
      <3>4. i - m \in 1 .. Len(order') /\ m + (i - m) = i
        BY <1>1, <1>7, <3>3
      <3> QED BY <2>1, <3>2, <3>4
    <2>4. ASSUME NEW i \in 1 .. Len(order'), NEW j \in 1 .. Len(order'), i < j
          PROVE  /\ order'[i] # order'[j]
                 /\ order'[i][1] = order'[j][1] => pending'[order'[i]].first < pending'[order'[j]].first
      <3>1. m + i < m + j
        BY <1>1, <1>7, <2>4
      <3>2. /\ order[m + i] # order[m + j]
            /\ order[m + i][1] = order[m + j][1] => pending[order[m + i]].first < pending[order[m + j]].first
        BY <1>1, <2>1, <3>1
      <3> QED BY <2>1, <3>2
    <2> QED BY <1>7, <2>2, <2>3, <2>4 DEF OrderOK
  <1>15. BatchOK'
    <2>1. \A i \in 1 .. m : batch'[i].of \subseteq 1 .. lines /\ batch'[i].first <= lines
      <3>1. \A i \in 1 .. m : order[i] \in SpoolKeys
        BY <1>1, <1>2
      <3> QED BY <1>5, <3>1, Entries
    <2>2. ASSUME NEW i \in 1 .. m, NEW j \in 1 .. m, i < j, batch'[i].key[1] = batch'[j].key[1]
          PROVE  batch'[i].first < batch'[j].first
      <3>1. i \in 1 .. Len(order) /\ j \in 1 .. Len(order)
        BY <1>2
      <3>2. order[i][1] = order[j][1]
        BY <1>5, <2>2
      <3>3. pending[order[i]].first < pending[order[j]].first
        BY <1>1, <2>2, <3>1, <3>2
      <3> QED BY <1>5, <3>3
    <2> QED BY <1>6, <2>1, <2>2 DEF BatchOK
  <1>16. InTurn'
    <2>1. ASSUME NEW i \in 1 .. m PROVE emitted.last[batch'[i].key[1]] < batch'[i].first
      <3>1. order[i] \in SpoolKeys /\ IsPending(order[i])
        BY <1>1, <1>2
      <3> QED BY <1>5, <3>1 DEF HookInv, InTurn, BehindBatch
    <2>2. ASSUME NEW k \in SpoolKeys, IsPending(k)'
          PROVE  BehindBatch(k[1], pending[k].first)'
      <3>1. IsPending(k) /\ pending'[k] = pending[k] /\ ~\E i \in 1 .. m : order[i] = k
        BY <1>9, <2>2
      <3>2. emitted.last[k[1]] < pending[k].first
        BY <3>1 DEF HookInv, InTurn, BehindBatch
      <3>3. PICK j \in 1 .. Len(order) : order[j] = k
        BY <1>1, <3>1
      <3>4. j > m
        BY <1>1, <3>1, <3>3
      <3>5. ASSUME NEW i \in 1 .. m, batch'[i].key[1] = k[1] PROVE batch'[i].first < pending[k].first
        <4>1. i \in 1 .. Len(order) /\ i < j
          BY <1>1, <1>2, <3>4
        <4> QED BY <1>1, <1>5, <3>3, <3>5, <4>1
      <3> QED BY <1>6, <3>1, <3>2, <3>5 DEF BehindBatch
    <2>3. \A p \in SpoolPanes : Coming(p)' = Coming(p)
      BY <1>10 DEF Coming
    <2>4. ASSUME NEW p \in SpoolPanes, NEW x \in Coming(p)
          PROVE  BehindBatch(p, x)' /\ \A k \in SpoolKeys : IsPending(k)' /\ k[1] = p => pending'[k].first < x
      <3>1. emitted.last[p] < x /\ \A k \in SpoolKeys : IsPending(k) /\ k[1] = p => pending[k].first < x
        BY DEF HookInv, InTurn, BehindBatch
      <3>2. ASSUME NEW i \in 1 .. m, batch'[i].key[1] = p PROVE batch'[i].first < x
        <4>1. order[i] \in SpoolKeys /\ IsPending(order[i])
          BY <1>1, <1>2
        <4> QED BY <1>5, <3>1, <3>2, <4>1
      <3>3. BehindBatch(p, x)'
        BY <1>6, <3>1, <3>2 DEF BehindBatch
      <3> QED BY <1>9, <3>1, <3>3
    <2> QED BY <1>6, <2>1, <2>2, <2>3, <2>4 DEF InTurn
  <1>17. Once'
    <2>1. ASSUME NEW n \in 1 .. lines PROVE Alone(n)'
      <3>1. InFile(n)' = InFile(n) /\ InInbox(n)' = InInbox(n)
        BY <1>10 DEF InFile, InInbox
      <3>2. InBatch(n) = {}
        <4>1. DOMAIN batch = {}
          OBVIOUS
        <4> QED BY <4>1 DEF InBatch
      <3>3. Lone(InFile(n), InInbox(n), InBurst(n), InBatch(n), {n} \cap emitted.of, {n} \cap gone)
        BY DEF HookInv, Once, Alone
      <3>4. CASE \E i \in 1 .. m : n \in pending[order[i]].of
        <4>1. PICK i \in 1 .. m : n \in pending[order[i]].of
          BY <3>4
        <4>2. order[i] \in InBurst(n) /\ order[i] \in SpoolKeys
          BY <1>1, <1>2, <4>1 DEF InBurst
        <4>3. /\ InFile(n) = {} /\ InInbox(n) = {} /\ InBurst(n) = {order[i]}
              /\ {n} \cap emitted.of = {} /\ {n} \cap gone = {}
          BY <3>3, <4>2 DEF Lone, Single
        <4>4. InBurst(n)' = {}
          <5>1. ASSUME NEW k \in SpoolKeys, n \in pending'[k].of PROVE FALSE
            <6>1. ~\E j \in 1 .. m : order[j] = k
              BY <1>9, <5>1
            <6>2. pending'[k] = pending[k] /\ k # order[i]
              BY <1>9, <6>1
            <6>3. k \in InBurst(n)
              BY <5>1, <6>2 DEF InBurst
            <6> QED BY <4>3, <6>2, <6>3
          <5> QED BY <5>1 DEF InBurst
        <4>5. InBatch(n)' = {i}
          <5>1. n \in batch'[i].of
            BY <1>5, <4>1
          <5>2. ASSUME NEW j \in 1 .. m, n \in batch'[j].of PROVE j = i
            <6>1. n \in pending[order[j]].of /\ order[j] \in SpoolKeys
              BY <1>1, <1>2, <1>5, <5>2
            <6>2. order[j] = order[i]
              BY <4>3, <6>1 DEF InBurst
            <6>3. ~(i < j) /\ ~(j < i)
              BY <1>1, <1>2, <6>2
            <6> QED BY <6>3
          <5> QED BY <1>6, <5>1, <5>2 DEF InBatch
        <4>6. PICK S : S = {i}
          OBVIOUS
        <4>7. Lone({}, {}, {}, S, {}, {})
          BY <4>6 DEF Lone, Single
        <4> QED BY <3>1, <4>3, <4>4, <4>5, <4>6, <4>7 DEF Alone
      <3>5. CASE ~\E i \in 1 .. m : n \in pending[order[i]].of
        <4>1. InBurst(n)' = InBurst(n)
          <5>1. ASSUME NEW k \in SpoolKeys PROVE n \in pending'[k].of <=> n \in pending[k].of
            <6>1. CASE \E i \in 1 .. m : order[i] = k
              BY <1>9, <3>5, <6>1
            <6>2. CASE ~\E i \in 1 .. m : order[i] = k
              BY <1>9, <6>2
            <6> QED BY <6>1, <6>2
          <5> QED BY <5>1 DEF InBurst
        <4>2. InBatch(n)' = {}
          BY <1>5, <1>6, <3>5 DEF InBatch
        <4> QED BY <3>1, <3>2, <3>3, <4>1, <4>2 DEF Alone
      <3> QED BY <3>4, <3>5
    <2> QED BY <2>1 DEF Once
  <1> QED BY <1>11, <1>12, <1>13, <1>14, <1>15, <1>16, <1>17 DEF HookInv

\* The inbox's first line is dropped, joins a burst or opens one.
LEMMA SubmitKeeps ==
  ASSUME HookInv, Submit
  PROVE  HookInv'
  <1>1. PICK z : z = inbox[1]
    OBVIOUS
  <1>2. PICK p : p = z.pane
    OBVIOUS
  <1>3. PICK k : k = <<p, z.hook>>
    OBVIOUS
  <1>3a. PICK b : b = Burst(k, z.line)
    OBVIOUS
  <1>4. /\ inbox # <<>> /\ inbox' = Tail(inbox)
        /\ UNCHANGED <<file, offset, lines, batch, emitted>>
        /\ \/ /\ gone' = gone \cup {z.line}
              /\ UNCHANGED <<pending, order>>
           \/ /\ pending' = [pending EXCEPT ![k] = b]
              /\ order' = IF IsPending(k) THEN order ELSE Append(order, k)
              /\ UNCHANGED gone
    BY <1>1, <1>2, <1>3, <1>3a, Zenon DEF Submit
  <1>5. PICK R : R = [line : Nat, hook : HookNames, pane : SpoolPanes]
    OBVIOUS
  <1>6. inbox \in Seq(R) /\ Len(inbox) \in Nat /\ DOMAIN inbox = 1 .. Len(inbox)
    BY <1>5, Entries DEF HookInv, InboxOK
  <1>7. /\ inbox' \in Seq(R) /\ Len(inbox') = Len(inbox) - 1
        /\ \A i \in 1 .. Len(inbox') : inbox'[i] = inbox[i + 1]
    BY <1>4, <1>6, HeadTailProperties
  <1>8. 1 \in 1 .. Len(inbox) /\ Len(inbox') \in Nat /\ DOMAIN inbox' = 1 .. Len(inbox')
    BY <1>4, <1>6, <1>7, EmptySeq, LenProperties
  <1>9. /\ lines \in Nat /\ z.line \in 1 .. lines /\ p \in SpoolPanes /\ z.hook \in HookNames
        /\ k \in SpoolKeys /\ k[1] = p /\ p = inbox[1].pane
    BY <1>1, <1>2, <1>3, <1>8, Entries DEF HookInv, FilesOK, SpoolKeys
  <1>10. \A i \in 1 .. Len(inbox') : i + 1 \in 1 .. Len(inbox) /\ i + 1 > 1
    BY <1>6, <1>7
  <1>11. \A q : Unread(q)' = Unread(q)
    BY <1>4 DEF Unread
  <1>12. FilesOK' /\ BatchOK'
    BY <1>4 DEF HookInv, FilesOK, BatchOK
  <1>13. InboxOK'
    <2>1. ASSUME NEW i \in 1 .. Len(inbox')
          PROVE  /\ inbox'[i].line \in 1 .. lines
                 /\ \A j \in 1 .. Len(inbox') : i < j => inbox'[i].line < inbox'[j].line
      <3>1. \A j \in 1 .. Len(inbox') : i < j => i + 1 < j + 1
        BY <1>7
      <3> QED BY <1>7, <1>10, <3>1 DEF HookInv, InboxOK
    <2>2. ASSUME NEW i \in 1 .. Len(inbox'), NEW x \in Unread(inbox[i].pane)' PROVE inbox'[i].line < x
      <3>1. inbox'[i] = inbox[i + 1] /\ i + 1 \in 1 .. Len(inbox)
        BY <1>7, <1>10
      <3>2. Unread(inbox[i].pane)' = Unread(inbox[i + 1].pane)
        BY <1>4, <3>1 DEF Unread
      <3> QED BY <3>1, <3>2, <2>2 DEF HookInv, InboxOK
    <2> QED BY <1>4, <1>5, <1>7, <2>1, <2>2 DEF InboxOK
  <1>14. ASSUME NEW q \in SpoolPanes, NEW x \in Coming(q)' PROVE x \in Coming(q) /\ (q = p => z.line < x)
    <2>1. x \in Unread(q) \/ \E i \in 1 .. Len(inbox') : inbox'[i].pane = q /\ x = inbox'[i].line
      BY <1>8, <1>11, <1>14 DEF Coming
    <2>2. CASE x \in Unread(q)
      <3>1. q = p => z.line < x
        BY <1>1, <1>8, <1>9, <2>2 DEF HookInv, InboxOK
      <3> QED BY <2>2, <3>1 DEF Coming
    <2>3. CASE \E i \in 1 .. Len(inbox') : inbox'[i].pane = q /\ x = inbox'[i].line
      <3>1. PICK i \in 1 .. Len(inbox') : inbox'[i].pane = q /\ x = inbox'[i].line
        BY <2>3
      <3>2. i + 1 \in 1 .. Len(inbox) /\ 1 < i + 1 /\ inbox[i + 1].pane = q /\ x = inbox[i + 1].line
        BY <1>7, <1>10, <3>1
      <3>3. z.line < x
        BY <1>1, <1>8, <3>2 DEF HookInv, InboxOK
      <3>4. x \in Coming(q)
        BY <1>6, <3>2 DEF Coming
      <3> QED BY <3>3, <3>4
    <2> QED BY <2>1, <2>2, <2>3
  <1>15. z.line \in Coming(p)
    BY <1>1, <1>6, <1>8, <1>9 DEF Coming
  <1>16. \A q, x : BehindBatch(q, x)' <=> BehindBatch(q, x)
    BY <1>4 DEF BehindBatch
  <1>17. ASSUME NEW n \in 1 .. lines
         PROVE  /\ InFile(n)' = InFile(n) /\ InBatch(n)' = InBatch(n)
                /\ n # z.line => /\ InInbox(n) = {} => InInbox(n)' = {}
                                 /\ Single(InInbox(n)) => Single(InInbox(n)')
                /\ n = z.line => /\ InInbox(n) = {1} /\ InInbox(n)' = {} /\ InFile(n) = {} /\ InBatch(n) = {}
                                 /\ InBurst(n) = {} /\ {n} \cap emitted.of = {} /\ {n} \cap gone = {}
    <2>1. InFile(n)' = InFile(n) /\ InBatch(n)' = InBatch(n)
      BY <1>4, <1>11 DEF InFile, InBatch
    <2>2. PICK I : I = InInbox(n)
      OBVIOUS
    <2>3. PICK J : J = InInbox(n)'
      OBVIOUS
    <2>4. I \subseteq Nat \ {0} /\ J \subseteq Nat \ {0}
      BY <1>6, <1>8, <2>2, <2>3 DEF InInbox
    <2>5. \A i \in Nat \ {0} : i \in J <=> i + 1 \in I
      <3>1. ASSUME NEW i \in Nat \ {0} PROVE i \in J <=> i + 1 \in I
        <4>1. i \in 1 .. Len(inbox') <=> i + 1 \in 1 .. Len(inbox)
          BY <1>6, <1>7
        <4>2. i \in J <=> i \in 1 .. Len(inbox') /\ inbox'[i].line = n
          BY <1>8, <2>3 DEF InInbox
        <4>3. i + 1 \in I <=> i + 1 \in 1 .. Len(inbox) /\ inbox[i + 1].line = n
          BY <1>6, <2>2 DEF InInbox
        <4> QED BY <1>7, <4>1, <4>2, <4>3
      <3> QED BY <3>1
    <2>6. 1 \in I <=> n = z.line
      BY <1>1, <1>6, <1>8, <2>2 DEF InInbox
    <2>7. n # z.line => (I = {} => J = {}) /\ (Single(I) => Single(J))
      BY <2>4, <2>5, <2>6, Shifted
    <2>8. I = {1} => J = {}
      BY <2>4, <2>5, Shifted
    <2>9. Lone(InFile(n), I, InBurst(n), InBatch(n), {n} \cap emitted.of, {n} \cap gone)
      BY <2>2 DEF HookInv, Once, Alone
    <2>10. n = z.line => /\ I = {1} /\ InFile(n) = {} /\ InBatch(n) = {} /\ InBurst(n) = {}
                         /\ {n} \cap emitted.of = {} /\ {n} \cap gone = {}
      BY <2>6, <2>9 DEF Lone, Single
    <2> QED BY <2>1, <2>2, <2>3, <2>7, <2>8, <2>10
  <1>18. CASE gone' = gone \cup {z.line} /\ UNCHANGED <<pending, order>>
    <2>1. BurstsOK' /\ OrderOK'
      BY <1>4, <1>18 DEF HookInv, BurstsOK, OrderOK, IsPending
    <2>2. GoneOK'
      BY <1>4, <1>9, <1>18 DEF HookInv, GoneOK
    <2>3. InTurn'
      <3>1. \A c \in SpoolKeys : IsPending(c)' <=> IsPending(c)
        BY <1>18 DEF IsPending
      <3> QED BY <1>4, <1>14, <1>16, <1>18, <3>1 DEF HookInv, InTurn
    <2>4. ASSUME NEW n \in 1 .. lines PROVE Alone(n)'
      <3>1. InBurst(n)' = InBurst(n)
        BY <1>18 DEF InBurst
      <3>2. CASE n = z.line
        <4>1. PICK S : S = {n}
          OBVIOUS
        <4>2. {n} \cap gone' = S
          BY <1>18, <3>2, <4>1
        <4>3. Lone({}, {}, {}, {}, {}, S)
          BY <4>1 DEF Lone, Single
        <4> QED BY <1>4, <1>17, <3>1, <3>2, <4>2, <4>3 DEF Alone
      <3>3. CASE n # z.line
        <4>1. {n} \cap gone' = {n} \cap gone
          BY <1>18, <3>3
        <4>2. Lone(InFile(n), InInbox(n), InBurst(n), InBatch(n), {n} \cap emitted.of, {n} \cap gone)
          BY DEF HookInv, Once, Alone
        <4>3. Lone(InFile(n), InInbox(n)', InBurst(n), InBatch(n), {n} \cap emitted.of, {n} \cap gone)
          BY <1>17, <3>3, <4>2 DEF Lone
        <4> QED BY <1>4, <1>17, <3>1, <4>1, <4>3 DEF Alone
      <3> QED BY <3>2, <3>3
    <2>5. Once'
      BY <1>4, <2>4 DEF Once
    <2> QED BY <1>12, <1>13, <2>1, <2>2, <2>3, <2>5 DEF HookInv
  <1>19. CASE /\ pending' = [pending EXCEPT ![k] = b]
              /\ order' = IF IsPending(k) THEN order ELSE Append(order, k)
              /\ UNCHANGED gone
    <2>1. PICK P : P = [of : SUBSET Nat, first : Nat, due : BOOLEAN]
      OBVIOUS
    <2>2. pending \in [SpoolKeys -> P] /\ pending[k] \in P
      BY <1>9, <2>1 DEF HookInv, BurstsOK
    <2>3. b = IF IsPending(k) THEN [pending[k] EXCEPT !.of = @ \cup {z.line}]
              ELSE [of |-> {z.line}, first |-> z.line, due |-> FALSE]
      BY <1>3a DEF Burst
    <2>4. pending' = [pending EXCEPT ![k] = b]
      BY <1>19
    <2>5. z.line \in Nat
      BY <1>9
    <2>6. b \in P
      BY <2>1, <2>2, <2>3, <2>5
    <2>7. /\ IsPending(k) => b.of = pending[k].of \cup {z.line} /\ b.first = pending[k].first
          /\ ~IsPending(k) => b.of = {z.line} /\ b.first = z.line /\ pending[k].of = {}
      <3>1. CASE IsPending(k)
        BY <2>1, <2>2, <2>3, <3>1
      <3>2. CASE ~IsPending(k)
        <4>1. b.of = {z.line} /\ b.first = z.line
          BY <2>3, <3>2
        <4>2. pending[k].of = {}
          BY <3>2 DEF IsPending
        <4> QED BY <3>2, <4>1, <4>2
      <3> QED BY <3>1, <3>2
    <2>8. b.of = pending[k].of \cup {z.line} /\ b.of # {}
      BY <2>7
    <2>9. /\ pending' \in [SpoolKeys -> P] /\ pending'[k] = b
          /\ \A c \in SpoolKeys : c # k => pending'[c] = pending[c]
      BY <1>9, <2>2, <2>4, <2>6
    <2>10. /\ IsPending(k)'
           /\ \A c \in SpoolKeys : c # k => (IsPending(c)' <=> IsPending(c))
      BY <2>8, <2>9 DEF IsPending
    <2>11. BurstsOK'
      <3>1. b.of \subseteq 1 .. lines /\ b.first <= lines
        <4>1. pending[k].of \subseteq 1 .. lines /\ pending[k].first <= lines
          BY <1>9 DEF HookInv, BurstsOK
        <4> QED BY <1>9, <2>7, <2>8, <4>1
      <3>2. \A c \in SpoolKeys : pending'[c].of \subseteq 1 .. lines /\ pending'[c].first <= lines
        BY <2>9, <3>1 DEF HookInv, BurstsOK
      <3> QED BY <1>4, <2>1, <2>9, <3>2 DEF BurstsOK
    <2>12. GoneOK'
      BY <1>4, <1>19 DEF HookInv, GoneOK
    <2>13. /\ order \in Seq(SpoolKeys) /\ Len(order) \in Nat
           /\ \A i \in 1 .. Len(order) : order[i] \in SpoolKeys /\ IsPending(order[i])
           /\ \A c \in SpoolKeys : IsPending(c) => \E i \in 1 .. Len(order) : order[i] = c
           /\ \A i, j \in 1 .. Len(order) :
                i < j => /\ order[i] # order[j]
                         /\ order[i][1] = order[j][1] => pending[order[i]].first < pending[order[j]].first
      BY Entries DEF HookInv, OrderOK
    <2>14. BehindBatch(p, z.line) /\ \A c \in SpoolKeys : IsPending(c) /\ c[1] = p => pending[c].first < z.line
      BY <1>9, <1>15 DEF HookInv, InTurn
    <2>15. OrderOK'
      <3>1. CASE IsPending(k)
        <4>1. order' = order /\ \A c \in SpoolKeys : pending'[c].first = pending[c].first
          BY <1>19, <2>7, <2>9, <3>1
        <4>2. \A c \in SpoolKeys : IsPending(c)' <=> IsPending(c)
          BY <2>10, <3>1
        <4>3. \A i \in 1 .. Len(order) : IsPending(order[i])'
          BY <2>13, <4>1, <4>2 DEF IsPending
        <4>4. \A i \in 1 .. Len(order) : pending'[order[i]].first = pending[order[i]].first
          BY <2>13, <4>1
        <4>5. \A c \in SpoolKeys : IsPending(c)' => \E i \in 1 .. Len(order) : order[i] = c
          BY <2>13, <4>2
        <4>6. \A i, j \in 1 .. Len(order) :
                i < j => /\ order[i] # order[j]
                         /\ order[i][1] = order[j][1] => pending'[order[i]].first < pending'[order[j]].first
          BY <2>13, <4>4
        <4>7. \A i \in 1 .. Len(order') : IsPending(order[i])'
          BY <4>1, <4>3
        <4> QED BY <2>13, <4>1, <4>5, <4>6, <4>7 DEF OrderOK
      <3>2. CASE ~IsPending(k)
        <4>1. /\ order' \in Seq(SpoolKeys) /\ Len(order') = Len(order) + 1
              /\ \A i \in 1 .. Len(order) : order'[i] = order[i]
              /\ order'[Len(order) + 1] = k
          BY <1>9, <1>19, <2>13, <3>2, AppendProperties
        <4>2. \A i \in 1 .. Len(order) : order[i] # k
          BY <2>13, <3>2
        <4>3. \A i \in 1 .. Len(order) : pending'[order[i]] = pending[order[i]]
          BY <2>9, <2>13, <4>2
        <4>4. \A i \in 1 .. Len(order') : i \in 1 .. Len(order) \/ i = Len(order) + 1
          BY <2>13, <4>1
        <4>5. ASSUME NEW i \in 1 .. Len(order') PROVE pending'[order'[i]].of # {}
          <5>1. CASE i \in 1 .. Len(order)
            BY <2>13, <4>1, <4>3, <5>1 DEF IsPending
          <5>2. CASE i = Len(order) + 1
            BY <2>8, <2>9, <4>1, <5>2
          <5> QED BY <4>4, <5>1, <5>2
        <4>6. \A i \in 1 .. Len(order') : IsPending(order[i])'
          BY <4>5 DEF IsPending
        <4>7. ASSUME NEW c \in SpoolKeys, IsPending(c)' PROVE \E i \in 1 .. Len(order') : order'[i] = c
          <5>1. CASE c = k
            <6>1. Len(order) + 1 \in 1 .. Len(order')
              BY <2>13, <4>1
            <6> QED BY <4>1, <5>1, <6>1
          <5>2. CASE c # k
            <6>1. PICK i \in 1 .. Len(order) : order[i] = c
              BY <2>10, <2>13, <4>7, <5>2
            <6>2. i \in 1 .. Len(order')
              BY <2>13, <4>1
            <6> QED BY <4>1, <6>1, <6>2
          <5> QED BY <5>1, <5>2
        <4>8. ASSUME NEW i \in 1 .. Len(order'), NEW j \in 1 .. Len(order'), i < j
              PROVE  /\ order'[i] # order'[j]
                     /\ order'[i][1] = order'[j][1] => pending'[order'[i]].first < pending'[order'[j]].first
          <5>1. i \in 1 .. Len(order) /\ order'[i] = order[i] /\ pending'[order'[i]] = pending[order[i]]
            BY <2>13, <4>1, <4>3, <4>8
          <5>2. CASE j = Len(order) + 1
            <6>1. order'[j] = k /\ pending'[order'[j]].first = z.line
              BY <2>7, <2>9, <3>2, <4>1, <5>2
            <6>2. order[i][1] = p => pending[order[i]].first < z.line
              BY <2>13, <2>14, <5>1
            <6> QED BY <1>9, <4>2, <5>1, <6>1, <6>2
          <5>3. CASE j # Len(order) + 1
            <6>1. j \in 1 .. Len(order) /\ order'[j] = order[j] /\ pending'[order'[j]] = pending[order[j]]
              BY <4>1, <4>3, <4>4, <5>3
            <6> QED BY <2>13, <4>8, <5>1, <6>1
          <5> QED BY <5>2, <5>3
        <4> QED BY <4>1, <4>6, <4>7, <4>8 DEF OrderOK
      <3> QED BY <3>1, <3>2
    <2>16. InTurn'
      <3>1. ASSUME NEW c \in SpoolKeys, IsPending(c)' PROVE BehindBatch(c[1], pending'[c].first)
        <4>1. CASE c = k /\ ~IsPending(k)
          BY <1>9, <2>7, <2>9, <2>14, <4>1
        <4>2. CASE c = k /\ IsPending(k)
          <5>1. pending'[c].first = pending[c].first
            BY <2>7, <2>9, <4>2
          <5> QED BY <4>2, <5>1 DEF HookInv, InTurn
        <4>3. CASE c # k
          BY <2>9, <2>10, <3>1, <4>3 DEF HookInv, InTurn
        <4> QED BY <4>1, <4>2, <4>3
      <3>2. ASSUME NEW q \in SpoolPanes, NEW x \in Coming(q)', NEW c \in SpoolKeys, IsPending(c)', c[1] = q
            PROVE  pending'[c].first < x
        <4>1. x \in Coming(q) /\ (q = p => z.line < x)
          BY <1>14
        <4>2. CASE c = k /\ ~IsPending(k)
          BY <1>9, <2>7, <2>9, <3>2, <4>1, <4>2
        <4>3. CASE c = k /\ IsPending(k)
          <5>1. pending'[c].first = pending[c].first
            BY <2>7, <2>9, <4>3
          <5> QED BY <3>2, <4>1, <4>3, <5>1 DEF HookInv, InTurn
        <4>4. CASE c # k
          BY <2>9, <2>10, <3>2, <4>1, <4>4 DEF HookInv, InTurn
        <4> QED BY <4>2, <4>3, <4>4
      <3>3. \A i \in 1 .. Len(batch) : emitted.last[batch[i].key[1]] < batch[i].first
        BY DEF HookInv, InTurn
      <3>4. \A q \in SpoolPanes : \A x \in Coming(q)' : BehindBatch(q, x)'
        BY <1>14, <1>16 DEF HookInv, InTurn
      <3>5. \A c \in SpoolKeys : IsPending(c)' => BehindBatch(c[1], pending[c].first)'
        BY <1>4, <3>1 DEF BehindBatch
      <3> QED BY <1>4, <3>2, <3>3, <3>4, <3>5 DEF InTurn
    <2>17. ASSUME NEW n \in 1 .. lines PROVE Alone(n)'
      <3>1. CASE n = z.line
        <4>1. InBurst(n)' = {k}
          BY <1>9, <1>17, <2>8, <2>9, <3>1 DEF InBurst
        <4>2. PICK S : S = {k}
          OBVIOUS
        <4>3. Lone({}, {}, S, {}, {}, {})
          BY <4>2 DEF Lone, Single
        <4> QED BY <1>4, <1>17, <1>19, <3>1, <4>1, <4>2, <4>3 DEF Alone
      <3>2. CASE n # z.line
        <4>1. InBurst(n)' = InBurst(n)
          <5>1. ASSUME NEW c \in SpoolKeys PROVE n \in pending'[c].of <=> n \in pending[c].of
            BY <2>8, <2>9, <3>2
          <5> QED BY <5>1 DEF InBurst
        <4>2. Lone(InFile(n), InInbox(n), InBurst(n), InBatch(n), {n} \cap emitted.of, {n} \cap gone)
          BY DEF HookInv, Once, Alone
        <4>3. Lone(InFile(n), InInbox(n)', InBurst(n), InBatch(n), {n} \cap emitted.of, {n} \cap gone)
          BY <1>17, <3>2, <4>2 DEF Lone
        <4> QED BY <1>4, <1>17, <1>19, <4>1, <4>3 DEF Alone
      <3> QED BY <3>1, <3>2
    <2>18. Once'
      BY <1>4, <2>17 DEF Once
    <2> QED BY <1>12, <1>13, <2>11, <2>12, <2>15, <2>16, <2>18 DEF HookInv
  <1> QED BY <1>4, <1>18, <1>19

\* The first held burst is emitted.
LEMMA EmitKeeps ==
  ASSUME HookInv, Emit
  PROVE  HookInv'
  <1>1. PICK z : z = batch[1]
    OBVIOUS
  <1>2. PICK p : p = z.key[1]
    OBVIOUS
  <1>3. /\ batch # <<>> /\ batch' = Tail(batch)
        /\ emitted' = [emitted EXCEPT !.of = @ \cup z.of, !.last[p] = z.first]
        /\ UNCHANGED <<file, offset, lines, inbox, pending, order, gone>>
    BY <1>1, <1>2 DEF Emit
  <1>4. PICK R : R = [key : SpoolKeys, of : SUBSET Nat, first : Nat]
    OBVIOUS
  <1>5. batch \in Seq(R) /\ Len(batch) \in Nat /\ DOMAIN batch = 1 .. Len(batch)
    BY <1>4, Entries DEF HookInv, BatchOK
  <1>6. /\ batch' \in Seq(R) /\ Len(batch') = Len(batch) - 1
        /\ \A i \in 1 .. Len(batch') : batch'[i] = batch[i + 1]
    BY <1>3, <1>5, HeadTailProperties
  <1>7. 1 \in 1 .. Len(batch) /\ Len(batch') \in Nat /\ DOMAIN batch' = 1 .. Len(batch')
    BY <1>3, <1>5, <1>6, EmptySeq, LenProperties
  <1>8. \A i \in 1 .. Len(batch') : i + 1 \in 1 .. Len(batch) /\ 1 < i + 1
    BY <1>5, <1>6
  <1>9. /\ lines \in Nat /\ p \in SpoolPanes /\ z.of \subseteq 1 .. lines
        /\ z.first \in Nat /\ z.first <= lines
    BY <1>1, <1>2, <1>7, Entries DEF HookInv, FilesOK
  <1>10. PICK g : g = [emitted.last EXCEPT ![p] = z.first]
    OBVIOUS
  <1>11. emitted \in [of : SUBSET Nat, last : [SpoolPanes -> Nat]]
    BY DEF HookInv, GoneOK
  <1>12. /\ emitted' \in [of : SUBSET Nat, last : [SpoolPanes -> Nat]]
         /\ emitted'.of = emitted.of \cup z.of /\ emitted'.last = g
    <2>1. z.of \in SUBSET Nat
      BY <1>9
    <2>2. g \in [SpoolPanes -> Nat]
      BY <1>9, <1>10, <1>11
    <2>3. emitted' = [emitted EXCEPT !.of = emitted.of \cup z.of, !.last = g]
      BY <1>3, <1>10
    <2> QED BY <1>11, <2>1, <2>2, <2>3
  <1>13. emitted'.last[p] = z.first /\ \A q \in SpoolPanes : q # p => emitted'.last[q] = emitted.last[q]
    BY <1>9, <1>10, <1>11, <1>12
  <1>14. FilesOK' /\ InboxOK' /\ BurstsOK' /\ OrderOK'
    <2>1. FilesOK' /\ BurstsOK'
      BY <1>3 DEF HookInv, FilesOK, BurstsOK
    <2>2. InboxOK'
      BY <1>3 DEF HookInv, InboxOK, Unread
    <2>3. OrderOK'
      BY <1>3 DEF HookInv, OrderOK, IsPending
    <2> QED BY <2>1, <2>2, <2>3
  <1>15. BatchOK'
    <2>1. \A i \in 1 .. Len(batch') : batch'[i].of \subseteq 1 .. lines /\ batch'[i].first <= lines
      BY <1>6, <1>8 DEF HookInv, BatchOK
    <2>2. ASSUME NEW i \in 1 .. Len(batch'), NEW j \in 1 .. Len(batch'), i < j, batch'[i].key[1] = batch'[j].key[1]
          PROVE  batch'[i].first < batch'[j].first
      <3>1. i + 1 < j + 1
        BY <1>6, <2>2
      <3> QED BY <1>6, <1>8, <2>2, <3>1 DEF HookInv, BatchOK
    <2> QED BY <1>3, <1>4, <1>6, <2>1, <2>2 DEF BatchOK
  <1>16. GoneOK'
    <2>1. \A q \in SpoolPanes : emitted'.last[q] <= lines
      BY <1>9, <1>13 DEF HookInv, GoneOK
    <2> QED BY <1>3, <1>9, <1>12, <2>1 DEF HookInv, GoneOK
  <1>17. \A q \in SpoolPanes : \A x : BehindBatch(q, x) => BehindBatch(q, x)'
    <2>1. ASSUME NEW q \in SpoolPanes, NEW x, BehindBatch(q, x) PROVE BehindBatch(q, x)'
      <3>1. emitted'.last[q] < x
        <4>1. q = p => z.first < x
          BY <1>1, <1>2, <1>7, <2>1 DEF BehindBatch
        <4> QED BY <1>13, <2>1, <4>1 DEF BehindBatch
      <3>2. \A i \in 1 .. Len(batch') : batch'[i].key[1] = q => batch'[i].first < x
        BY <1>6, <1>8, <2>1 DEF BehindBatch
      <3> QED BY <3>1, <3>2 DEF BehindBatch
    <2> QED BY <2>1
  <1>18. InTurn'
    <2>1. ASSUME NEW i \in 1 .. Len(batch') PROVE emitted'.last[batch'[i].key[1]] < batch'[i].first
      <3>1. batch'[i] = batch[i + 1] /\ i + 1 \in 1 .. Len(batch) /\ 1 < i + 1 /\ batch[i + 1].key[1] \in SpoolPanes
        BY <1>6, <1>8, Entries
      <3>2. CASE batch[i + 1].key[1] = p
        <4>1. z.first < batch[i + 1].first
          BY <1>1, <1>2, <1>7, <3>1, <3>2 DEF HookInv, BatchOK
        <4> QED BY <1>13, <3>1, <3>2, <4>1
      <3>3. CASE batch[i + 1].key[1] # p
        <4>1. emitted.last[batch[i + 1].key[1]] < batch[i + 1].first
          BY <3>1 DEF HookInv, InTurn
        <4> QED BY <1>13, <3>1, <3>3, <4>1
      <3> QED BY <3>2, <3>3
    <2>2. \A k \in SpoolKeys : IsPending(k)' <=> IsPending(k)
      BY <1>3 DEF IsPending
    <2>3. \A q \in SpoolPanes : Coming(q)' = Coming(q)
      BY <1>3 DEF Coming, Unread
    <2>4. \A k \in SpoolKeys : k[1] \in SpoolPanes
      BY Entries
    <2>5. ASSUME NEW k \in SpoolKeys, IsPending(k) PROVE BehindBatch(k[1], pending[k].first)'
      <3>1. PICK q \in SpoolPanes : q = k[1]
        BY <2>4
      <3>2. PICK x : x = pending[k].first
        OBVIOUS
      <3>3. BehindBatch(q, x)'
        BY <1>17, <2>5, <3>1, <3>2 DEF HookInv, InTurn
      <3> QED BY <1>3, <3>1, <3>2, <3>3 DEF BehindBatch
    <2>6. \A q \in SpoolPanes : \A x \in Coming(q) :
            BehindBatch(q, x)' /\ \A k \in SpoolKeys : IsPending(k) /\ k[1] = q => pending[k].first < x
      BY <1>17 DEF HookInv, InTurn
    <2> QED BY <1>3, <2>1, <2>2, <2>3, <2>5, <2>6 DEF InTurn
  <1>19. ASSUME NEW n \in 1 .. lines PROVE Alone(n)'
    <2>1. InFile(n)' = InFile(n) /\ InInbox(n)' = InInbox(n) /\ InBurst(n)' = InBurst(n)
      BY <1>3 DEF InFile, InInbox, InBurst, Unread
    <2>2. PICK I : I = InBatch(n)
      OBVIOUS
    <2>3. PICK J : J = InBatch(n)'
      OBVIOUS
    <2>4. I \subseteq Nat \ {0} /\ J \subseteq Nat \ {0}
      BY <1>5, <1>7, <2>2, <2>3 DEF InBatch
    <2>5. \A i \in Nat \ {0} : i \in J <=> i + 1 \in I
      <3>1. ASSUME NEW i \in Nat \ {0} PROVE i \in J <=> i + 1 \in I
        <4>1. i \in 1 .. Len(batch') <=> i + 1 \in 1 .. Len(batch)
          BY <1>5, <1>6
        <4>2. i \in J <=> i \in 1 .. Len(batch') /\ n \in batch'[i].of
          BY <1>7, <2>3 DEF InBatch
        <4>3. i + 1 \in I <=> i + 1 \in 1 .. Len(batch) /\ n \in batch[i + 1].of
          BY <1>5, <2>2 DEF InBatch
        <4> QED BY <1>6, <4>1, <4>2, <4>3
      <3> QED BY <3>1
    <2>6. 1 \in I <=> n \in z.of
      BY <1>1, <1>5, <1>7, <2>2 DEF InBatch
    <2>7. n \notin z.of => (I = {} => J = {}) /\ (Single(I) => Single(J))
      BY <2>4, <2>5, <2>6, Shifted
    <2>8. I = {1} => J = {}
      BY <2>4, <2>5, Shifted
    <2>9. Lone(InFile(n), InInbox(n), InBurst(n), I, {n} \cap emitted.of, {n} \cap gone)
      BY <2>2 DEF HookInv, Once, Alone
    <2>10. CASE n \in z.of
      <3>1. I = {1} /\ InFile(n) = {} /\ InInbox(n) = {} /\ InBurst(n) = {} /\ {n} \cap gone = {}
        BY <2>6, <2>9, <2>10 DEF Lone, Single
      <3>2. PICK S : S = {n}
        OBVIOUS
      <3>3. {n} \cap emitted'.of = S
        BY <1>12, <2>10, <3>2
      <3>4. Lone({}, {}, {}, {}, S, {})
        BY <3>2 DEF Lone, Single
      <3> QED BY <1>3, <2>1, <2>3, <2>8, <3>1, <3>3, <3>4 DEF Alone
    <2>11. CASE n \notin z.of
      <3>1. {n} \cap emitted'.of = {n} \cap emitted.of
        BY <1>12, <2>11
      <3>2. Lone(InFile(n), InInbox(n), InBurst(n), J, {n} \cap emitted.of, {n} \cap gone)
        BY <2>7, <2>9, <2>11 DEF Lone
      <3> QED BY <1>3, <2>1, <2>3, <3>1, <3>2 DEF Alone
    <2> QED BY <2>10, <2>11
  <1>20. Once'
    BY <1>3, <1>19 DEF Once
  <1> QED BY <1>14, <1>15, <1>16, <1>18, <1>20 DEF HookInv

\* A destroyed pane's bursts are dropped.
LEMMA CancelKeeps ==
  ASSUME HookInv, NEW p \in SpoolPanes, Cancel(p)
  PROVE  HookInv'
  <1>1. PICK D : D = UNION {pending[<<p, h>>].of : h \in HookNames}
    OBVIOUS
  <1>2. /\ gone' = gone \cup D
        /\ pending' = [k \in SpoolKeys |-> IF k[1] = p THEN [of |-> {}, first |-> 0, due |-> FALSE] ELSE pending[k]]
        /\ order' = Uncancelled(p)
        /\ UNCHANGED <<file, offset, lines, inbox, batch, emitted>>
    BY <1>1 DEF Cancel, NoPending
  <1>3. \A n : n \in D <=> \E k \in SpoolKeys : k[1] = p /\ n \in pending[k].of
    <2>1. ASSUME NEW h \in HookNames PROVE <<p, h>> \in SpoolKeys /\ <<p, h>>[1] = p
      BY DEF SpoolKeys
    <2>2. ASSUME NEW k \in SpoolKeys, k[1] = p PROVE \E h \in HookNames : k = <<p, h>>
      BY <2>2 DEF SpoolKeys
    <2> QED BY <1>1, <2>1, <2>2
  <1>4. \A k \in SpoolKeys : pending[k] \in [of : SUBSET Nat, first : Nat, due : BOOLEAN]
    BY DEF HookInv, BurstsOK
  <1>5. ASSUME NEW k \in SpoolKeys
        PROVE  /\ pending'[k] \in [of : SUBSET Nat, first : Nat, due : BOOLEAN]
               /\ k[1] = p => pending'[k].of = {} /\ pending'[k].first = 0
               /\ k[1] # p => pending'[k] = pending[k]
               /\ IsPending(k)' <=> IsPending(k) /\ k[1] # p
    <2>1. CASE k[1] = p
      <3>1. pending'[k] = [of |-> {}, first |-> 0, due |-> FALSE]
        BY <1>2, <2>1
      <3>2. pending'[k].of = {} /\ pending'[k].first = 0
        BY <3>1
      <3>3. ~IsPending(k)'
        BY <3>2 DEF IsPending
      <3>4. pending'[k] \in [of : SUBSET Nat, first : Nat, due : BOOLEAN]
        BY <3>1
      <3> QED BY <2>1, <3>2, <3>3, <3>4
    <2>2. CASE k[1] # p
      <3>1. pending'[k] = pending[k]
        BY <1>2, <2>2
      <3>2. IsPending(k)' <=> IsPending(k)
        BY <3>1 DEF IsPending
      <3> QED BY <1>4, <2>2, <3>1, <3>2
    <2> QED BY <2>1, <2>2
  <1>6. /\ order \in Seq(SpoolKeys) /\ Len(order) \in Nat
        /\ \A i \in 1 .. Len(order) : order[i] \in SpoolKeys /\ IsPending(order[i])
        /\ \A k \in SpoolKeys : IsPending(k) => \E i \in 1 .. Len(order) : order[i] = k
        /\ \A i, j \in 1 .. Len(order) :
             i < j => /\ order[i] # order[j]
                      /\ order[i][1] = order[j][1] => pending[order[i]].first < pending[order[j]].first
    BY Entries DEF HookInv, OrderOK
  <1>7. PICK s : s = Uncancelled(p)
    OBVIOUS
  <1>8. /\ order' = s /\ s \in Seq(SpoolKeys)
        /\ \A a \in 1 .. Len(s) : \E c \in 1 .. Len(order) : s[a] = order[c] /\ order[c][1] # p
        /\ \A c \in 1 .. Len(order) : order[c][1] # p => \E a \in 1 .. Len(s) : s[a] = order[c]
        /\ \A a, b \in 1 .. Len(s) :
             a < b => \E c, d \in 1 .. Len(order) : c < d /\ s[a] = order[c] /\ s[b] = order[d]
    <2>1. Picked(Uncancelled(p), Len(order), p)
      BY <1>6, UncancelledIs
    <2>2. Picked(s, Len(order), p)
      BY <1>7, <2>1
    <2>3. order' = s
      BY <1>2, <1>7
    <2> QED BY <2>2, <2>3 DEF Picked
  <1>9. ASSUME NEW a \in 1 .. Len(s)
        PROVE  s[a] \in SpoolKeys /\ s[a][1] # p /\ IsPending(s[a]) /\ pending'[s[a]] = pending[s[a]]
    <2>1. PICK c \in 1 .. Len(order) : s[a] = order[c] /\ order[c][1] # p
      BY <1>8
    <2>2. order[c] \in SpoolKeys /\ IsPending(order[c])
      BY <1>6
    <2>3. pending'[order[c]] = pending[order[c]]
      BY <1>5, <2>1, <2>2
    <2> QED BY <2>1, <2>2, <2>3 DEF IsPending
  <1>10. FilesOK' /\ InboxOK' /\ BatchOK'
    <2>1. FilesOK' /\ BatchOK'
      BY <1>2 DEF HookInv, FilesOK, BatchOK
    <2>2. InboxOK'
      BY <1>2 DEF HookInv, InboxOK, Unread
    <2> QED BY <2>1, <2>2
  <1>11. BurstsOK'
    <2>1. pending' = [k \in SpoolKeys |-> pending'[k]]
      BY <1>2
    <2>2. pending' \in [SpoolKeys -> [of : SUBSET Nat, first : Nat, due : BOOLEAN]]
      BY <1>5, <2>1
    <2>3. ASSUME NEW k \in SpoolKeys PROVE pending'[k].of \subseteq 1 .. lines /\ pending'[k].first <= lines
      <3>1. lines \in Nat /\ pending[k].of \subseteq 1 .. lines /\ pending[k].first <= lines
        BY Entries DEF HookInv, FilesOK
      <3>2. CASE k[1] = p
        <4>1. pending'[k].of = {} /\ pending'[k].first = 0
          BY <1>5, <3>2
        <4> QED BY <3>1, <4>1
      <3>3. CASE k[1] # p
        <4>1. pending'[k] = pending[k]
          BY <1>5, <3>3
        <4> QED BY <3>1, <4>1
      <3> QED BY <3>2, <3>3
    <2> QED BY <1>2, <2>2, <2>3 DEF BurstsOK
  <1>12. OrderOK'
    <2>1. \A a \in 1 .. Len(s) : pending'[s[a]].of # {}
      BY <1>9 DEF IsPending
    <2>2. ASSUME NEW k \in SpoolKeys, IsPending(k)' PROVE \E a \in 1 .. Len(s) : s[a] = k
      <3>1. IsPending(k) /\ k[1] # p
        BY <1>5, <2>2
      <3> QED BY <1>6, <1>8, <3>1
    <2>3. ASSUME NEW a \in 1 .. Len(s), NEW b \in 1 .. Len(s), a < b
          PROVE  s[a] # s[b] /\ (s[a][1] = s[b][1] => pending'[s[a]].first < pending'[s[b]].first)
      <3>1. PICK c, d \in 1 .. Len(order) : c < d /\ s[a] = order[c] /\ s[b] = order[d]
        BY <1>8, <2>3
      <3> QED BY <1>6, <1>9, <3>1
    <2>4. \A a \in 1 .. Len(order') : IsPending(order[a])'
      BY <1>8, <2>1 DEF IsPending
    <2> QED BY <1>8, <2>2, <2>3, <2>4 DEF OrderOK
  <1>13. GoneOK'
    <2>1. D \subseteq 1 .. lines
      BY <1>3, Entries
    <2> QED BY <1>2, <2>1 DEF HookInv, GoneOK
  <1>14. InTurn'
    <2>1. \A q, x : BehindBatch(q, x)' <=> BehindBatch(q, x)
      BY <1>2 DEF BehindBatch
    <2>2. \A q \in SpoolPanes : Coming(q)' = Coming(q)
      BY <1>2 DEF Coming, Unread
    <2>3. \A k \in SpoolKeys : IsPending(k)' => IsPending(k) /\ pending'[k] = pending[k]
      BY <1>5
    <2>4. \A k \in SpoolKeys : IsPending(k)' => BehindBatch(k[1], pending[k].first)'
      BY <1>2, <2>3 DEF HookInv, InTurn, BehindBatch
    <2>5. \A q \in SpoolPanes : \A x \in Coming(q)' :
            BehindBatch(q, x)' /\ \A k \in SpoolKeys : IsPending(k)' /\ k[1] = q => pending'[k].first < x
      BY <2>1, <2>2, <2>3 DEF HookInv, InTurn
    <2>6. \A i \in 1 .. Len(batch) : emitted.last[batch[i].key[1]] < batch[i].first
      BY DEF HookInv, InTurn
    <2> QED BY <1>2, <2>4, <2>5, <2>6 DEF InTurn
  <1>15. ASSUME NEW n \in 1 .. lines PROVE Alone(n)'
    <2>1. InFile(n)' = InFile(n) /\ InInbox(n)' = InInbox(n) /\ InBatch(n)' = InBatch(n)
      BY <1>2 DEF InFile, InInbox, InBatch, Unread
    <2>2. Lone(InFile(n), InInbox(n), InBurst(n), InBatch(n), {n} \cap emitted.of, {n} \cap gone)
      BY DEF HookInv, Once, Alone
    <2>3. CASE n \in D
      <3>1. PICK k \in SpoolKeys : k[1] = p /\ n \in pending[k].of
        BY <1>3, <2>3
      <3>2. k \in InBurst(n)
        BY <3>1 DEF InBurst
      <3>3. /\ InFile(n) = {} /\ InInbox(n) = {} /\ InBurst(n) = {k} /\ InBatch(n) = {}
            /\ {n} \cap emitted.of = {}
        BY <2>2, <3>2 DEF Lone, Single
      <3>4. InBurst(n)' = {}
        <4>1. ASSUME NEW c \in SpoolKeys, n \in pending'[c].of PROVE FALSE
          <5>1. c[1] # p /\ pending'[c] = pending[c]
            BY <1>5, <4>1
          <5>2. c \in InBurst(n)
            BY <4>1, <5>1 DEF InBurst
          <5> QED BY <3>1, <3>3, <5>1, <5>2
        <4> QED BY <4>1 DEF InBurst
      <3>5. PICK S : S = {n}
        OBVIOUS
      <3>6. {n} \cap gone' = S
        BY <1>2, <2>3, <3>5
      <3>7. Lone({}, {}, {}, {}, {}, S)
        BY <3>5 DEF Lone, Single
      <3> QED BY <1>2, <2>1, <3>3, <3>4, <3>6, <3>7 DEF Alone
    <2>4. CASE n \notin D
      <3>1. {n} \cap gone' = {n} \cap gone
        BY <1>2, <2>4
      <3>2. InBurst(n)' = InBurst(n)
        <4>1. ASSUME NEW c \in SpoolKeys PROVE n \in pending'[c].of <=> n \in pending[c].of
          <5>1. CASE c[1] = p
            BY <1>3, <1>5, <2>4, <5>1
          <5>2. CASE c[1] # p
            BY <1>5, <5>2
          <5> QED BY <5>1, <5>2
        <4> QED BY <4>1 DEF InBurst
      <3> QED BY <1>2, <2>1, <2>2, <3>1, <3>2 DEF Alone
    <2> QED BY <2>3, <2>4
  <1>16. Once'
    BY <1>2, <1>15 DEF Once
  <1> QED BY <1>10, <1>11, <1>12, <1>13, <1>14, <1>16 DEF HookInv

\* Every step.
LEMMA HookKept == HookInv /\ [HookNext]_hookVars => HookInv'
  <1> SUFFICES ASSUME HookInv, [HookNext]_hookVars PROVE HookInv'
    OBVIOUS
  <1>1. ASSUME NEW p \in SpoolPanes, NEW h \in HookNames, AppendLine(p, h) PROVE HookInv'
    BY <1>1, AppendKeeps
  <1>2. ASSUME NEW p \in SpoolPanes, AppendTorn(p) PROVE HookInv'
    BY <1>2, TornKeeps
  <1>3. ASSUME NEW p \in SpoolPanes, ReadPaneFile(p) PROVE HookInv'
    BY <1>3, SpoolReadKeeps
  <1>4. ASSUME NEW p \in SpoolPanes, StartRotate(p) PROVE HookInv'
    BY <1>4, StillKeeps DEF StartRotate
  <1>5. ASSUME NEW p \in SpoolPanes, RotateSpool(p) PROVE HookInv'
    BY <1>5, RotateKeeps
  <1>6. ASSUME NEW p \in SpoolPanes, Cancel(p) PROVE HookInv'
    BY <1>6, CancelKeeps
  <1>7. ASSUME NEW k \in SpoolKeys, Flush(k) PROVE HookInv'
    BY <1>7, FlushKeeps
  <1>8. CASE WindowPasses
    BY <1>8, StillKeeps DEF WindowPasses
  <1>9. CASE Submit
    BY <1>9, SubmitKeeps
  <1>10. CASE DrainDue
    <2>1. PICK m : m = DueFirst
      OBVIOUS
    <2>2. m \in 0 .. Len(order)
      BY <2>1, DueFirstIs DEF HookInv, OrderOK
    <2>3. batch = <<>> /\ TakeFirst(m) /\ UNCHANGED <<file, offset, lines, inbox, emitted, gone>>
      BY <1>10, <2>1 DEF DrainDue
    <2> QED BY <2>2, <2>3, SpoolTakeKeeps
  <1>11. CASE Emit
    BY <1>11, EmitKeeps
  <1>12. CASE FlushAll
    <2>1. PICK m : m = Len(order)
      OBVIOUS
    <2>2. m \in 0 .. Len(order)
      BY <2>1, Entries
    <2>3. batch = <<>> /\ TakeFirst(m) /\ UNCHANGED <<file, offset, lines, inbox, emitted, gone>>
      BY <1>12, <2>1 DEF FlushAll
    <2> QED BY <2>2, <2>3, SpoolTakeKeeps
  <1>13. CASE UNCHANGED hookVars
    BY <1>13, StillKeeps DEF hookVars
  <1> QED BY <1>1, <1>2, <1>3, <1>4, <1>5, <1>6, <1>7, <1>8, <1>9, <1>10, <1>11, <1>12, <1>13 DEF HookNext

\* Every line a hook wrote is in exactly one place, and a pane's bursts are
\* emitted in the order their first lines were written (LinesOnceInOrder), for
\* any panes, hooks, rate limit, rotation threshold and number of lines.
THEOREM LinesAreKept == HookSpec => []LinesOnceInOrder
  <1>1. HookInv => LinesOnceInOrder
    <2> SUFFICES ASSUME HookInv PROVE LinesOnceInOrder
      OBVIOUS
    <2>1. \A n \in 1 .. lines : Cardinality(Places(n)) = 1
      <3>1. ASSUME NEW n \in 1 .. lines PROVE Cardinality(Places(n)) = 1
        <4>1. Lone(InFile(n), InInbox(n), InBurst(n), InBatch(n), {n} \cap emitted.of, {n} \cap gone)
          BY DEF HookInv, Once, Alone
        <4> QED BY <4>1, OneLone DEF Places
      <3> QED BY <3>1
    <2>2. DOMAIN batch = 1 .. Len(batch)
      BY Entries
    <2>3. \A i \in 1 .. Len(batch) : batch[i].first > emitted.last[batch[i].key[1]]
      <3>1. \A i \in 1 .. Len(batch) : batch[i].first \in Nat /\ emitted.last[batch[i].key[1]] \in Nat
        BY Entries
      <3> QED BY <3>1 DEF HookInv, InTurn
    <2> QED BY <2>1, <2>2, <2>3 DEF LinesOnceInOrder, HookInv, BatchOK
  <1> QED BY HookStarts, HookKept, <1>1, PTL DEF HookSpec
=============================================================================

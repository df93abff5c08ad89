------------------------------- MODULE Update -------------------------------
(***************************************************************************)
(* Self-update: the daemon stages a release (internal/update/stage.go,     *)
(* internal/daemon/update.go) and launched clients swap the installed      *)
(* quil and quild for the staged pair (cmd/quil/update_apply.go).  Only    *)
(* files tie them together: the staging directories and apply.lock.        *)
(***************************************************************************)
EXTENDS Integers, FiniteSets

CONSTANTS Clients,    \* quil processes that may apply
          MaxRelease, \* the last release; the installed pair starts at 1
          MaxFaults   \* bound: failing calls and kills

ASSUME UpdateAssumption == MaxRelease \in Nat /\ "unlocked" \notin Clients

VARIABLES binFiles,      \* the installed quil and quild: a version, Torn or Absent
          bak,      \* their .old files
          staged,   \* each version's staging directory: quil, quild, man
          latest,   \* the newest release
          record,   \* StagedVersion in the state file, 0 for none
          stager,   \* runUpdateCheck and stageOnDemand: pc and release of each
          dver,     \* the running daemon's version
          lock,     \* holder of apply.lock, or Free
          ac,       \* each client: pc, version, target, attempts
          faults,
          excused   \* history: what no rollback can repair, see PairWhole

updVars == <<binFiles, bak, staged, latest, record, stager, dver, lock, ac, faults, excused>>

Torn == -1
NoBinary == 0
Unlocked == "unlocked"
Pair == {"quil", "quild"}
Releases == 2 .. MaxRelease
Checks == {"auto", "demand"}
EmptyDir == [quil |-> "none", quild |-> "none", man |-> FALSE]
FullDir == [quil |-> "ok", quild |-> "ok", man |-> TRUE]
NotRun == [pc |-> "new", ver |-> 0, to |-> 0]

UpdInit ==
    /\ binFiles = [b \in Pair |-> 1] /\ bak = [b \in Pair |-> NoBinary]
    /\ staged = [r \in Releases |-> EmptyDir]
    /\ latest = 1 /\ record = 0 /\ dver = 1
    /\ stager = [k \in Checks |-> [pc |-> "idle", rel |-> 0]]
    /\ lock = Unlocked
    /\ ac = [c \in Clients |-> NotRun]
    /\ faults = 0 /\ excused = FALSE

Fault == faults < MaxFaults /\ faults' = faults + 1
NoFault == UNCHANGED faults
StagerTo(k, pc) == stager' = [stager EXCEPT ![k].pc = pc]
Files == <<binFiles, bak>>
-----------------------------------------------------------------------------
(* The daemon's side. *)

NewRelease ==
    /\ latest < MaxRelease
    /\ latest' = latest + 1
    /\ UNCHANGED <<Files, staged, record, stager, dver, lock, ac, faults, excused>>

\* FindStaged: the newest directory with a manifest.
FindStaged == LET have == {r \in Releases : staged[r].man}
              IN  IF have = {} THEN 0 ELSE CHOOSE r \in have : \A q \in have : q <= r
VerifyStaged(r) == staged[r] = FullDir

Staging == \E k \in Checks : stager[k].pc \in {"clear", "extract", "manifest"}

\* The timer's runUpdateCheck and a client's stageOnDemand: nothing newer,
\* already staged, refused beside another staging, or a new staging.
CheckRelease(k) ==
    /\ stager[k].pc = "idle" /\ latest > 1
    /\ IF latest <= dver
       THEN /\ record' = IF k = "auto" THEN 0 ELSE record
            /\ UNCHANGED stager
       ELSE /\ UNCHANGED record
            /\ stager' = [stager EXCEPT ![k] =
                  [pc |-> IF k = "demand" /\ FindStaged = latest /\ VerifyStaged(latest) THEN "record"
                          ELSE IF (k = "auto" /\ record = latest) \/ Staging THEN "idle"
                          ELSE "clear",
                   rel |-> latest]]
    /\ UNCHANGED <<Files, staged, latest, dver, lock, ac, faults, excused>>

\* Stage, after the download's checksum matched.
ClearDir(k) ==
    LET r == stager[k].rel
    IN  /\ stager[k].pc = "clear"
        /\ staged' = [staged EXCEPT ![r] = [EmptyDir EXCEPT !.quil = "part", !.quild = "part"]]
        /\ StagerTo(k, "extract")
        /\ UNCHANGED <<Files, latest, record, dver, lock, ac, faults, excused>>

ExtractBinaries(k) ==
    LET r == stager[k].rel
    IN  /\ stager[k].pc = "extract"
        /\ \/ /\ staged' = [staged EXCEPT ![r].quil = "ok", ![r].quild = "ok"]
              /\ StagerTo(k, "manifest") /\ NoFault
           \/ /\ Fault /\ StagerTo(k, "idle") /\ UNCHANGED staged
        /\ UNCHANGED <<Files, latest, record, dver, lock, ac, excused>>

\* The manifest goes last: only a complete directory has one.
WriteManifest(k) ==
    /\ stager[k].pc = "manifest"
    /\ staged' = [staged EXCEPT ![stager[k].rel].man = TRUE]
    /\ StagerTo(k, "record")
    /\ UNCHANGED <<Files, latest, record, dver, lock, ac, faults, excused>>

\* recordStagedVersion and PruneStaged.
RecordStagedVersion(k) ==
    LET r == stager[k].rel
    IN  /\ stager[k].pc = "record"
        /\ record' = r
        /\ staged' = [q \in Releases |-> IF q = r THEN staged[q] ELSE EmptyDir]
        /\ StagerTo(k, "idle")
        /\ UNCHANGED <<Files, latest, dver, lock, ac, faults, excused>>

\* The version gate of an updated client restarts the daemon from disk.
DaemonFromDisk ==
    /\ binFiles["quild"] > dver /\ \A k \in Checks : stager[k].pc = "idle"
    /\ dver' = binFiles["quild"]
    /\ record' = IF record <= binFiles["quild"] THEN 0 ELSE record
    /\ UNCHANGED <<Files, staged, latest, stager, lock, ac, faults, excused>>
-----------------------------------------------------------------------------
(* The client's side. *)

Cl(c, pc) == ac[c].pc = pc
ClTo(c, pc) == ac' = [ac EXCEPT ![c].pc = pc]
Swapping(c) == ac[c].pc \in {"quilBak", "quilCopy", "quildBak", "quildCopy", "undo", "release"}

\* maybeApplyStagedUpdate: a newer staged pair that verifies; a damaged one is
\* removed; the user may decline.  Then cleanupAppliedUpdate.
LaunchClient(c) ==
    LET r == FindStaged
        v == binFiles["quil"]
    IN  /\ Cl(c, "new") /\ v > 0
        /\ IF r > v /\ VerifyStaged(r)
           THEN /\ \/ ac' = [ac EXCEPT ![c] = [pc |-> "lock", ver |-> v, to |-> r]]
                   \/ ac' = [ac EXCEPT ![c] = [pc |-> "sweep", ver |-> v, to |-> 0]]
                /\ UNCHANGED staged
           ELSE /\ ac' = [ac EXCEPT ![c] = [pc |-> "sweep", ver |-> v, to |-> 0]]
                /\ staged' = IF r > v THEN [staged EXCEPT ![r] = EmptyDir] ELSE staged
        /\ UNCHANGED <<Files, latest, record, stager, dver, lock, faults, excused>>

\* The holder of apply.lock has died.
Abandoned == lock # Unlocked /\ ac[lock].pc = "dead"

\* acquireApplyLock: taken when free, reclaimed when abandoned, else the
\* client goes on with what it has.
AcquireApplyLock(c) ==
    /\ Cl(c, "lock")
    /\ IF lock = Unlocked THEN lock' = c /\ ClTo(c, "quilBak")
       ELSE /\ ClTo(c, IF Abandoned THEN "reclaim" ELSE "done")
            /\ UNCHANGED lock
    /\ UNCHANGED <<Files, staged, latest, record, stager, dver, faults, excused>>

\* The abandoned lock is removed by name, then the loop tries again.
ReclaimLock(c) ==
    /\ Cl(c, "reclaim")
    /\ excused' = (excused \/ (lock # Unlocked /\ ~Abandoned))
    /\ lock' = Unlocked
    /\ ClTo(c, "lock")
    /\ UNCHANGED <<Files, staged, latest, record, stager, dver, faults>>

\* swapOne's freeBackupPath and rename.
BackUp(c, b, pc, copy) ==
    /\ Cl(c, pc)
    /\ \/ /\ binFiles[b] # NoBinary
          /\ bak' = [bak EXCEPT ![b] = binFiles[b]] /\ binFiles' = [binFiles EXCEPT ![b] = NoBinary]
          /\ ClTo(c, copy) /\ NoFault
       \/ /\ Fault /\ UNCHANGED Files
          /\ ClTo(c, IF b = "quil" THEN "release" ELSE "undo")

\* swapOne's copy: the staged binary, or an error that the rename undoes.  A
\* directory that is being staged again is copied as it stands.
CopyIn(c, b, pc, then) ==
    LET src == staged[ac[c].to][b]
        failed == IF b = "quil" THEN "release" ELSE "undo"
    IN  /\ Cl(c, pc)
        /\ \/ /\ src \in {"ok", "part"}
              /\ binFiles' = [binFiles EXCEPT ![b] = IF src = "ok" THEN ac[c].to ELSE Torn]
              /\ excused' = (excused \/ src = "part")
              /\ ClTo(c, then) /\ NoFault /\ UNCHANGED bak
           \/ /\ IF src = "none" THEN NoFault ELSE Fault
              /\ binFiles' = [binFiles EXCEPT ![b] = bak[b]] /\ bak' = [bak EXCEPT ![b] = NoBinary]
              /\ excused' = (excused \/ bak[b] = NoBinary)
              /\ ClTo(c, failed)
           \/ /\ Fault \* the rollback's rename fails as well
              /\ binFiles' = [binFiles EXCEPT ![b] = Torn] /\ UNCHANGED bak
              /\ excused' = TRUE
              /\ ClTo(c, failed)

BackUpQuil(c) == BackUp(c, "quil", "quilBak", "quilCopy")
                 /\ UNCHANGED <<staged, latest, record, stager, dver, lock, excused>>
CopyQuil(c) == CopyIn(c, "quil", "quilCopy", "quildBak")
               /\ UNCHANGED <<staged, latest, record, stager, dver, lock>>
BackUpQuild(c) == BackUp(c, "quild", "quildBak", "quildCopy")
                  /\ UNCHANGED <<staged, latest, record, stager, dver, lock, excused>>
CopyQuild(c) == CopyIn(c, "quild", "quildCopy", "release")
                /\ UNCHANGED <<staged, latest, record, stager, dver, lock>>

\* Mutant of UndoQuil: the new quil stays beside the old quild.
UndoQuilSkipped(c) ==
    /\ Cl(c, "undo")
    /\ ClTo(c, "release")
    /\ UNCHANGED <<Files, staged, latest, record, stager, dver, lock, faults, excused>>

\* swapPair: quild's failure takes quil back.
UndoQuil(c) ==
    /\ Cl(c, "undo")
    /\ \/ /\ binFiles' = [binFiles EXCEPT !["quil"] = bak["quil"]] /\ bak' = [bak EXCEPT !["quil"] = NoBinary]
          /\ excused' = (excused \/ bak["quil"] = NoBinary) /\ NoFault
       \/ Fault /\ excused' = TRUE /\ UNCHANGED Files
    /\ ClTo(c, "release")
    /\ UNCHANGED <<staged, latest, record, stager, dver, lock>>

\* The lock is removed only by the process named in it; then respawnSelf.
ReleaseLock(c) ==
    /\ Cl(c, "release")
    /\ lock' = IF lock = c THEN Unlocked ELSE lock
    /\ ClTo(c, "done")
    /\ UNCHANGED <<Files, staged, latest, record, stager, dver, faults, excused>>

\* cleanupAppliedUpdate stands back from a swap under way.
LookForApply(c) ==
    /\ Cl(c, "sweep")
    /\ ClTo(c, IF lock # Unlocked /\ ~Abandoned THEN "done" ELSE "sweeping")
    /\ UNCHANGED <<Files, staged, latest, record, stager, dver, lock, faults, excused>>

\* What is not newer than this client goes, and so do the backups.
SweepApplied(c) ==
    LET r == FindStaged
    IN  /\ Cl(c, "sweeping")
        /\ staged' = IF r # 0 /\ r <= ac[c].ver THEN [staged EXCEPT ![r] = EmptyDir] ELSE staged
        /\ bak' = [b \in Pair |-> NoBinary]
        /\ excused' = (excused \/ \E d \in Clients : Swapping(d))
        /\ ClTo(c, "done")
        /\ UNCHANGED <<binFiles, latest, record, stager, dver, lock, faults>>

\* A client that ended is launched again; a killed one stays in the lock file.
Relaunch(c) ==
    /\ ac[c].pc = "done"
    /\ ac' = [ac EXCEPT ![c] = NotRun]
    /\ UNCHANGED <<Files, staged, latest, record, stager, dver, lock, faults, excused>>

KillClient(c) ==
    /\ ac[c].pc \notin {"new", "done", "dead"} /\ Fault
    /\ excused' = (excused \/ Swapping(c))
    /\ ClTo(c, "dead")
    /\ UNCHANGED <<Files, staged, latest, record, stager, dver, lock>>
-----------------------------------------------------------------------------
UpdNext ==
    \/ NewRelease \/ DaemonFromDisk
    \/ \E k \in Checks : CheckRelease(k) \/ ClearDir(k) \/ ExtractBinaries(k)
                         \/ WriteManifest(k) \/ RecordStagedVersion(k)
    \/ \E c \in Clients :
         \/ LaunchClient(c) \/ AcquireApplyLock(c) \/ ReclaimLock(c)
         \/ BackUpQuil(c) \/ CopyQuil(c) \/ BackUpQuild(c) \/ CopyQuild(c) \/ UndoQuil(c)
         \/ ReleaseLock(c) \/ LookForApply(c) \/ SweepApplied(c) \/ Relaunch(c) \/ KillClient(c)

UpdSpec == UpdInit /\ [][UpdNext]_updVars
-----------------------------------------------------------------------------
\* While nobody is swapping, quil and quild are whole and of one version:
\* failing copies and renames, a second client, a directory pruned or staged
\* anew meanwhile leave no half-installed pair.  Excused are a client killed
\* inside its swap, a rollback that fails too, a copy out of a directory that
\* is just being extracted, backups swept and a lock removed between the look
\* and the deed.
PairWhole ==
    (\A c \in Clients : ~Swapping(c)) /\ ~excused =>
        binFiles["quil"] > 0 /\ binFiles["quil"] = binFiles["quild"]
=============================================================================

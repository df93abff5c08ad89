---------------------------- MODULE WorkspaceFile ----------------------------
(***************************************************************************)
(* workspace.json and its rotation (internal/persist/snapshot.go).  A      *)
(* file's content is the version saved in it; Save's system calls are      *)
(* steps, each may fail, and the daemon may be killed between any two.     *)
(***************************************************************************)
EXTENDS Integers

CONSTANTS MaxVersion,   \* bound: versions of the workspace
          CallsFail,    \* TRUE when a system call may fail
          Damaged       \* TRUE when the primary may be unreadable at start

ASSUME FileAssumption == MaxVersion \in Nat \ {0} /\ CallsFail \in BOOLEAN /\ Damaged \in BOOLEAN

Absent == 0             \* no such file
Corrupt == -1           \* a file that does not parse
Version == 1 .. MaxVersion
Content == Version \cup {Absent, Corrupt}

VARIABLES primary, backup, temp,   \* workspace.json, .bak, .tmp
          save,                    \* label inside Save, "idle" outside
          writing,                 \* the version being saved
          saved                    \* history: the last version that went live

fvars == <<primary, backup, temp, save, writing, saved>>

\* Load: the primary, else the backup, else nothing.
Load == IF primary \in Version THEN primary
        ELSE IF backup \in Version THEN backup
        ELSE IF primary = Absent /\ backup = Absent THEN Absent ELSE Corrupt

FileInit ==
    /\ temp = Absent /\ save = "idle" /\ writing = Absent
    /\ \/ primary = Absent /\ backup = Absent /\ saved = Absent
       \/ Damaged /\ primary = Corrupt /\ backup = 1 /\ saved = 1

BeginSave(v) ==
    /\ save = "idle"
    /\ writing' = v
    /\ save' = "write"
    /\ UNCHANGED <<primary, backup, temp, saved>>

\* os.WriteFile truncates first: a failure leaves anything behind.
WriteTemp ==
    /\ save = "write"
    /\ \/ temp' = writing /\ save' = "remove"
       \/ CallsFail /\ temp' \in {temp, Corrupt} /\ save' = "failed"
    /\ UNCHANGED <<primary, backup, writing, saved>>

\* os.Stat(path), then os.Remove(bak); a failure is only logged.
RemoveBackup ==
    /\ save = "remove"
    /\ IF primary = Absent THEN save' = "promote" /\ UNCHANGED backup
       ELSE save' = "rotate" /\ backup' \in {Absent} \cup (IF CallsFail THEN {backup} ELSE {})
    /\ UNCHANGED <<primary, temp, writing, saved>>

\* Mutant of Rotate: the old primary is removed, not kept.
RotateAway ==
    /\ save = "rotate"
    /\ primary' = Absent /\ UNCHANGED backup
    /\ save' = "promote"
    /\ UNCHANGED <<temp, writing, saved>>

\* os.Rename(path, bak); a failure is only logged.
Rotate ==
    /\ save = "rotate"
    /\ \/ backup' = primary /\ primary' = Absent
       \/ CallsFail /\ UNCHANGED <<primary, backup>>
    /\ save' = "promote"
    /\ UNCHANGED <<temp, writing, saved>>

\* os.Rename(tmp, path).
Promote ==
    /\ save = "promote"
    /\ \/ primary' = temp /\ temp' = Absent /\ saved' = writing /\ save' = "done"
       \/ CallsFail /\ save' = "failed" /\ UNCHANGED <<primary, temp, saved>>
    /\ UNCHANGED <<backup, writing>>

SaveReturns ==
    /\ save \in {"done", "failed"}
    /\ save' = "idle"
    /\ UNCHANGED <<primary, backup, temp, writing, saved>>

\* The daemon is killed; a write under way leaves a partial temp file.
Killed ==
    /\ save # "idle"
    /\ save' = "idle"
    /\ temp' \in {temp} \cup (IF save = "write" THEN {Corrupt} ELSE {})
    /\ UNCHANGED <<primary, backup, writing, saved>>

FileNext ==
    \/ \E v \in Version : BeginSave(v)
    \/ WriteTemp \/ RemoveBackup \/ Rotate \/ Promote \/ SaveReturns \/ Killed

FileSpec == FileInit /\ [][FileNext]_fvars
-----------------------------------------------------------------------------
\* Types.
FileTypeOK ==
    /\ primary \in Content /\ backup \in Content /\ temp \in Content
    /\ save \in {"idle", "write", "remove", "rotate", "promote", "done", "failed"}
    /\ writing \in Version \cup {Absent} /\ saved \in Version \cup {Absent}

(***************************************************************************)
(* A daemon started at any moment loads the last version that went live:   *)
(* no failure of a system call and no kill between two of them loses it or *)
(* brings back an older one.                                               *)
(***************************************************************************)
LoadsLastSaved == Load = saved

\* The strengthening: a save in progress holds the version in temp, and the
\* live version is in the primary, or in the backup while there is none.
FileInv ==
    /\ FileTypeOK
    /\ save \in {"remove", "rotate", "promote"} => temp = writing
    /\ save # "idle" => writing \in Version
    /\ save = "rotate" => primary # Absent
    /\ primary \in {saved, Absent}
    /\ primary = Absent => backup = saved
=============================================================================

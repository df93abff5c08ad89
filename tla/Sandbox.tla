------------------------------ MODULE Sandbox ------------------------------
(***************************************************************************)
(* A sandbox pane's container and everything the daemon keeps for it: the  *)
(* pane's tree with its own git object store (HostPaneRoot and overlays),  *)
(* the line naming that store in the repository's objects/info/alternates, *)
(* and the record of the line, in the daemon's map and in alternates.json, *)
(* whose write may fail unnoticed.  A spawn makes them in one order        *)
(* (prepareSandbox), a teardown takes them away in another                 *)
(* (teardownSandbox), and a daemon may be killed between any two steps;    *)
(* the next one repairs the lines and sweeps orphaned containers.          *)
(*                                                                         *)
(* Both run on goroutines of their own, beside each other, beside the      *)
(* agent committing inside the container, and beside the harvest ticker    *)
(* that copies its objects into the repository.  The panes share one       *)
(* repository.  A git object is a number.                                  *)
(***************************************************************************)
EXTENDS Naturals

CONSTANTS SbPanes,       \* ids of sandbox panes
          MaxObjects,    \* objects the agents write
          MaxBoots,      \* daemon starts
          MaxErrors      \* docker or file operations that fail

VARIABLES disk,      \* what survives the daemon: [reg, alt, dirs, store, repo, wts, saved]
          container, \* docker's state of the pane's container: "none", "up" or "exited"
          boxes,     \* the session's sandbox panes
          entries,   \* the registry's entries: of the daemon's map, or, when none is
                     \* up, of the file that the next one reads
          created,   \* panes created so far: an id is used once
          preps,     \* where each pane's spawn stands; "no" when none runs
          downs,     \* where each teardown stands, by pane and by whom
          keep,      \* the startup pass: [at, live, ids]
          written,   \* objects written so far
          due,       \* objects written while their pane was in the session, with it
          waived,    \* panes whose guarantees one of the races below took away
          sbBoots,
          errors

sbVars == <<disk, container, boxes, entries, created, preps, downs, keep, written, due, waived, sbBoots, errors>>

Sweepers == {"close", "sweep"}
NoSpawn == [x \in SbPanes |-> "no"]
NoTeardown == [x \in SbPanes |-> [b \in Sweepers |-> "no"]]
NoPass == [at |-> "off", live |-> {}, ids |-> {}]

DaemonUp == keep.at # "off"

\* One more operation fails.
Errs == errors < MaxErrors /\ errors' = errors + 1
Works == UNCHANGED errors

SbInit ==
  /\ disk = [reg |-> {}, alt |-> {}, dirs |-> {}, store |-> [x \in SbPanes |-> {}],
             repo |-> {}, wts |-> SbPanes, saved |-> {}]
  /\ container = [x \in SbPanes |-> "none"]
  /\ boxes = {} /\ entries = {} /\ created = {}
  /\ preps = NoSpawn
  /\ downs = NoTeardown
  /\ keep = [NoPass EXCEPT !.at = "repair"]
  /\ written = 0 /\ due = {} /\ waived = {} /\ sbBoots = 1 /\ errors = 0

----------------------------------------------------------------------------
(* Spawning: prepareSandbox, then docker run.                              *)

\* spawnPane of a sandboxed pane, for a new pane or for a restart.  The
\* session looks the pane up once; nothing asks again before docker run.
spawnSandboxed(x) ==
  /\ DaemonUp /\ preps[x] = "no"
  /\ \A b \in Sweepers : downs[x][b] = "no"
  /\ x \in boxes \/ x \notin created
  /\ boxes' = boxes \cup {x}
  /\ created' = created \cup {x}
  /\ preps' = [preps EXCEPT ![x] = "map"]
  /\ UNCHANGED <<disk, container, downs, keep, entries, written, due, waived, sbBoots, errors>>

\* NewMapping asks git for the pane's repository; with the worktree gone it
\* refuses, and a refusal is never a host spawn.
NewMapping(x) ==
  /\ preps[x] = "map"
  /\ preps' = [preps EXCEPT ![x] = IF x \in disk.wts THEN "dirs" ELSE "no"]
  /\ UNCHANGED <<disk, container, boxes, downs, keep, entries, created, written, due, waived, sbBoots, errors>>

\* Make the pane's tree and overlays; add the line, once.
MakeTree(x) == [disk EXCEPT !.dirs = @ \cup {x}]
AddAlternate(x) == [disk EXCEPT !.alt = @ \cup {x}]

\* sandboxRegistry.save, under its mutex: the whole map goes to the file.  A
\* failure of any of its steps is logged, and the caller told nothing.
saveRegistry(map) ==
  \/ disk' = [disk EXCEPT !.reg = map] /\ Works
  \/ Errs /\ UNCHANGED disk
put(x) == entries' = entries \cup {x} /\ saveRegistry(entries \cup {x})
drop(x) == entries' = entries \ {x} /\ saveRegistry(entries \ {x})

\* The order of the tree, the record and the line.  A failure of the first or
\* the last refuses the spawn, and leaves what was made so far.
PrepNextLineFirst == [dirs |-> "line", line |-> "record", record |-> "rm"]
PrepNext == [dirs |-> "record", record |-> "line", line |-> "rm"]
Make(x, at) ==
  \/ at = "dirs" /\ disk' = MakeTree(x) /\ Works /\ UNCHANGED entries
  \/ at = "record" /\ put(x)
  \/ at = "line" /\ disk' = AddAlternate(x) /\ Works /\ UNCHANGED entries

prepareSandbox(x) ==
  /\ preps[x] \in {"dirs", "record", "line"}
  /\ \/ /\ Make(x, preps[x])
        /\ preps' = [preps EXCEPT ![x] = PrepNext[@]]
     \/ /\ preps[x] # "record"
        /\ preps' = [preps EXCEPT ![x] = "no"]
        /\ Errs /\ UNCHANGED <<disk, entries>>
  /\ UNCHANGED <<container, boxes, downs, keep, created, written, due, waived, sbBoots>>

\* docker rm -f, which also answers for a container that is not there.
WithoutContainer(x) == [container EXCEPT ![x] = "none"]

\* The pre-run remove: its result is ignored.
PreRunRemove(x) ==
  /\ preps[x] = "rm"
  /\ preps' = [preps EXCEPT ![x] = "run"]
  /\ \/ container' = WithoutContainer(x) /\ Works
     \/ Errs /\ UNCHANGED container
  /\ UNCHANGED <<disk, boxes, downs, keep, entries, created, written, due, waived, sbBoots>>

\* Mounts: the sources are the pane's tree, its overlays and its worktree.
Sources(x) == x \in disk.dirs /\ x \in disk.wts

\* docker run --name: refused while the name is held or a mount's source is
\* missing.
RunArgs(x) ==
  /\ preps[x] = "run"
  /\ preps' = [preps EXCEPT ![x] = "no"]
  /\ container' = IF container[x] = "none" /\ Sources(x)
                  THEN [container EXCEPT ![x] = "up"] ELSE container
  /\ UNCHANGED <<disk, boxes, downs, keep, entries, created, written, due, waived, sbBoots, errors>>

----------------------------------------------------------------------------
(* The agent, and the ticker.                                              *)

\* The agent writes a git object into its own store, as long as its container
\* runs, pane or no pane.
AgentCommits(x) ==
  /\ container[x] = "up" /\ written < MaxObjects
  /\ written' = written + 1
  /\ disk' = [disk EXCEPT !.store[x] = IF x \in disk.dirs THEN @ \cup {written'} ELSE @]
  /\ due' = IF DaemonUp /\ x \in boxes THEN due \cup {<<x, written'>>} ELSE due
  /\ UNCHANGED <<container, boxes, preps, downs, keep, entries, created, waived, sbBoots, errors>>

AgentExits(x) ==
  /\ container[x] = "up"
  /\ container' = [container EXCEPT ![x] = "exited"]
  /\ UNCHANGED <<disk, boxes, preps, downs, keep, entries, created, written, due, waived, sbBoots, errors>>

\* HarvestObjects: every loose object and pack of the pane's store that the
\* repository does not have is copied into it.
HarvestObjectsNone(d, x) == d
CopyOnce(have, objects) == have \cup objects
HarvestObjects(d, x) == [d EXCEPT !.repo = CopyOnce(@, d.store[x])]

\* harvestSandbox: a pane with no record has nothing to harvest.
harvestSandbox(d, x) == IF x \in entries THEN HarvestObjects(d, x) ELSE d

\* harvestLoop's tick, for one of the session's sandbox panes.
harvestLoop(x) ==
  /\ DaemonUp /\ x \in boxes
  /\ disk' = harvestSandbox(disk, x)
  /\ disk' # disk
  /\ UNCHANGED <<container, boxes, preps, downs, keep, entries, created, written, due, waived, sbBoots, errors>>

----------------------------------------------------------------------------
(* Teardown.                                                               *)

\* The pane is closed, replaced or goes with its tab: it leaves the session,
\* its PTY (the docker CLI) is closed, and a goroutine tears the sandbox down.
\* A spawn of the pane still on its way is not stopped, and is the first race
\* that waives the guarantees: it may record, link and run behind the teardown.
closePane(x) ==
  /\ DaemonUp /\ x \in boxes
  /\ boxes' = boxes \ {x}
  /\ downs' = [downs EXCEPT ![x]["close"] = "look"]
  /\ waived' = IF preps[x] # "no" THEN waived \cup {x} ELSE waived
  /\ UNCHANGED <<disk, container, preps, keep, entries, created, written, due, sbBoots, errors>>

\* The order of a teardown: harvest, then the container, then the line, then
\* the tree, then the record.
DownNextTreeFirst == [harvest |-> "remove", remove |-> "dirs", dirs |-> "line", line |-> "drop",
                      drop |-> "end"]
DownNext == [harvest |-> "remove", remove |-> "line", line |-> "dirs", dirs |-> "drop",
             drop |-> "end"]

DownAt(x, b, at) == downs' = [downs EXCEPT ![x][b] = at]
DownStep(x, b) == DownAt(x, b, DownNext[downs[x][b]])

\* sandboxMappingFor: without a record only the container is removed, and
\* whatever docker answers the teardown counts as done.
sandboxMappingFor(x, b) ==
  /\ downs[x][b] = "look"
  /\ DownAt(x, b, IF x \in entries THEN "harvest" ELSE "bare")
  /\ UNCHANGED <<disk, container, boxes, preps, keep, entries, created, written, due, waived, sbBoots, errors>>

RemoveUnrecorded(x, b) ==
  /\ downs[x][b] = "bare"
  /\ DownAt(x, b, "end")
  /\ \/ container' = WithoutContainer(x) /\ Works
     \/ Errs /\ UNCHANGED container
  /\ UNCHANGED <<disk, boxes, preps, keep, entries, created, written, due, waived, sbBoots>>

\* A harvest that fails is logged and the teardown goes on: the second waiver.
FinalHarvest(x, b) ==
  /\ downs[x][b] = "harvest"
  /\ DownStep(x, b)
  /\ \/ disk' = HarvestObjects(disk, x) /\ Works /\ UNCHANGED waived
     \/ Errs /\ waived' = waived \cup {x} /\ UNCHANGED disk
  /\ UNCHANGED <<container, boxes, preps, keep, entries, created, written, due, sbBoots>>

RemoveContainerAnyway(x, b) ==
  /\ downs[x][b] = "remove"
  /\ DownStep(x, b)
  /\ \/ container' = WithoutContainer(x) /\ Works
     \/ Errs /\ UNCHANGED container
  /\ UNCHANGED <<disk, boxes, preps, keep, entries, created, written, due, waived, sbBoots>>

\* A container that cannot be removed ends the teardown with its files left
\* in place, and the worktree is not removed either.
RemoveContainer(x, b) ==
  /\ downs[x][b] = "remove"
  /\ \/ container' = WithoutContainer(x) /\ DownStep(x, b) /\ Works
     \/ Errs /\ DownAt(x, b, "held") /\ UNCHANGED container
  /\ UNCHANGED <<disk, boxes, preps, keep, entries, created, written, due, waived, sbBoots>>

RemoveLine(d, x) == [d EXCEPT !.alt = @ \ {x}]

\* Remove this pane's line and no other; an error is logged: the third waiver.
RemoveAlternate(x, b) ==
  /\ downs[x][b] = "line"
  /\ DownStep(x, b)
  /\ \/ disk' = RemoveLine(disk, x) /\ Works /\ UNCHANGED waived
     \/ Errs /\ waived' = waived \cup {x} /\ UNCHANGED disk
  /\ UNCHANGED <<container, boxes, preps, keep, entries, created, written, due, sbBoots>>

WithoutTree(x) == [disk EXCEPT !.dirs = @ \ {x}, !.store = [@ EXCEPT ![x] = {}]]

\* The tree and the overlays go, or stay when their removal fails, which is
\* logged; then the record.
RemoveTree(x, b) ==
  /\ downs[x][b] \in {"dirs", "drop"}
  /\ DownStep(x, b)
  /\ \/ /\ downs[x][b] = "dirs" /\ UNCHANGED entries
        /\ \/ disk' = WithoutTree(x) /\ Works
           \/ Errs /\ UNCHANGED disk
     \/ downs[x][b] = "drop" /\ drop(x)
  /\ UNCHANGED <<container, boxes, preps, keep, created, written, due, waived, sbBoots>>

\* The closing pane's goroutine then removes the worktree the user asked to
\* have removed, unless the teardown was held.
AfterTeardown(x, b) ==
  /\ downs[x][b] \in {"end", "held"}
  /\ DownAt(x, b, "no")
  /\ \/ disk' = disk
     \/ /\ b = "close" /\ downs[x][b] = "end"
        /\ disk' = [disk EXCEPT !.wts = @ \ {x}]
  /\ UNCHANGED <<container, boxes, preps, keep, entries, created, written, due, waived, sbBoots, errors>>

teardownSandbox(x, b) ==
  \/ sandboxMappingFor(x, b) \/ RemoveUnrecorded(x, b) \/ FinalHarvest(x, b)
  \/ RemoveContainer(x, b) \/ RemoveAlternate(x, b) \/ RemoveTree(x, b) \/ AfterTeardown(x, b)

----------------------------------------------------------------------------
(* The daemon stops, dies and starts; its startup pass.                    *)

snapshotBoxes ==
  /\ DaemonUp /\ disk.saved # boxes
  /\ disk' = [disk EXCEPT !.saved = boxes]
  /\ UNCHANGED <<container, boxes, preps, downs, keep, entries, created, written, due, waived, sbBoots, errors>>

\* Nothing in memory outlives the daemon: its registry's last saved file does,
\* and a record whose save failed, with none after it, is lost: the fifth waiver.
AllGone ==
  /\ boxes' = {} /\ preps' = NoSpawn /\ downs' = NoTeardown /\ keep' = NoPass
  /\ entries' = disk.reg
  /\ waived' = waived \cup (entries \ disk.reg)

\* Killed between any two steps; the containers run on.
DaemonDies ==
  /\ DaemonUp /\ sbBoots < MaxBoots
  /\ AllGone
  /\ UNCHANGED <<disk, container, created, written, due, sbBoots, errors>>

\* Stop: the final snapshot, a harvest of every live pane, and a kill of each
\* container within a budget, which some may outlive.
ContainerKilled(x) == IF container[x] = "up" THEN "exited" ELSE container[x]
killSandboxContainers(ids) ==
  \E alive \in SUBSET {x \in ids : container[x] = "up"} :
    container' = [x \in SbPanes |-> IF x \in ids \ alive THEN ContainerKilled(x) ELSE container[x]]
StopSandboxes ==
  /\ DaemonUp /\ sbBoots < MaxBoots
  /\ disk' = [disk EXCEPT !.saved = boxes,
              !.repo = CopyOnce(@, UNION {disk.store[x] : x \in boxes \cap entries})]
  /\ killSandboxContainers(boxes)
  /\ AllGone
  /\ UNCHANGED <<created, written, due, sbBoots, errors>>

\* The registry is loaded.  A file that cannot be read is taken for a first
\* run's, and the map starts empty: the records in it are waived too.
DaemonStarts ==
  /\ ~DaemonUp
  /\ sbBoots' = sbBoots + 1
  /\ boxes' = disk.saved
  /\ keep' = [keep EXCEPT !.at = "repair"]
  /\ \/ entries' = disk.reg /\ Works /\ UNCHANGED waived
     \/ entries' = {} /\ Errs /\ waived' = waived \cup disk.reg
  /\ UNCHANGED <<disk, container, preps, downs, created, written, due>>

\* Lines whose store is gone are pruned from every repository on record, unless
\* its file cannot be rewritten, which is logged.
Prune(d) == IF entries = {} THEN d ELSE [d EXCEPT !.alt = @ \cap d.dirs]
repairSandboxAlternates ==
  /\ keep.at = "repair"
  /\ keep' = [keep EXCEPT !.at = "live"]
  /\ \/ disk' = Prune(disk) /\ Works
     \/ Errs /\ UNCHANGED disk
  /\ UNCHANGED <<container, boxes, preps, downs, entries, created, written, due, waived, sbBoots>>

\* The live panes are read first, docker's list (docker ps -a) after it.
sandboxStartupHousekeeping ==
  /\ keep.at = "live"
  /\ keep' = [keep EXCEPT !.at = "list", !.live = boxes]
  /\ UNCHANGED <<disk, container, boxes, preps, downs, entries, created, written, due, waived, sbBoots, errors>>

ListPaneIDs ==
  /\ keep.at = "list"
  /\ \/ keep' = [keep EXCEPT !.at = "reap", !.live = {},
                  !.ids = {x \in SbPanes : container[x] # "none"} \ keep.live] /\ Works
     \/ keep' = [NoPass EXCEPT !.at = "done"] /\ Errs
  /\ UNCHANGED <<disk, container, boxes, preps, downs, entries, created, written, due, waived, sbBoots>>

\* Each listed container that is not a live pane's is removed and torn down,
\* one after the other.  A pane created since the live panes were read is
\* taken for an orphan: the fourth waiver.
sweepSandboxContainers ==
  /\ keep.at = "reap"
  /\ \A x \in SbPanes : downs[x]["sweep"] = "no"
  /\ IF keep.ids = {}
     THEN /\ keep' = [NoPass EXCEPT !.at = "done"]
          /\ UNCHANGED <<container, downs, waived, errors>>
     ELSE \E x \in keep.ids :
            /\ keep' = [keep EXCEPT !.ids = @ \ {x}]
            /\ DownAt(x, "sweep", "look")
            /\ waived' = IF x \in boxes \/ preps[x] # "no" THEN waived \cup {x} ELSE waived
            /\ \/ container' = WithoutContainer(x) /\ Works
               \/ Errs /\ UNCHANGED container
  /\ UNCHANGED <<disk, boxes, preps, entries, created, written, due, sbBoots>>

SbNext ==
  \/ \E x \in SbPanes :
       \/ spawnSandboxed(x) \/ NewMapping(x) \/ prepareSandbox(x) \/ PreRunRemove(x) \/ RunArgs(x)
       \/ AgentCommits(x) \/ AgentExits(x) \/ harvestLoop(x) \/ closePane(x)
       \/ \E b \in Sweepers : teardownSandbox(x, b)
  \/ snapshotBoxes \/ DaemonDies \/ StopSandboxes \/ DaemonStarts
  \/ repairSandboxAlternates \/ sandboxStartupHousekeeping \/ ListPaneIDs
  \/ sweepSandboxContainers

SbSpec == SbInit /\ [][SbNext]_sbVars

----------------------------------------------------------------------------
(* An object written while its pane was in the session can be read from the *)
(* repository: copied into it, or in a store that exists and is linked.     *)
ObjectsReadable ==
  \A d \in due : \/ d[2] \in disk.repo
                 \/ d[1] \in disk.alt \cap disk.dirs /\ d[2] \in disk.store[d[1]]
                 \/ d[1] \in waived

(* The repository never links a store that is gone (every git command in it *)
(* would fail), nor one that no record would let this daemon or, once it is *)
(* gone, its successor repair.                                             *)
LinksWhole == disk.alt \ waived \subseteq disk.dirs \cap entries

(* Neither tree nor worktree is deleted under a running agent.              *)
NothingUnderAgent ==
  \A x \in SbPanes \ waived : container[x] = "up" => x \in disk.dirs \cap disk.wts

(* Across spawns, closes, kills of the daemon and failing docker calls,     *)
(* outside the five races the model names: no object is lost, the           *)
(* repository stays usable, and nothing is deleted under a running agent.   *)
SandboxKept == ObjectsReadable /\ LinksWhole /\ NothingUnderAgent

============================================================================

---------------------------- MODULE MCWorkspace ----------------------------
(* Workspace for TLC: identifiers are small numbers, 0 the empty string.   *)
EXTENDS Workspace, TLC

Alike == Permutations(Workers)

\* Three handlers at once.
Races == [ops |-> {"createTab", "worktree", "createPane", "replace", "destroyPane", "destroyTab",
                   "createProject", "destroyProject", "switch", "paneExit"},
          left |-> 3, width |-> 3]
\* Every kind of request, one at a time.
Sequential == [ops |-> Races.ops \cup {"createTabReq", "overlay", "merge", "sweep", "attach"},
               left |-> 3, width |-> 1]
\* Two overlay openings beside closes and rejected images.
OverlayRaces == [ops |-> {"createPane", "overlay", "badImage", "createTabReq", "paneExit", "sweep",
                          "destroyPane"},
                 left |-> 3, width |-> 2]
AllMixes == {Races, Sequential, OverlayRaces}

\* One new tab with a rejected image.
BadImage == {[ops |-> {"createTab", "badImage"}, left |-> 1, width |-> 1]}

\* A daemon that never had a client.
FreshStart == NewSessionManager

\* Two projects with a tab each; the first tab holds a shell and an overlay.
TwoProjects ==
    /\ tabs = (1 :> [panes |-> <<1, 2>>, project |-> 1]) @@ (2 :> [panes |-> <<3>>, project |-> 2])
    /\ tabOrder = <<1, 2>>
    /\ panes = (1 :> [tab |-> 1, overlay |-> FALSE]) @@ (2 :> [tab |-> 1, overlay |-> TRUE])
               @@ (3 :> [tab |-> 2, overlay |-> FALSE])
    /\ projects = (1 :> [tabIDs |-> <<1>>, activeTab |-> 1, bootstrap |-> TRUE])
                  @@ (2 :> [tabIDs |-> <<2>>, activeTab |-> 2, bootstrap |-> FALSE])
    /\ projectOrder = <<1, 2>>
    /\ activeTab = 1 /\ activeProject = 1

WInit == (FreshStart \/ TwoProjects) /\ work = [w \in Workers |-> Idle] /\ mix \in Mixes /\ WStart
         /\ Orderly /\ NothingEmpty

WorkspaceSpec == WInit /\ [][WNext]_wvars
=============================================================================

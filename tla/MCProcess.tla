------------------------------ MODULE MCProcess ------------------------------
(* What runs where (start, update, MCP bridge, new panes and their sizes,  *)
(* kill, hooks, sandbox, sign-in, snapshots under faults), each alone.     *)
EXTENDS Wizard, Launch, Update, Bridge, ProcKill, HookIngest, Sandbox, SignIn,
        PaneSize, StdioConn, Snapshot

\* The part this behaviour is about; the others stand still.
VARIABLE scope

PInit ==
    /\ scope \in {"wizard", "launch", "update", "bridge", "kill", "hooks",
                 "sandbox", "signin", "size", "ssh", "files"}
    /\ WizInit
    /\ LaunchInit /\ (scope = "launch" \/ (dmn[1].st = "none" /\ dmn[1].ver = OwnVersion))
    /\ UpdInit
    /\ BridgeInit
    /\ KillInit
    /\ HookInit
    /\ SbInit
    /\ SignInInit
    /\ SizeInit /\ (scope = "size" \/ (win = 1 /\ proc.stored = 1))
    /\ StdioInit
    /\ Init

PNext ==
    /\ UNCHANGED scope
    /\ \/ /\ scope = "wizard" /\ WizNext
          /\ UNCHANGED <<launchVars, updVars, brVars, killVars, hookVars, sbVars, siVars,
                       sizeVars, stdioVars, svars>>
       \/ /\ scope = "launch" /\ LaunchNext
          /\ UNCHANGED <<wizVars, updVars, brVars, killVars, hookVars, sbVars, siVars,
                       sizeVars, stdioVars, svars>>
       \/ /\ scope = "update" /\ UpdNext
          /\ UNCHANGED <<wizVars, launchVars, brVars, killVars, hookVars, sbVars, siVars,
                       sizeVars, stdioVars, svars>>
       \/ /\ scope = "bridge" /\ BridgeNext
          /\ UNCHANGED <<wizVars, launchVars, updVars, killVars, hookVars, sbVars,
                       siVars, sizeVars, stdioVars, svars>>
       \/ /\ scope = "kill" /\ KillNext
          /\ UNCHANGED <<wizVars, launchVars, updVars, brVars, hookVars, sbVars, siVars,
                       sizeVars, stdioVars, svars>>
       \/ /\ scope = "hooks" /\ HookNext
          /\ UNCHANGED <<wizVars, launchVars, updVars, brVars, killVars, sbVars, siVars,
                       sizeVars, stdioVars, svars>>
       \/ /\ scope = "sandbox" /\ SbNext
          /\ UNCHANGED <<wizVars, launchVars, updVars, brVars, killVars, hookVars,
                       siVars, sizeVars, stdioVars, svars>>
       \/ /\ scope = "signin" /\ SignInNext
          /\ UNCHANGED <<wizVars, launchVars, updVars, brVars, killVars, hookVars,
                       sbVars, sizeVars, stdioVars, svars>>
       \/ /\ scope = "size" /\ SizeNext
          /\ UNCHANGED <<wizVars, launchVars, updVars, brVars, killVars, hookVars,
                       sbVars, siVars, stdioVars, svars>>
       \/ /\ scope = "ssh" /\ StdioNext
          /\ UNCHANGED <<wizVars, launchVars, updVars, brVars, killVars, hookVars,
                       sbVars, siVars, sizeVars, svars>>
       \/ /\ scope = "files" /\ Next
          /\ UNCHANGED <<wizVars, launchVars, updVars, brVars, killVars, hookVars,
                       sbVars, siVars, sizeVars, stdioVars>>

pVars == <<scope, wizVars, launchVars, updVars, brVars, killVars, hookVars,
          sbVars, siVars, sizeVars, stdioVars, svars>>
PSpec == PInit /\ [][PNext]_pVars
=============================================================================

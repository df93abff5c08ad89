------------------------------- MODULE SignIn -------------------------------
(***************************************************************************)
(* Spawning a sandbox pane that needs a Claude token the daemon does not   *)
(* have.  The spawn asks whether docker is there (sandboxCap: one probe,   *)
(* shared, remembered for a while), looks for the token in the daemon's    *)
(* environment and in the user's store, and otherwise stands down without  *)
(* a child: the first such pane starts `claude setup-token` in a browser,  *)
(* the others wait for it (sandboxSignIn).  When the flow ends, its        *)
(* goroutine spawns them all, or tells them all that it failed.            *)
(*                                                                         *)
(* Spawns run on their clients' goroutines, the flow on its own, and panes *)
(* are closed and restarted meanwhile.                                     *)
(***************************************************************************)
EXTENDS Naturals, FiniteSets

CONSTANTS SiPanes,     \* the sandbox panes
          MaxFlows,    \* browser sign-ins
          MaxSpawnings \* spawns asked for

VARIABLES docker,    \* sandboxCap: "stale", "probing", "yes" or "no"
          lastCap,   \* the answer a waiter reads after the probe
          spawning,  \* where each pane's spawn stands; "no" when none runs
          box,       \* the pane: "none" closed, "bare", "parked", "running" or "failed"
          flight,    \* sandboxSignIn: [running, owner, waiting]
          flow,      \* the flow that holds the claim: [at, read, eof, ok]
          tells,     \* panes a flow's goroutine still has to tell, with its outcome
          env,       \* the daemon's token: "none", "part" or "whole"
          userenv,   \* the one in the per-user store
          cutOff,    \* a child's output ended inside the token
          flows,
          spawnings

siVars == <<docker, lastCap, spawning, box, flight, flow, tells, env, userenv, cutOff, flows, spawnings>>

NoOne == "-"
Landed == [running |-> FALSE, owner |-> NoOne, waiting |-> {}]
AtRest == [at |-> "no", read |-> "", eof |-> FALSE, ok |-> FALSE]

SignInInit ==
  /\ docker = "stale" /\ lastCap = "no"
  /\ spawning = [x \in SiPanes |-> "no"]
  /\ box = [x \in SiPanes |-> "bare"]
  /\ flight = Landed /\ flow = AtRest /\ tells = {}
  /\ env = "none" /\ userenv = "none" /\ cutOff = FALSE
  /\ flows = 0 /\ spawnings = 0

SiAt(x, at) == spawning' = [spawning EXCEPT ![x] = at]
SiBecomes(x, b) == box' = [box EXCEPT ![x] = b]

\* A create or a restart reaches spawnPane.
AskSpawn(x) ==
  /\ box[x] # "none" /\ spawning[x] = "no" /\ spawnings < MaxSpawnings
  /\ spawnings' = spawnings + 1
  /\ SiAt(x, "cap")
  /\ SiBecomes(x, IF box[x] = "running" THEN "bare" ELSE box[x])
  /\ UNCHANGED <<docker, lastCap, flight, flow, tells, env, userenv, cutOff, flows>>

\* sandboxCap.get: a fresh answer, the answer of a probe under way, or a probe
\* of one's own.  sandboxAvailable refuses the spawn when docker is not there.
CapGet(x) ==
  /\ spawning[x] \in {"cap", "wait"}
  /\ \/ /\ spawning[x] = "cap" /\ docker \in {"yes", "no"}
        /\ SiAt(x, IF docker = "yes" THEN "token" ELSE "no")
        /\ SiBecomes(x, IF docker = "no" /\ box[x] # "none" THEN "failed" ELSE box[x])
        /\ UNCHANGED docker
     \/ /\ spawning[x] = "cap" /\ docker = "probing"
        /\ SiAt(x, "wait") /\ UNCHANGED <<box, docker>>
     \/ /\ spawning[x] = "wait" /\ docker # "probing"
        /\ SiAt(x, IF lastCap = "yes" THEN "token" ELSE "no")
        /\ SiBecomes(x, IF lastCap = "no" /\ box[x] # "none" THEN "failed" ELSE box[x])
        /\ UNCHANGED docker
     \/ /\ spawning[x] = "cap" /\ docker = "stale"
        /\ docker' = "probing" /\ SiAt(x, "probe") /\ UNCHANGED box
  /\ UNCHANGED <<lastCap, flight, flow, tells, env, userenv, cutOff, flows, spawnings>>

probeSandbox(x) ==
  /\ spawning[x] = "probe"
  /\ \E a \in {"yes", "no"} :
       /\ docker' = a /\ lastCap' = a
       /\ SiAt(x, IF a = "yes" THEN "token" ELSE "no")
       /\ SiBecomes(x, IF a = "no" /\ box[x] # "none" THEN "failed" ELSE box[x])
  /\ UNCHANGED <<flight, flow, tells, env, userenv, cutOff, flows, spawnings>>

CapExpires ==
  /\ docker \in {"yes", "no"}
  /\ docker' = "stale"
  /\ UNCHANGED <<lastCap, spawning, box, flight, flow, tells, env, userenv, cutOff, flows, spawnings>>

\* The container is made and started, or the spawn fails (no hook binary, no
\* mapping, docker run refused).
Spawned(x) == \E b \in {"running", "failed"} : SiBecomes(x, IF box[x] = "none" THEN "none" ELSE b)

\* adoptPersistedToken takes the stored token; needsSandboxSignIn asks for one.
adoptPersistedToken == env' = IF env = "none" THEN userenv ELSE env
needsSandboxSignIn(x) ==
  /\ spawning[x] = "token"
  /\ adoptPersistedToken
  /\ \/ env' # "none" /\ SiAt(x, "no") /\ Spawned(x)
     \/ env' = "none" /\ SiAt(x, "begin") /\ UNCHANGED box
  /\ UNCHANGED <<docker, lastCap, flight, flow, tells, userenv, cutOff, flows, spawnings>>

\* begin: the claim, or a place among the waiters, at most once.
beginUnlisted(x) == IF flight.running THEN flight ELSE [Landed EXCEPT !.running = TRUE, !.owner = x]
begin(x) ==
  IF flight.running
  THEN [flight EXCEPT !.waiting = IF x = flight.owner THEN @ ELSE @ \cup {x}]
  ELSE [Landed EXCEPT !.running = TRUE, !.owner = x]

\* beginSandboxSignIn: with no claude on the PATH the container itself will
\* ask; else the pane stands down, and the claim's owner starts the flow.
beginSandboxSignIn(x) ==
  /\ spawning[x] = "begin"
  /\ SiAt(x, "no")
  /\ \/ Spawned(x) /\ UNCHANGED <<flight, flow, flows>>
     \/ /\ flows < MaxFlows \/ flight.running
        /\ SiBecomes(x, IF box[x] = "none" THEN "none" ELSE "parked")
        /\ flight' = begin(x)
        /\ flow' = IF flight.running THEN flow ELSE [flow EXCEPT !.at = "browser", !.read = ""]
        /\ flows' = IF flight.running THEN flows ELSE flows + 1
  /\ UNCHANGED <<docker, lastCap, tells, env, userenv, cutOff, spawnings>>

\* What Capture has read of the child's output: nothing that matches TokenRe,
\* the first bytes of the token, the token, the token and something after it.
Reads == {"", "part", "whole", "more"}

\* completeToken: a match that ends where the output ends may still be cut, and
\* is taken only once the output is over, whatever ended it.
completeTokenEager(r, atEOF) == CASE r = "" -> "none" [] r = "part" -> "part" [] OTHER -> "whole"
completeToken(r, atEOF) ==
  CASE r = "" -> "none"
    [] r = "more" -> "whole"
    [] OTHER -> IF atEOF THEN r ELSE "none"

\* Capture: another chunk, the end of the output (the child's exit, or a failing
\* read), or the budget.
Capture ==
  /\ flow.at = "browser"
  /\ \/ \E r \in Reads :
          /\ r # flow.read
          /\ flow.read = "" \/ (flow.read = "part" /\ r # "") \/ (flow.read = "whole" /\ r = "more")
          /\ flow' = [flow EXCEPT !.read = r, !.at = IF completeToken(r, FALSE) # "none" THEN "got" ELSE @]
          /\ UNCHANGED cutOff
     \/ /\ flow' = [flow EXCEPT !.eof = TRUE,
                               !.at = IF completeToken(flow.read, TRUE) # "none" THEN "got" ELSE "fail"]
        /\ cutOff' = (cutOff \/ flow.read = "part")
     \/ flow' = [flow EXCEPT !.at = "fail"] /\ UNCHANGED cutOff
  /\ UNCHANGED <<docker, lastCap, spawning, box, flight, tells, env, userenv, flows, spawnings>>

\* end: the claim is released and the waiters handed over, with the owner.
endOwnerOnly == {flight.owner}
end == {flight.owner} \cup flight.waiting

\* runSandboxSignIn: the token goes into the environment before the claim is
\* released, and into the user's store where the platform has one.
PublishToken ==
  /\ flow.at = "got"
  /\ env' = completeToken(flow.read, flow.eof)
  /\ userenv' \in {userenv, env'}
  /\ flow' = [flow EXCEPT !.at = "end", !.ok = TRUE]
  /\ UNCHANGED <<docker, lastCap, spawning, box, flight, tells, cutOff, flows, spawnings>>

ReleaseClaim ==
  /\ flow.at \in {"end", "fail"}
  /\ tells' = tells \cup {<<x, flow.ok>> : x \in end}
  /\ flight' = Landed /\ flow' = AtRest
  /\ UNCHANGED <<docker, lastCap, spawning, box, env, userenv, cutOff, flows, spawnings>>

\* respawnAfterSignIn or failSandboxSignIn of each; a closed pane is skipped.
TellPane ==
  /\ \E t \in tells :
       /\ tells' = tells \ {t}
       /\ \/ t[2] /\ Spawned(t[1])
          \/ ~t[2] /\ SiBecomes(t[1], IF box[t[1]] = "none" THEN "none" ELSE "failed")
  /\ UNCHANGED <<docker, lastCap, spawning, flight, flow, env, userenv, cutOff, flows, spawnings>>

ClosePaneOf(x) ==
  /\ box[x] # "none"
  /\ SiBecomes(x, "none")
  /\ UNCHANGED <<docker, lastCap, spawning, flight, flow, tells, env, userenv, cutOff, flows, spawnings>>

\* quil sandbox login captures a token as a flow does, saves it and restarts the
\* daemon, which inherits it, unless the one that starts is started elsewhere;
\* every goroutine goes, and so does every claim.
runSandboxLogin ==
  /\ userenv = "none" /\ userenv' \in {"part", "whole"}
  /\ cutOff' = (cutOff \/ userenv' = "part")
  /\ env' \in {"none", userenv'}
  /\ docker' = "stale" /\ lastCap' = "no"
  /\ spawning' = [x \in SiPanes |-> "no"]
  /\ box' = [x \in SiPanes |-> IF box[x] = "none" THEN "none" ELSE "bare"]
  /\ flight' = Landed /\ flow' = AtRest /\ tells' = {}
  /\ UNCHANGED <<flows, spawnings>>

SignInNext ==
  \/ \E x \in SiPanes : \/ AskSpawn(x) \/ CapGet(x) \/ probeSandbox(x) \/ needsSandboxSignIn(x)
                        \/ beginSandboxSignIn(x) \/ ClosePaneOf(x)
  \/ CapExpires \/ Capture \/ PublishToken \/ ReleaseClaim \/ TellPane \/ runSandboxLogin

SignInSpec == SignInInit /\ [][SignInNext]_siVars

----------------------------------------------------------------------------
(* A pane that stood down is on the list of a sign-in under way, or of one  *)
(* that is being told; nobody waits for a flow that is over.                *)
NobodyLeftWaiting ==
  \A x \in SiPanes : box[x] = "parked" =>
    \/ flight.running /\ x \in {flight.owner} \cup flight.waiting
    \/ \E ok \in BOOLEAN : <<x, ok>> \in tells

(* A claim is held by a flow that will release it; a probe by a spawn.      *)
ClaimsReleased ==
  /\ flight.running => flow.at \in {"browser", "got", "end", "fail"}
  /\ docker = "probing" => \E x \in SiPanes : spawning[x] = "probe"

(* A token that is not all of it is published or saved only after a child's *)
(* own output ended inside the token, never because a read did: the wait    *)
(* for its end outlasts every read boundary, and no other.                  *)
CutOnlyAtTheEnd == "part" \in {env, userenv} => cutOff

(* However a sign-in ends, every pane that stood down for it is spawned or  *)
(* told, no claim or probe outlives its holder, and no read boundary cuts   *)
(* the token that is published.                                             *)
SignInSound == NobodyLeftWaiting /\ ClaimsReleased /\ CutOnlyAtTheEnd

============================================================================

------------------------------- MODULE TuiLoop ------------------------------
(***************************************************************************)
(* The client's event loop (internal/tui/model.go, reconnect.go): one      *)
(* goroutine blocked in Receive at a time, started again by the arm of     *)
(* Update that handles its message; self-perpetuating tick chains, each    *)
(* guarded by a flag; and the attach every connection must get once.  With *)
(* one daemon the client is its connection and a loss ends the Receive;    *)
(* with several it is a Router whose Receive goes on.                      *)
(***************************************************************************)
EXTENDS Naturals, FiniteSets

CONSTANTS
  Sites,     \* daemons the client may talk to
  MaxLinks   \* bound: connections dialled

ASSUME LoopAssumption == IsFiniteSet(Sites) /\ MaxLinks \in Nat /\ Cardinality(Sites) <= MaxLinks

VARIABLES
  sites,     \* the daemons of this session
  isRouter,  \* the client is a Router, not a lone connection
  blocked,   \* goroutines blocked in Receive (a count)
  handled,   \* messages received and not yet handled by Update (kind -> count)
  clientGen, \* generation of a lone client
  chain,     \* tick chain -> [flag, ticks outstanding]
  want,      \* tick chain -> its reason to go on holds
  line,      \* site -> [conn, up, lost]: its connection, alive, loss handled
  attachedTo,  \* sites marked attached
  attaches,  \* connection -> attach messages it carried
  sized,     \* the terminal's size is known
  loopQuit

loopVars == <<sites, isRouter, blocked, handled, clientGen, chain, want, line, attachedTo, attaches, sized, loopQuit>>

Kinds == {"output", "state", "pluginError", "setActive", "highlight", "event", "response", "continue"}
Chains == {"sidebar", "notes", "work", "poll"}

LoopInit ==
  /\ blocked = 1
  /\ handled = [k \in Kinds |-> 0]
  /\ clientGen = 0
  /\ chain = [c \in Chains |-> [flag |-> c = "poll", ticks |-> IF c = "poll" THEN 1 ELSE 0]]
  /\ want = [c \in Chains |-> c = "poll"]
  /\ isRouter \in BOOLEAN
  /\ sites \in SUBSET Sites \ {{}} /\ (~isRouter => Cardinality(sites) = 1)
  /\ \E f \in [sites -> 1 .. Cardinality(sites)] :
       /\ \A s, t \in sites : s # t => f[s] # f[t]
       /\ line = [s \in sites |-> [conn |-> f[s], up |-> TRUE, lost |-> 0]]
  /\ attachedTo = {}
  /\ attaches = [c \in 1 .. MaxLinks |-> 0]
  /\ sized = FALSE /\ loopQuit = FALSE

Links == UNCHANGED <<sites, isRouter, line, attachedTo, attaches, sized, clientGen>>

----------------------------------------------------------------------------
(* Receive returns: a message of some kind.  An answer that cannot be      *)
(* decoded, an unknown type, a restart's answer and a staging answer from  *)
(* another machine become listenContinueMsg.                               *)
listenForMessages(k) ==
  /\ ~loopQuit /\ blocked > 0
  /\ \E s \in sites : line[s].up
  /\ blocked' = blocked - 1
  /\ handled' = [handled EXCEPT ![k] = @ + 1]
  /\ UNCHANGED <<chain, want, loopQuit>> /\ Links

Began(c) == IF chain[c].flag THEN chain[c] ELSE [flag |-> TRUE, ticks |-> chain[c].ticks + 1]

(* The arms of Update for what the daemons send: each starts the next      *)
(* Receive.  An event may start the sidebar's and the work spinner's chain *)
(* when there is a reason for them.                                        *)
UpdateSkipsRelisten(k) ==
  /\ ~loopQuit /\ handled[k] > 0
  /\ handled' = [handled EXCEPT ![k] = @ - 1]
  /\ blocked' = IF k = "pluginError" THEN blocked ELSE blocked + 1
  /\ UNCHANGED <<chain, want, loopQuit>> /\ Links

Update(k) ==
  /\ ~loopQuit /\ handled[k] > 0
  /\ handled' = [handled EXCEPT ![k] = @ - 1]
  /\ blocked' = blocked + 1
  /\ IF k = "event"
     THEN \E working \in BOOLEAN :
            /\ want' = [want EXCEPT !["work"] = working]
            /\ chain' = [chain EXCEPT !["work"] = IF working THEN Began("work") ELSE @,
                                      !["sidebar"] = IF want["sidebar"] THEN Began("sidebar") ELSE @]
     ELSE UNCHANGED <<chain, want>>
  /\ UNCHANGED loopQuit /\ Links

CloseTUI ==
  /\ ~loopQuit /\ blocked > 0
  /\ loopQuit' = TRUE /\ blocked' = blocked - 1
  /\ UNCHANGED <<handled, chain, want>> /\ Links

----------------------------------------------------------------------------
(* Ticks: go on while there is a reason, otherwise drop the flag.          *)
LoopTick(c) ==
  /\ ~loopQuit /\ chain[c].ticks > 0
  /\ chain' = [chain EXCEPT ![c] = IF want[c] THEN @ ELSE [flag |-> FALSE, ticks |-> @.ticks - 1]]
  /\ UNCHANGED <<blocked, handled, want, loopQuit>> /\ Links

(* Keys: showing the notifications or opening the notes starts a chain,    *)
(* hiding them only takes its reason away.                                 *)
Toggle(c) ==
  /\ ~loopQuit /\ c \in {"sidebar", "notes"}
  /\ want' = [want EXCEPT ![c] = ~@]
  /\ chain' = IF want[c] THEN chain ELSE [chain EXCEPT ![c] = Began(c)]
  /\ UNCHANGED <<blocked, handled, loopQuit>> /\ Links

(* A reconnect resets the work state of its panes (resetWorkStateFor-      *)
(* Reattach); the running chain stops by itself at its next tick.          *)
WorkEnds ==
  /\ ~loopQuit /\ want["work"]
  /\ want' = [want EXCEPT !["work"] = FALSE]
  /\ UNCHANGED <<blocked, handled, chain, loopQuit>> /\ Links

----------------------------------------------------------------------------
(* Connections.                                                            *)
Used == {line[s].conn : s \in sites}
Attach(S, at) == [c \in DOMAIN at |-> IF \E s \in S : line[s].conn = c /\ line[s].up THEN at[c] + 1 ELSE at[c]]

(* The first window size, and every later one: attach whoever is not yet.  *)
(* A send that fails leaves the site for the next time; one whose breaking *)
(* is not noticed yet may succeed.                                         *)
attachAllDests ==
  /\ ~loopQuit
  /\ sized' = TRUE
  /\ \E S \in SUBSET (sites \ attachedTo) :
       /\ \A s \in sites \ attachedTo : line[s].up => s \in S
       /\ attachedTo' = attachedTo \cup S
       /\ attaches' = Attach(S, attaches)
  /\ UNCHANGED <<sites, isRouter, blocked, handled, clientGen, chain, want, line, loopQuit>>

LinkBreaks(s) ==
  /\ ~loopQuit /\ line[s].up
  /\ line' = [line EXCEPT ![s].up = FALSE]
  /\ UNCHANGED <<sites, isRouter, blocked, handled, clientGen, chain, want, attachedTo, attaches, sized, loopQuit>>

(* linkLostMsg: a lone client's Receive has ended with an error and is not *)
(* started again; a Router's goes on.  The redialled link is accepted by   *)
(* finishReconnect; a daemon that cannot be redialled ends a lone client.  *)
linkLost(s) ==
  /\ ~loopQuit /\ ~line[s].up /\ line[s].lost # line[s].conn /\ blocked > 0
  /\ \/ /\ line' = [line EXCEPT ![s].lost = line[s].conn]
        /\ blocked' = IF isRouter THEN blocked ELSE blocked - 1
        /\ UNCHANGED loopQuit
     \/ /\ ~isRouter
        /\ loopQuit' = TRUE /\ blocked' = blocked - 1
        /\ UNCHANGED line
  /\ UNCHANGED <<sites, isRouter, handled, clientGen, chain, want, attachedTo, attaches, sized>>

finishReconnect(s) ==
  /\ ~loopQuit /\ line[s].lost = line[s].conn
  /\ \E c \in 1 .. MaxLinks :
       /\ c - 1 \in Used /\ \A d \in Used : d < c
       /\ line' = [line EXCEPT ![s] = [conn |-> c, up |-> TRUE, lost |-> 0]]
       /\ attaches' = [attaches EXCEPT ![c] = @ + 1]
  /\ attachedTo' = attachedTo \cup {s}
  /\ blocked' = IF isRouter THEN blocked ELSE blocked + 1
  /\ clientGen' = IF isRouter THEN clientGen ELSE clientGen + 1
  /\ UNCHANGED <<sites, isRouter, handled, chain, want, sized, loopQuit>>

LoopNext ==
  \/ \E k \in Kinds : listenForMessages(k) \/ Update(k)
  \/ \E c \in Chains : LoopTick(c) \/ Toggle(c)
  \/ WorkEnds \/ CloseTUI \/ attachAllDests
  \/ \E s \in sites : LinkBreaks(s) \/ linkLost(s) \/ finishReconnect(s)

LoopSpec == LoopInit /\ [][LoopNext]_loopVars

----------------------------------------------------------------------------
InUpdate == \E k \in Kinds : handled[k] > 0

(* The client never goes deaf and never listens twice: one goroutine is in *)
(* Receive, or its message waits for Update, or a lone client's lost link  *)
(* is being redialled.  A tick chain is never doubled and its flag says    *)
(* whether it runs.  A connection carries one attach, and once the size is *)
(* known every live one is attached or about to be noticed as lost.        *)
LoopSound ==
  /\ ~loopQuit =>
       LET waiting == IF InUpdate THEN 1 ELSE 0
           redialling == IF ~isRouter /\ \E s \in sites : line[s].lost = line[s].conn THEN 1 ELSE 0
       IN blocked + waiting + redialling = 1
  /\ \A c \in Chains : chain[c].ticks = IF chain[c].flag THEN 1 ELSE 0
  /\ \A c \in DOMAIN attaches : attaches[c] <= 1
  /\ sized => \A s \in sites : line[s].up => attaches[line[s].conn] = 1
=============================================================================

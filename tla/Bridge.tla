------------------------------- MODULE Bridge -------------------------------
(***************************************************************************)
(* The MCP bridge (cmd/quil mcp.go, mcp_hosts.go, mcp_version.go and the   *)
(* tools): concurrent tool calls over one connection per daemon, the       *)
(* reader that hands answers to the calls waiting for them, and a remote   *)
(* host that is dialled once for everybody, lost, and dialled again.       *)
(***************************************************************************)
EXTENDS Integers, Sequences, FiniteSets

CONSTANTS Calls,       \* tool handlers that may run at the same time
          MaxBridges,  \* bound: connections ever made, the local one included
          MaxAsks,     \* bound: requests of one handler
          MaxCalls     \* bound: tool calls in all

VARIABLES g,      \* goroutines: handlers, connectAll's and the retry
          hostc,  \* the remote hostConn
          br,     \* bridges by number; 1 is the local daemon's
          asks,   \* requests running: caller, number, bridge, state
          known,  \* idHost: ids of the remote have been discovered
          nAsks,  \* requests made by each handler
          nCalls  \* tool calls begun

brVars == <<g, hostc, br, asks, known, nAsks, nCalls>>

LocalBridge == 1
NoBridge == 0
Background == {"initial", "retry"}
Routines == Calls \cup Background
ASSUME BridgeAssumption == Calls \cap Background = {}
NoTool == [by |-> "none", gated |-> FALSE, asks |-> 0, learns |-> FALSE]
Idle == [pc |-> "idle", by |-> "none", tool |-> NoTool, todo |-> <<>>, fan |-> FALSE,
         left |-> 0, conn |-> NoBridge]

Bridge0 == [open |-> TRUE, up |-> TRUE, dead |-> FALSE, old |-> FALSE, pend |-> {}, sent |-> {}]

\* runMCP: the local daemon is connected, and connectAll dials the host.
BridgeInit ==
    /\ g = [x \in Routines |-> IF x = "initial" THEN [Idle EXCEPT !.pc = "connect"] ELSE Idle]
    /\ hostc = [bridge |-> NoBridge, err |-> FALSE, recent |-> FALSE, dialing |-> FALSE, retry |-> FALSE]
    /\ br = <<Bridge0>>
    /\ asks = {} /\ known = FALSE /\ nAsks = [k \in Calls |-> 0] /\ nCalls = 0

LiveBridge(h) == h.bridge # NoBridge /\ ~br[h.bridge].dead
-----------------------------------------------------------------------------
(* The tools.  by: how a tool finds its daemon; gated: requireDaemon; asks: *)
(* its round trips; learns: remember after a good answer.                   *)

Tool(by, gated, n, learns) == [by |-> by, gated |-> gated, asks |-> n, learns |-> learns]

list_hosts       == Tool("status", FALSE, 0, FALSE)
list_panes       == Tool("all", FALSE, 1, TRUE)
list_tabs        == Tool("narrow", FALSE, 1, TRUE)
list_projects    == Tool("all", TRUE, 1, TRUE)
list_tasks       == Tool("narrow", TRUE, 1, TRUE)
get_notifications == Tool("all", FALSE, 1, FALSE)
watch_notifications == Tool("watch", FALSE, 1, FALSE)
dismiss_notifications == Tool("host", FALSE, 0, FALSE)
close_tui        == Tool("host", FALSE, 0, FALSE)
set_active_pane  == Tool("id", FALSE, 0, FALSE)
read_pane_output == Tool("id", FALSE, 1, FALSE)
get_pane_status  == Tool("id", FALSE, 1, FALSE)
restart_pane     == Tool("id", FALSE, 1, FALSE)
screenshot_pane  == Tool("id", FALSE, 1, FALSE)
switch_tab       == Tool("id", FALSE, 1, FALSE)
destroy_pane     == Tool("id", FALSE, 1, FALSE)
get_memory_report == Tool("host", FALSE, 1, FALSE)
list_sessions    == Tool("host", FALSE, 1, FALSE)
\* One round trip per piece: the paste and its Enter, the text between keys.
send_to_pane     == Tool("id", FALSE, 2, FALSE)
send_keys        == Tool("id", FALSE, 2, FALSE)
get_pane_memory  == Tool("id", FALSE, 2, FALSE)
\* create_pane is gated only with the options of the dialog.
create_pane      == Tool("id", FALSE, 1, TRUE)
create_pane_with == Tool("id", TRUE, 1, TRUE)
create_tab       == Tool("id", TRUE, 1, TRUE)
create_project   == Tool("host", TRUE, 1, TRUE)
update_project   == Tool("id", TRUE, 2, FALSE)
destroy_project  == Tool("id", TRUE, 1, FALSE)
switch_project   == Tool("id", TRUE, 1, FALSE)
rename_tab       == Tool("id", TRUE, 1, FALSE)
destroy_tab      == Tool("id", TRUE, 1, FALSE)
rename_pane      == Tool("id", TRUE, 1, FALSE)
list_plugins     == Tool("host", TRUE, 1, FALSE)
delegate_task    == Tool("id", TRUE, 1, TRUE)
get_task         == Tool("id", TRUE, 1, FALSE)
wait_task        == Tool("id", TRUE, 1, FALSE)

McpTools ==
    {list_hosts, list_panes, list_tabs, list_projects, list_tasks, get_notifications,
     watch_notifications, dismiss_notifications, close_tui, set_active_pane, read_pane_output,
     get_pane_status, restart_pane, screenshot_pane, switch_tab, destroy_pane,
     get_memory_report, list_sessions, send_to_pane, send_keys, get_pane_memory, create_pane,
     create_pane_with, create_tab, create_project, update_project, destroy_project,
     switch_project, rename_tab, destroy_tab, rename_pane, list_plugins, delegate_task,
     get_task, wait_task}
-----------------------------------------------------------------------------
(* The remote host. *)

Step(x, pc) == g' = [g EXCEPT ![x].pc = pc]
Return(x) == g' = [g EXCEPT ![x] = Idle]

\* retryDisconnectedLocked: one retry at a time, none inside the backoff.
RetryDue(h) == ~h.dialing /\ ~h.retry /\ ~(h.bridge = NoBridge /\ h.err /\ h.recent)

\* connected, and statuses: the local bridge and the remote one when it is
\* live; otherwise the retry is started.
ConnectedThen(gs) ==
    IF LiveBridge(hostc) \/ ~RetryDue(hostc) THEN g' = gs /\ UNCHANGED hostc
    ELSE /\ g' = [gs EXCEPT !["retry"] = [Idle EXCEPT !.pc = "connect"]]
         /\ hostc' = [hostc EXCEPT !.retry = TRUE]

connected == <<LocalBridge>> \o (IF LiveBridge(hostc) THEN <<hostc.bridge>> ELSE <<>>)

\* What follows connect's error: a retry clears its flag; a listing that
\* was narrowed by an id falls back to every host.
ConnectFails(x) ==
    IF g[x].by = "narrow" /\ g[x].left = 0
    THEN ConnectedThen([g EXCEPT ![x].pc = "work", ![x].todo = connected, ![x].fan = TRUE])
    ELSE IF x = "retry" THEN g' = [g EXCEPT ![x].pc = "clear"] /\ UNCHANGED hostc
    ELSE Return(x) /\ UNCHANGED hostc

AfterConnect(x) == IF x \in Calls THEN "grab" ELSE IF x = "retry" THEN "clear" ELSE "idle"
ConnectOK(x) == Step(x, AfterConnect(x))

\* connect, under the host's mutex: a live bridge is enough; a running dial
\* is awaited; a dead bridge is dropped and redialled at once; otherwise the
\* backoff decides.
Connect(x) ==
    /\ g[x].pc = "connect"
    /\ LET dropped == IF hostc.bridge = NoBridge THEN hostc
                      ELSE [hostc EXCEPT !.bridge = NoBridge, !.err = TRUE, !.recent = FALSE]
       IN  CASE LiveBridge(hostc) -> ConnectOK(x) /\ UNCHANGED hostc
             [] ~LiveBridge(hostc) /\ hostc.dialing ->
                  /\ g' = [g EXCEPT ![x].pc = "wait"]
                  /\ UNCHANGED hostc
             [] ~LiveBridge(hostc) /\ ~hostc.dialing /\ x # "initial" /\ dropped.err /\ dropped.recent ->
                  ConnectFails(x)
             [] OTHER ->
                  /\ hostc' = [dropped EXCEPT !.recent = TRUE, !.dialing = TRUE]
                  /\ g' = [g EXCEPT ![x].pc = "dial", ![x].conn = hostc.bridge]
    /\ UNCHANGED <<br, asks, known, nAsks>>

\* releaseHostConn of the dropped connection.
ReleasedNot(bs, c) == bs
Released(bs, c) == IF c = NoBridge THEN bs ELSE [bs EXCEPT ![c].open = FALSE]

\* The dial outside the lock, and startHostBridge: the version probe.
BridgeDial(x) ==
    /\ g[x].pc = "dial"
    /\ LET closed == Released(br, g[x].conn)
       IN  \/ /\ Len(br) < MaxBridges
              /\ \E old \in BOOLEAN : br' = Append(closed, [Bridge0 EXCEPT !.old = old])
              /\ g' = [g EXCEPT ![x].pc = "publish", ![x].conn = Len(br) + 1]
           \/ br' = closed /\ g' = [g EXCEPT ![x].pc = "publish", ![x].conn = NoBridge]
    /\ UNCHANGED <<hostc, asks, known, nAsks>>

\* The outcome, under the mutex, and close(done), which wakes the others.
Publish(x) ==
    /\ g[x].pc = "publish"
    /\ LET ok == g[x].conn # NoBridge
           pc == IF ok THEN AfterConnect(x)
                 ELSE IF x = "retry" THEN "clear"
                 ELSE IF g[x].by = "narrow" /\ g[x].left = 0 THEN "all" ELSE "idle"
       IN  /\ g' = [y \in Routines |->
                      IF y # x THEN [g[y] EXCEPT !.pc = IF @ = "wait" THEN "woken" ELSE @]
                      ELSE IF pc = "idle" THEN Idle ELSE [g[x] EXCEPT !.pc = pc, !.conn = NoBridge]]
           /\ hostc' = [hostc EXCEPT !.dialing = FALSE, !.err = ~ok,
                                     !.bridge = IF ok THEN g[x].conn ELSE @]
    /\ UNCHANGED <<br, asks, known, nAsks>>

\* dialOutcome, for those who waited on dialDone.
dialOutcome(x) ==
    /\ g[x].pc = "woken"
    /\ IF LiveBridge(hostc) THEN ConnectOK(x) /\ UNCHANGED hostc ELSE ConnectFails(x)
    /\ UNCHANGED <<br, asks, known, nAsks>>

\* The failed narrowing's forEachHost("").
AllHosts(x) ==
    /\ g[x].pc = "all"
    /\ ConnectedThen([g EXCEPT ![x].pc = "work", ![x].todo = connected, ![x].fan = TRUE])
    /\ UNCHANGED <<br, asks, known, nAsks>>

\* bridgeFor reads the bridge under a second lock; it may be gone again, and
\* the handler then runs on a nil bridge.  A narrowed listing comes this way
\* twice: bridgeFor for the host's name, targets for its bridge.
Grab(k) ==
    /\ g[k].pc = "grab"
    /\ IF g[k].by = "narrow" /\ g[k].left = 0
       THEN g' = [g EXCEPT ![k].pc = "connect", ![k].left = 1]
       ELSE g' = [g EXCEPT ![k].pc = IF hostc.bridge = NoBridge THEN "nil" ELSE "work",
                           ![k].todo = <<hostc.bridge>>]
    /\ UNCHANGED <<hostc, br, asks, known, nAsks>>

\* The retry goroutine's end.
RetryEnds ==
    /\ g["retry"].pc = "clear"
    /\ Return("retry") /\ hostc' = [hostc EXCEPT !.retry = FALSE]
    /\ UNCHANGED <<br, asks, known, nAsks>>

BackoffPasses ==
    /\ hostc.recent /\ hostc' = [hostc EXCEPT !.recent = FALSE]
    /\ UNCHANGED <<g, br, asks, known, nAsks>>
-----------------------------------------------------------------------------
(* A handler. *)

\* bridgeFor, targets and watchTargets: an explicit host, the host an id was
\* discovered on, or every connected host.  by is the way the tool called
\* finds its daemon; which tool of that way it is matters only in Work.
Call(k, by, remote) ==
    /\ g[k].pc = "idle" /\ nCalls < MaxCalls /\ nCalls' = nCalls + 1
    /\ LET toRemote == remote \/ (known /\ by \in {"id", "narrow", "watch"})
           begun == [Idle EXCEPT !.by = IF by = "watch" \/ (by = "narrow" /\ toRemote /\ ~remote)
                                        THEN by ELSE "one"]
       IN  CASE by = "status" -> ConnectedThen(g)
             [] by # "status" /\ toRemote ->
                  g' = [g EXCEPT ![k] = [begun EXCEPT !.pc = "connect"]] /\ UNCHANGED hostc
             [] by \in {"all", "narrow", "watch"} /\ ~toRemote ->
                  \* panes that are not known to be remote are watched locally
                  \E todo \in {connected} \cup (IF by = "watch" THEN {<<LocalBridge>>} ELSE {}) :
                    ConnectedThen([g EXCEPT ![k] = [begun EXCEPT !.pc = "work", !.fan = TRUE,
                                                                 !.todo = todo]])
             [] by \in {"id", "host"} /\ ~toRemote ->
                  g' = [g EXCEPT ![k] = [begun EXCEPT !.pc = "work", !.todo = <<LocalBridge>>]]
                  /\ UNCHANGED hostc
    /\ UNCHANGED <<br, asks, known, nAsks>>

\* requestWithTimeout enters its channel in pending under a new id; the
\* channel may be closed before the message is sent.
Ask(k, n, c) == [k |-> k, n |-> n, c |-> c, st |-> "made", closed |-> FALSE]
Registered(bs, as) == [c \in DOMAIN bs |-> [bs[c] EXCEPT !.pend = @ \cup
                         {[k |-> a.k, n |-> a.n] : a \in {b \in as : b.c = c}}]]

\* forEachHost after an error: another host's is noted and skipped, the local
\* or the named one's ends the call.
Skips(k, c) == g[k].fan /\ c # LocalBridge
NextTarget(k, tool) == IF Len(g[k].todo) = 1 THEN Idle
                       ELSE [g[k] EXCEPT !.todo = Tail(@), !.pc = "work", !.left = 0, !.tool = tool]
HostError(k, c, tool) ==
    g' = [g EXCEPT ![k] = IF Skips(k, c) THEN NextTarget(k, tool) ELSE Idle]

\* The tools the handler may be running; one that has begun is fixed.
MayRun(k) ==
    IF g[k].tool # NoTool THEN {g[k].tool}
    ELSE {t \in McpTools : IF g[k].by = "watch" THEN t.by = "watch"
                           ELSE IF g[k].fan THEN t.by \in {"all", "narrow"}
                           ELSE t.by \notin {"watch", "status"}}

\* What the rest of the handler still reads of its tool.
Kept(k, tool) == [tool EXCEPT !.by = "one", !.gated = @ /\ Len(g[k].todo) > 1, !.asks = 1,
                              !.learns = @ /\ (Len(g[k].todo) > 1 \/ g[k].todo # <<LocalBridge>>)]

requireDaemon(tool, c) == ~(tool.gated /\ br[c].old)

\* The handler reaches its next daemon.
Work(k) ==
    /\ g[k].pc = "work"
    /\ \E tool \in MayRun(k) :
         LET c == Head(g[k].todo)  n == nAsks[k] + 1
         IN  \/ /\ ~requireDaemon(tool, c)
                /\ HostError(k, c, tool) /\ UNCHANGED <<br, asks, nAsks>>
             \/ LET as == {Ask(k, n + i - 1, g[k].todo[i]) : i \in DOMAIN g[k].todo}
                IN  /\ requireDaemon(tool, c) /\ tool.by = "watch"
                    /\ nAsks[k] + Len(g[k].todo) <= MaxAsks
                    /\ asks' = asks \cup as /\ br' = Registered(br, as)
                    /\ nAsks' = [nAsks EXCEPT ![k] = @ + Len(g[k].todo)]
                    /\ g' = [g EXCEPT ![k].pc = "watch", ![k].left = Len(g[k].todo)]
             \/ /\ requireDaemon(tool, c) /\ tool.by # "watch" /\ tool.asks = 0
                /\ Return(k) /\ UNCHANGED <<br, asks, nAsks>>
             \/ /\ requireDaemon(tool, c) /\ tool.by # "watch" /\ tool.asks > 0 /\ n <= MaxAsks
                /\ asks' = asks \cup {Ask(k, n, c)} /\ br' = Registered(br, {Ask(k, n, c)})
                /\ nAsks' = [nAsks EXCEPT ![k] = n]
                /\ g' = [g EXCEPT ![k].pc = "await", ![k].left = tool.asks - 1, ![k].by = "one",
                                  ![k].tool = Kept(k, tool)]
    /\ UNCHANGED <<hostc, known>>

Id(a) == [k |-> a.k, n |-> a.n]
Becomes(a, b) == asks' = (asks \ {a}) \cup {b}
Forget(bs, a) == [bs EXCEPT ![a.c].pend = @ \ {Id(a)}]

\* client.Send: it fails on a closed client and may fail on a broken link;
\* then the entry goes.
SendAsk(a) ==
    /\ a \in asks /\ a.st = "made"
    /\ \/ /\ br[a.c].open
          /\ br' = [br EXCEPT ![a.c].sent = @ \cup {Id(a)}]
          /\ Becomes(a, [a EXCEPT !.st = IF a.closed THEN "error" ELSE "sent", !.closed = FALSE])
       \/ /\ ~br[a.c].open \/ ~br[a.c].up
          /\ br' = Forget(br, a) /\ Becomes(a, [a EXCEPT !.st = "error", !.closed = FALSE])
    /\ UNCHANGED <<g, hostc, known, nAsks>>

\* The timer's arm deletes the entry.
AskTimesOutKept(a) ==
    /\ a \in asks /\ a.st = "sent"
    /\ Becomes(a, [a EXCEPT !.st = "error"])
    /\ UNCHANGED <<g, hostc, br, known, nAsks>>
AskTimesOut(a) ==
    /\ a \in asks /\ a.st = "sent"
    /\ br' = Forget(br, a)
    /\ Becomes(a, [a EXCEPT !.st = "error"])
    /\ UNCHANGED <<g, hostc, known, nAsks>>

\* The handler gets its answer: it learns the ids, asks again, goes on to
\* the next daemon, or returns.  The daemon may also have refused.
AskEnds(k) ==
    /\ g[k].pc = "await"
    /\ \E a \in asks :
         /\ a.k = k /\ a.n = nAsks[k] /\ a.st \in {"answer", "error"}
         /\ asks' = asks \ {a}
         /\ LET c == a.c
            IN  \/ /\ a.st = "answer"
                   /\ known' = (known \/ (g[k].tool.learns /\ c # LocalBridge))
                   /\ g' = [g EXCEPT ![k] = IF g[k].left > 0 THEN [@ EXCEPT !.pc = "again"]
                                            ELSE NextTarget(k, g[k].tool)]
                \/ /\ HostError(k, c, g[k].tool) /\ UNCHANGED known
    /\ UNCHANGED <<hostc, br, nAsks>>

\* The second round trip of the tools that make two; a refused first ends
\* send_to_pane and send_keys, not the look-ups of the others.
AskAgain(k) ==
    /\ g[k].pc = "again" /\ nAsks[k] < MaxAsks
    /\ LET a == Ask(k, nAsks[k] + 1, Head(g[k].todo))
       IN  asks' = asks \cup {a} /\ br' = Registered(br, {a})
    /\ nAsks' = [nAsks EXCEPT ![k] = @ + 1]
    /\ g' = [g EXCEPT ![k].pc = "await", ![k].left = 0]
    /\ UNCHANGED <<hostc, known>>

\* watch_notifications collects one result per daemon until an event; the
\* other requests run on without it.
WatchResult(k) ==
    /\ g[k].pc = "watch"
    /\ \E a \in asks :
         /\ a.k = k /\ a.st \in {"answer", "error"}
         /\ a.n \in (nAsks[k] - Len(g[k].todo) + 1) .. nAsks[k]
         /\ asks' = asks \ {a}
         /\ \/ /\ a.st = "answer" /\ Return(k)
            \/ g' = [g EXCEPT ![k] = IF @.left = 1 THEN Idle ELSE [g[k] EXCEPT !.left = @ - 1]]
    /\ UNCHANGED <<hostc, br, known, nAsks>>
OrphanEnds(a) ==
    /\ a \in asks /\ a.st \in {"answer", "error"}
    /\ ~(g[a.k].pc \in {"await", "watch"} /\ a.n > nAsks[a.k] - Len(g[a.k].todo))
    /\ asks' = asks \ {a}
    /\ UNCHANGED <<g, hostc, br, known, nAsks>>
-----------------------------------------------------------------------------
(* The reader. *)

\* readLoop: an answer goes to the pending channel of its id, once; one that
\* nobody waits for is dropped.
ReadAnswer(c, id) ==
    /\ c \in DOMAIN br /\ br[c].open /\ br[c].up /\ ~br[c].dead /\ id \in br[c].sent
    /\ LET mine == {a \in asks : Id(a) = id /\ a.c = c}
       IN  /\ br' = [br EXCEPT ![c].sent = @ \ {id}, ![c].pend = @ \ {id}]
           /\ asks' = IF id \notin br[c].pend THEN asks
                      ELSE (asks \ mine) \cup {[a EXCEPT !.st = "answer"] : a \in mine}
    /\ UNCHANGED <<g, hostc, known, nAsks>>

LinkCut(c) ==
    /\ c \in DOMAIN br /\ br[c].up /\ c # LocalBridge
    /\ br' = [br EXCEPT ![c].up = FALSE]
    /\ UNCHANGED <<g, hostc, asks, known, nAsks>>

\* Receive fails: dead, and every pending channel is closed.
ReadFails(c) ==
    /\ c \in DOMAIN br /\ ~br[c].dead /\ (~br[c].up \/ ~br[c].open)
    /\ LET hit == {a \in asks : a.c = c /\ Id(a) \in br[c].pend}
       IN  asks' = (asks \ hit) \cup {IF a.st = "made" THEN [a EXCEPT !.closed = TRUE]
                                        ELSE [a EXCEPT !.st = "error"] : a \in hit}
    /\ br' = [br EXCEPT ![c].dead = TRUE, ![c].pend = {}, ![c].sent = {}]
    /\ UNCHANGED <<g, hostc, known, nAsks>>

\* A nil bridge ends the process.
BridgeRunning == \A k \in Calls : g[k].pc # "nil"

BridgeStep ==
    \/ \E x \in Routines : Connect(x) \/ BridgeDial(x) \/ Publish(x) \/ dialOutcome(x)
    \/ \E k \in Calls : \/ Grab(k) \/ Work(k) \/ AskEnds(k) \/ AskAgain(k) \/ WatchResult(k)
                        \/ AllHosts(k)
    \/ \E a \in asks : SendAsk(a) \/ AskTimesOut(a) \/ OrphanEnds(a)
    \/ \E c \in 1 .. MaxBridges : \/ LinkCut(c) \/ ReadFails(c)
                                  \/ c \in DOMAIN br /\ \E id \in br[c].sent : ReadAnswer(c, id)
    \/ RetryEnds \/ BackoffPasses

BridgeNext ==
    /\ BridgeRunning
    /\ \/ \E k \in Calls, by \in {t.by : t \in McpTools}, remote \in BOOLEAN : Call(k, by, remote)
       \/ nCalls' = nCalls /\ BridgeStep

BridgeSpec == BridgeInit /\ [][BridgeNext]_brVars
-----------------------------------------------------------------------------
(* What the tools rely on while calls, losses and redials cross: every     *)
(* entry of a pending map is awaited by a request of that very bridge, so  *)
(* an answer wakes its own caller once and nothing is left behind; a       *)
(* request on a living reader can still be answered; one goroutine dials   *)
(* the host at a time and the others' wait ends with it; every open        *)
(* connection is the published one, the one being handed over, or one its  *)
(* dropper is about to close; and the retry flag has its goroutine.        *)
BridgesTended ==
    /\ \A c \in DOMAIN br : \A id \in br[c].pend :
         \E a \in asks : Id(a) = id /\ a.c = c /\ a.st \in {"made", "sent"} /\ ~a.closed
    /\ \A a \in asks : a.st = "made" /\ ~br[a.c].dead => Id(a) \in br[a.c].pend
    /\ Cardinality({x \in Routines : g[x].pc \in {"dial", "publish"}})
         = (IF hostc.dialing THEN 1 ELSE 0)
    /\ \A x \in Routines : g[x].pc = "wait" => hostc.dialing
    /\ \A c \in DOMAIN br \ {LocalBridge} : br[c].open =>
         \/ hostc.bridge = c
         \/ \E x \in Routines : g[x].pc \in {"dial", "publish"} /\ g[x].conn = c
    /\ hostc.retry <=> g["retry"].pc # "idle"
=============================================================================

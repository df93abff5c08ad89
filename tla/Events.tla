------------------------------- MODULE Events -------------------------------
(***************************************************************************)
(* The notification queue, the agents that wait for its next event         *)
(* (internal/daemon/event.go, handleWatchNotificationsReq).  Every push   *)
(* has a later timestamp than the one   *)
(* before it; an agent passes the timestamp of the last event it handled.  *)
(***************************************************************************)
EXTENDS Integers, Sequences, FiniteSets, SequencesExt

CONSTANTS Agents,    \* connections that watch
          EvPanes,   \* panes events come from
          Titles,    \* event titles
          MaxEvents, \* the queue's max
          MaxPushes  \* bound: events ever pushed

VARIABLES evq,       \* eventQueue.events, newest first: [id, pane, title, ts, count]
          now,       \* the last timestamp given
          watch,     \* each agent's request: pc, cursor, pane filter, watcher channel
          muted      \* panes whose notifications are off

evVars == <<evq, now, watch, muted>>

Watching == {a \in Agents : watch[a].on}
NoEvent == 0
Matches(a, p) == watch[a].filter = {} \/ p \in watch[a].filter

EvInit ==
    /\ evq = <<>> /\ now = 0 /\ muted = {}
    /\ watch = [a \in Agents |-> [pc |-> "idle", since |-> 0, filter |-> {}, on |-> FALSE,
                                  ch |-> NoEvent]]
-----------------------------------------------------------------------------
\* The queued event of the same pane and title lends its ID and count.
Aggregate(p, t) ==
    LET old == SelectSeq(evq, LAMBDA e : e.pane = p /\ e.title = t)
    IN  IF old = <<>>
        THEN [id |-> now + 1, pane |-> p, title |-> t, ts |-> now + 1, count |-> 1]
        ELSE [id |-> old[1].id, pane |-> p, title |-> t, ts |-> now + 1,
              count |-> old[1].count + 1]

\* Matching watchers get the event and leave the list.
Wake(p, ts) ==
    [a \in Agents |-> IF watch[a].on /\ Matches(a, p)
                      THEN [watch[a] EXCEPT !.on = FALSE, !.ch = ts] ELSE watch[a]]

\* emitEvent of a card: muted panes and work-state events are only broadcast,
\* the rest is pushed: repeats collapse, the oldest falls off, watchers wake.
EmitEvent(p, t) ==
    LET e == Aggregate(p, t)
        rest == SelectSeq(evq, LAMBDA x : ~(x.pane = p /\ x.title = t))
    IN  /\ now < MaxPushes
        /\ IF p \in muted THEN UNCHANGED <<evq, now, watch>>
           ELSE /\ now' = now + 1
                /\ evq' = SubSeq(<<e>> \o rest, 1, IF Len(rest) < MaxEvents THEN Len(rest) + 1
                                                   ELSE MaxEvents)
                /\ watch' = Wake(p, now + 1)
        /\ UNCHANGED muted

\* handleUpdatePane toggles the pane's Muted.
ToggleMute(p) ==
    /\ muted' = IF p \in muted THEN muted \ {p} ELSE muted \cup {p}
    /\ UNCHANGED <<evq, now, watch>>

\* handleDismissEvent: one card, or all of them.
DismissEvent ==
    /\ evq # <<>>
    /\ \/ \E i \in DOMAIN evq : evq' = RemoveAt(evq, i)
       \/ evq' = <<>>
    /\ UNCHANGED <<now, watch, muted>>
-----------------------------------------------------------------------------
(* handleWatchNotificationsReq. *)

\* FindSince: the oldest event past the cursor that passes the filter.
FindSince(a) ==
    LET hits == SelectSeq(Reverse(evq), LAMBDA e : e.ts > watch[a].since /\ Matches(a, e.pane))
    IN  IF hits = <<>> THEN NoEvent ELSE hits[1].ts

\* The answer: the agent handles the event and moves its cursor past it.
Answer(a, ts) ==
    watch' = [watch EXCEPT ![a].pc = "idle", ![a].on = FALSE, ![a].ch = NoEvent,
                           ![a].since = IF ts = NoEvent THEN @ ELSE ts]

\* Mutant of WatchFind: the queue is not consulted.
WatchFindSkipped(a) ==
    /\ watch[a].pc = "idle"
    /\ watch' = [watch EXCEPT ![a].pc = "register"]
    /\ UNCHANGED <<evq, now, muted>>

\* since_timestamp: an event already queued answers at once.
WatchFind(a) ==
    /\ watch[a].pc = "idle"
    /\ IF watch[a].since > 0 /\ FindSince(a) # NoEvent
       THEN Answer(a, FindSince(a))
       ELSE watch' = [watch EXCEPT ![a].pc = "register"]
    /\ UNCHANGED <<evq, now, muted>>

\* The connection's earlier watcher, if any, is closed and a new one added.
WatchRegister(a) ==
    /\ watch[a].pc = "register"
    /\ watch' = [watch EXCEPT ![a].pc = "wait", ![a].on = TRUE, ![a].ch = NoEvent]
    /\ UNCHANGED <<evq, now, muted>>

WatchAnswer(a) ==
    /\ watch[a].pc = "wait" /\ watch[a].ch # NoEvent
    /\ Answer(a, watch[a].ch)
    /\ UNCHANGED <<evq, now, muted>>

\* The timer; select may prefer it to an event that is already there.
WatchTimeout(a) ==
    /\ watch[a].pc = "wait"
    /\ Answer(a, NoEvent)
    /\ UNCHANGED <<evq, now, muted>>

\* onClientDisconnect closes the watcher; the agent comes back with its cursor
\* and perhaps another filter.
Disconnect(a) ==
    /\ \E f \in {{}} \cup {{p} : p \in EvPanes} :
         watch' = [watch EXCEPT ![a] = [pc |-> "idle", since |-> @.since, filter |-> f,
                                        on |-> FALSE, ch |-> NoEvent]]
    /\ UNCHANGED <<evq, now, muted>>

AgentStep(a) == WatchFind(a) \/ WatchRegister(a) \/ WatchAnswer(a)
EvNext ==
    \/ \E p \in EvPanes, t \in Titles : EmitEvent(p, t)
    \/ \E p \in EvPanes : ToggleMute(p)
    \/ DismissEvent
    \/ \E a \in Agents : AgentStep(a) \/ WatchTimeout(a) \/ Disconnect(a)

\* An agent that loops, a daemon that serves it, and timers that fire.
EvFairness ==
    \A a \in Agents : WF_evVars(AgentStep(a)) /\ SF_evVars(WatchFind(a))
                      /\ WF_evVars(WatchTimeout(a))
-----------------------------------------------------------------------------
\* An agent that passes the timestamp of its last event is never stuck before
\* a card: its cursor gets past it unless the card is dismissed, repeated or
\* pushed out first, although a watch may miss a push and time out.
NothingMissed == EvFairness =>
    \A a \in Agents, t \in 1 .. MaxPushes :
        (watch[a].since > 0 /\ \E i \in DOMAIN evq : evq[i].ts = t /\ Matches(a, evq[i].pane))
            ~> (watch[a].since >= t \/ (\A i \in DOMAIN evq : evq[i].ts # t)
                \/ \E i \in DOMAIN evq : evq[i].ts = t /\ ~Matches(a, evq[i].pane))

EvSpec == EvInit /\ [][EvNext]_evVars
=============================================================================

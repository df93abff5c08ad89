------------------------------- MODULE Replay -------------------------------
(***************************************************************************)
(* A pane's bytes from its child to every client's screen: the daemon's    *)
(* output buffer and restore snapshot, the live stream, the replay sent    *)
(* on attach, restarts of the child, and what a client does with frames of *)
(* an older child or after an outage (internal/daemon/daemon.go            *)
(* handleAttach, flushPaneOutputGeneration, handleRestartPaneReq,          *)
(* internal/tui/model.go handlePaneOutput, pane.go, reconnect.go).         *)
(***************************************************************************)
EXTENDS Naturals, Sequences, FiniteSets, SequencesExt

CONSTANTS
  Viewers,      \* clients
  MaxChildren,  \* bound: children the pane runs
  MaxChunks,    \* bound: chunks of output
  MaxAttaches   \* bound: attaches

ASSUME ReplayAssumption == MaxChildren \in Nat

VARIABLES
  pane,         \* the daemon's pane
  streams,      \* output goroutines: child -> "idle", "read" or "wrote"
  replays,      \* attaches between taking the buffer and sending it
  lanes,        \* viewer -> critical and output frames queued for it
  view,         \* viewer -> its emulator; top: the newest child drawn on this connection
  snapTaken,        \* attaches so far
  chunks        \* chunks read so far

replayVars == <<pane, streams, replays, lanes, view, snapTaken, chunks>>

Children == 1..MaxChildren
Previous == 0         \* bytes of the session before the daemon's restart

(* restoreWorkspace seeds the buffer from disk and keeps a snapshot of it. *)
(* own: the plugin resumes a session and repaints its own history; key: it *)
(* declares a redraw key.                                                  *)
ReplayInit ==
  /\ \E kept, own, key \in BOOLEAN :
       pane = [snap |-> kept, buf |-> IF kept THEN <<Previous>> ELSE <<>>, seeded |-> kept, gen |-> 0,
               pty |-> FALSE, alt |-> FALSE, restart |-> "none", wrote |-> FALSE,
               own |-> own, key |-> key]
  /\ streams = [g \in Children |-> "idle"]
  /\ replays = {} /\ snapTaken = 0 /\ chunks = 0
  /\ lanes = [v \in Viewers |-> [crit |-> <<>>, out |-> <<>>]]
  /\ view = [v \in Viewers |-> [up |-> TRUE, conn |-> 1, gen |-> 0, reset |-> FALSE, ghost |-> FALSE, top |-> 0, screen |-> {}]]

Frame(v, kind, gens, late) == [kind |-> kind, gens |-> gens, late |-> late, conn |-> view[v].conn]

----------------------------------------------------------------------------
(* spawnPane installs a child and gives it the next generation.            *)
SpawnChild ==
  /\ ~pane.pty /\ pane.gen < MaxChildren /\ pane.restart \in {"none", "reset"}
  /\ pane' = [pane EXCEPT !.pty = TRUE, !.gen = @ + 1, !.restart = "none", !.wrote = FALSE, !.alt = FALSE]
  /\ UNCHANGED <<streams, replays, lanes, view, snapTaken, chunks>>

(* handleRestartPaneReq: the old PTY is taken out under the lock, then the *)
(* buffer is cleared, then the new child is spawned.                       *)
RestartPane ==
  /\ pane.pty /\ pane.gen < MaxChildren
  /\ pane' = [pane EXCEPT !.pty = FALSE, !.restart = "closed", !.alt = FALSE]
  /\ UNCHANGED <<streams, replays, lanes, view, snapTaken, chunks>>

RestartClearsBuffer ==
  /\ pane.restart = "closed"
  /\ pane' = [pane EXCEPT !.buf = <<>>, !.restart = "reset"]
  /\ UNCHANGED <<streams, replays, lanes, view, snapTaken, chunks>>

(* streamPTYOutput: a child's goroutine reads a chunk, even one the child  *)
(* wrote before it was replaced.                                           *)
StreamReads(g) ==
  /\ g <= pane.gen /\ streams[g] = "idle" /\ chunks < MaxChunks
  /\ streams' = [streams EXCEPT ![g] = "read"]
  /\ chunks' = chunks + 1
  /\ UNCHANGED <<pane, replays, lanes, view, snapTaken>>

(* flushPaneOutputGeneration under the lock: a chunk of a child that has   *)
(* been replaced is dropped; the first one takes the buffer over from the  *)
(* previous session.                                                       *)
FlushToBuffer(g) ==
  /\ streams[g] = "read"
  /\ IF g = pane.gen /\ pane.pty
     THEN /\ streams' = [streams EXCEPT ![g] = "wrote"]
          /\ pane' = [pane EXCEPT !.buf = IF pane.seeded THEN <<g>> ELSE Append(pane.buf, g),
                                  !.seeded = FALSE, !.wrote = TRUE]
     ELSE streams' = [streams EXCEPT ![g] = "idle"] /\ UNCHANGED pane
  /\ UNCHANGED <<replays, lanes, view, snapTaken, chunks>>

(* The frame is broadcast after the lock is released.                      *)
FlushBroadcasts(g) ==
  /\ streams[g] = "wrote"
  /\ streams' = [streams EXCEPT ![g] = "idle"]
  /\ lanes' = [v \in Viewers |-> IF view[v].up THEN [lanes[v] EXCEPT !.out = Append(@, Frame(v, "live", {g}, FALSE))]
                                 ELSE lanes[v]]
  /\ UNCHANGED <<pane, replays, view, snapTaken, chunks>>

(* The child enters or leaves the alternate screen.                        *)
AltScreen ==
  /\ pane.pty /\ pane.wrote
  /\ pane' = [pane EXCEPT !.alt = ~@]
  /\ UNCHANGED <<streams, replays, lanes, view, snapTaken, chunks>>

----------------------------------------------------------------------------
ghostEnabled == ~(pane.key /\ pane.alt)

(* What an attach replays, and whether that was the restore snapshot.      *)
ReplaySource ==
  CASE ~ghostEnabled -> "none"
    [] ghostEnabled /\ ~pane.snap -> "outputbuf"
    [] ghostEnabled /\ pane.snap /\ ~pane.own -> "ghostsnap"
    [] ghostEnabled /\ pane.snap /\ pane.own -> IF pane.seeded THEN "none" ELSE "outputbuf"

ReplayBytes ==
  CASE ReplaySource = "none" -> {}
    [] ReplaySource = "outputbuf" -> ToSet(pane.buf)
    [] ReplaySource = "ghostsnap" -> {Previous}

SnapAfterKept == pane.snap /\ ~ghostEnabled

(* The snapshot is for the first attach, whatever that attach does with it. *)
SnapAfter == FALSE

(* handleAttach for this pane: type, snapshot and buffer are read and the  *)
(* snapshot taken in one lock span; a pane with nothing to replay is asked *)
(* to repaint itself.                                                      *)
HandleAttach(v) ==
  /\ view[v].up /\ snapTaken < MaxAttaches
  /\ ~\E r \in replays : r.viewer = v
  /\ snapTaken' = snapTaken + 1
  /\ pane' = [pane EXCEPT !.snap = SnapAfter]
  /\ replays' = replays \cup
       (IF ReplayBytes = {} THEN {}
        ELSE {[viewer |-> v, conn |-> view[v].conn, gens |-> ReplayBytes, out |-> ReplaySource = "ghostsnap",
               late |-> snapTaken > 0 /\ pane.wrote]})
  /\ UNCHANGED <<streams, lanes, view, chunks>>

(* sendGhostChunked, followed for the snapshot by the scroll-out.          *)
SendGhostChunked(r) ==
  /\ replays' = replays \ {r}
  /\ lanes' = IF view[r.viewer].up /\ view[r.viewer].conn = r.conn
              THEN [lanes EXCEPT ![r.viewer].crit =
                      @ \o <<Frame(r.viewer, "ghost", r.gens, r.late)>>
                        \o (IF r.out THEN <<Frame(r.viewer, "ghost", {}, FALSE)>> ELSE <<>>)]
              ELSE lanes
  /\ UNCHANGED <<pane, streams, view, snapTaken, chunks>>

----------------------------------------------------------------------------
(* A byte on a screen: where it came from and over which connection.       *)
Drawn(v, f) == {[gen |-> g, kind |-> f.kind, late |-> f.late, conn |-> view[v].conn] : g \in f.gens}

resetForReattach(e) == [e EXCEPT !.screen = {}]

(* acceptOutputGeneration: a newer child clears the screen first, an older *)
(* child's frame is not drawn.  Replays carry no generation.               *)
acceptOutputGenerationAny(e, g) == TRUE
acceptOutputGeneration(e, g) == g >= e.gen
newGeneration(e, g) ==
  LET cleared == IF e.gen # 0 /\ g # e.gen THEN [resetForReattach(e) EXCEPT !.ghost = FALSE, !.reset = FALSE] ELSE e
  IN [cleared EXCEPT !.gen = g]

handlePaneOutput(v, f) ==
  LET e == view[v]
      g == CHOOSE x \in f.gens : TRUE
  IN IF f.kind = "live"
     THEN IF acceptOutputGeneration(e, g)
          THEN [newGeneration(e, g) EXCEPT !.ghost = FALSE, !.top = IF g > @ THEN g ELSE @,
                                           !.screen = @ \cup Drawn(v, f)]
          ELSE e
     ELSE LET first == IF e.reset THEN [resetForReattach(e) EXCEPT !.reset = FALSE] ELSE e
          IN [first EXCEPT !.ghost = TRUE, !.screen = @ \cup Drawn(v, f)]

(* The connection's writer sends output only when nothing critical waits.  *)
Receive(v) ==
  /\ view[v].up
  /\ \/ /\ lanes[v].crit # <<>>
        /\ view' = [view EXCEPT ![v] = handlePaneOutput(v, Head(lanes[v].crit))]
        /\ lanes' = [lanes EXCEPT ![v].crit = Tail(@)]
     \/ /\ lanes[v].crit = <<>> /\ lanes[v].out # <<>>
        /\ view' = [view EXCEPT ![v] = handlePaneOutput(v, Head(lanes[v].out))]
        /\ lanes' = [lanes EXCEPT ![v].out = Tail(@)]
  /\ UNCHANGED <<pane, streams, replays, snapTaken, chunks>>

ReplayLinkLost(v) ==
  /\ view[v].up /\ view[v].conn = 1
  /\ view' = [view EXCEPT ![v].up = FALSE]
  /\ lanes' = [lanes EXCEPT ![v] = [crit |-> <<>>, out |-> <<>>]]
  /\ UNCHANGED <<pane, streams, replays, snapTaken, chunks>>

(* finishReconnect arms the reset that the first replayed chunk performs.  *)
armReattachReset(v) ==
  /\ ~view[v].up
  /\ view' = [view EXCEPT ![v].up = TRUE, ![v].conn = 2, ![v].reset = TRUE, ![v].gen = 0, ![v].top = 0]
  /\ UNCHANGED <<pane, streams, replays, lanes, snapTaken, chunks>>

ReplayNext ==
  \/ SpawnChild \/ RestartPane \/ RestartClearsBuffer \/ AltScreen
  \/ \E g \in Children : StreamReads(g) \/ FlushToBuffer(g) \/ FlushBroadcasts(g)
  \/ \E v \in Viewers : HandleAttach(v) \/ Receive(v) \/ ReplayLinkLost(v) \/ armReattachReset(v)
  \/ \E r \in replays : SendGhostChunked(r)

ReplaySpec == ReplayInit /\ [][ReplayNext]_replayVars

----------------------------------------------------------------------------
(* The daemon's buffer holds one child's bytes (or, before the child has   *)
(* written, the previous session's), even while a replaced child's reader  *)
(* still runs.  Of the live bytes drawn on one connection a screen shows   *)
(* only the newest child's.  A replay after an outage never stands beside bytes   *)
(* drawn before it.  And once the child has written, an attach that is not *)
(* the first since the daemon's start never replays the previous session.  *)
OneChildPerScreen ==
  /\ Cardinality(ToSet(pane.buf)) <= 1
  /\ pane.restart = "none" /\ ~pane.seeded => ToSet(pane.buf) \subseteq {pane.gen}
  /\ \A v \in Viewers :
       LET shown == view[v].screen
           here == {b \in shown : b.conn = view[v].conn}
       IN /\ \A b \in here : b.kind = "live" => b.gen = view[v].top
          /\ (\E b \in here : b.kind = "ghost") => \A b \in shown : b.conn = view[v].conn
          /\ ~\E b \in shown : b.late /\ b.gen = Previous
=============================================================================

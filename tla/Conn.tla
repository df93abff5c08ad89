-------------------------------- MODULE Conn --------------------------------
(***************************************************************************)
(* One IPC connection (internal/ipc/server.go): the bounded must-deliver   *)
(* and droppable queues, the goroutines that fill them, the one that       *)
(* drains them into the socket, the reader that owns the teardown, and a   *)
(* Flush.  A frame is named by its sender and a serial number; the socket  *)
(* takes it in FrameLen chunks.  Each atomic load, store, counter update   *)
(* and channel operation is a step; markDead's stores, which only ever go  *)
(* one way, are one.                                                       *)
(***************************************************************************)
EXTENDS Integers, Sequences, FiniteSets, TLC

CONSTANTS Senders,     \* goroutines calling Send (replies, broadcasts)
          Outputs,     \* goroutines broadcasting live pane output
          Reader,      \* the connection's own goroutine, which replays
          SendBufSize, SendHeadroom,
          FrameLen,    \* chunks the socket takes a frame in
          Quota,       \* bound: frames each sender sends
          Replays,     \* bound: frames the reader replays
          Faults,      \* TRUE when the peer may vanish or stall
          Flushes      \* TRUE on the client side, which flushes before it exits

ASSUME ConnAssumption ==
    /\ SendBufSize \in Nat \ {0} /\ SendHeadroom \in Nat /\ SendHeadroom <= SendBufSize
    /\ FrameLen \in Nat \ {0} /\ Quota \in Nat /\ Replays \in Nat
    /\ IsFiniteSet(Senders) /\ Reader \notin Senders \cup Outputs /\ Faults \in BOOLEAN /\ Flushes \in BOOLEAN

VARIABLES critCh, outCh, pending, closed, overflow, dropped,
          raw,         \* the socket: "open", "closing" (Close entered), "closed"
          loop,        \* sendLoop: label, frame in hand, its progress
          snd,         \* each sender: label and serial number
          reader,      \* handleConn's label
          closing,     \* the goroutine the overflow spawned is yet to run
          flush,       \* a Flush: label, frames it must see out, result
          accepted,    \* history: must-deliver frames in channel order
          returned,    \* history: those whose Send has returned nil
          delivered,   \* history: those written in full, in order
          tail,        \* history: the last chunk the socket took
          ahead,       \* history: output frames taken past a waiting one
          left         \* history: onDisconnect calls

queues == <<critCh, outCh, pending, dropped>>
flags == <<closed, overflow, raw, closing>>
hist == <<accepted, returned, delivered, tail, ahead, left>>
vars == <<queues, flags, loop, snd, reader, flush, hist>>

Pushers == Senders \cup {Reader}
Everyone == Pushers \cup Outputs
Frame == Everyone \X Nat
NoFrame == <<Reader, 0>>

At(s, pc) == snd[s].pc = pc
Goto(s, pc) == snd' = [snd EXCEPT ![s].pc = pc]

Init ==
    /\ critCh = <<>> /\ outCh = <<>> /\ pending = 0 /\ dropped = 0
    /\ closed = FALSE /\ overflow = FALSE /\ raw = "open" /\ closing = FALSE
    /\ loop = [pc |-> "first", frame |-> NoFrame, off |-> 0, base |-> 0]
    /\ snd = [s \in Everyone |-> [pc |-> "idle", n |-> 0]]
    /\ reader = "read"
    /\ flush = [pc |-> "idle", owes |-> {}, ok |-> FALSE]
    /\ accepted = <<>> /\ returned = {} /\ delivered = <<>>
    /\ tail = [frame |-> NoFrame, i |-> FrameLen]
    /\ ahead = 0 /\ left = 0

Refusing == closed \/ overflow

\* markDead: refuse sends, close done, unpark the reader.
MarkDead == closed' = TRUE
-----------------------------------------------------------------------------
(* Producers. *)

Begin(s, bound) ==
    /\ At(s, "idle")
    /\ snd[s].n < bound
    /\ snd' = [snd EXCEPT ![s] = [pc |-> "check", n |-> @.n + 1]]

\* A call of Send, SendDroppable or Broadcast's enqueue.
StartSend(s) ==
    /\ s \in Senders \cup Outputs
    /\ Begin(s, Quota)
    /\ UNCHANGED <<queues, flags, loop, reader, flush, hist>>

\* closed || overflow: ErrSendOverflow.
Check(s) ==
    /\ s \in Senders \cup Outputs
    /\ At(s, "check")
    /\ Goto(s, IF Refusing THEN "idle" ELSE "push")
    /\ UNCHANGED <<queues, flags, loop, reader, flush, hist>>

\* The channel send of a must-deliver frame.
Push(s) ==
    /\ critCh' = Append(critCh, <<s, snd[s].n>>)
    /\ accepted' = Append(accepted, <<s, snd[s].n>>)
    /\ Goto(s, "count")

\* Mutant of EnqueueCritical: off by one at the full queue.
EnqueueCriticalPastEnd(s) ==
    /\ s \in Senders
    /\ At(s, "push")
    /\ IF Len(critCh) <= SendBufSize
       THEN Push(s) /\ UNCHANGED <<overflow, closing>>
       ELSE /\ Goto(s, "idle")
            /\ overflow' = TRUE
            /\ closing' = (closing \/ ~overflow)
            /\ UNCHANGED <<critCh, accepted>>
    /\ UNCHANGED <<outCh, pending, dropped, closed, raw, loop, reader, flush,
                   returned, delivered, tail, ahead, left>>

\* Mutant of EnqueueCritical: overflow is flagged, nobody closes the conn.
EnqueueCriticalNoClose(s) ==
    /\ s \in Senders
    /\ At(s, "push")
    /\ IF Len(critCh) < SendBufSize
       THEN Push(s) /\ UNCHANGED overflow
       ELSE /\ Goto(s, "idle")
            /\ overflow' = TRUE
            /\ UNCHANGED <<critCh, accepted>>
    /\ UNCHANGED <<outCh, pending, dropped, closed, raw, closing, loop, reader, flush,
                   returned, delivered, tail, ahead, left>>

\* Mutant of EnqueueCritical: the conn survives a full queue, the frame is lost.
EnqueueCriticalSheds(s) ==
    /\ s \in Senders
    /\ At(s, "push")
    /\ IF Len(critCh) < SendBufSize
       THEN Push(s) /\ UNCHANGED <<overflow, closing>>
       ELSE /\ accepted' = Append(accepted, <<s, snd[s].n>>)
            /\ Goto(s, "idle")
            /\ UNCHANGED <<critCh, overflow, closing>>
    /\ UNCHANGED <<outCh, pending, dropped, closed, raw, loop, reader, flush,
                   returned, delivered, tail, ahead, left>>

\* enqueue, must-deliver: a full queue trips the slow-client close, once.
EnqueueCritical(s) ==
    /\ s \in Senders
    /\ At(s, "push")
    /\ IF Len(critCh) < SendBufSize
       THEN Push(s) /\ UNCHANGED <<overflow, closing>>
       ELSE /\ Goto(s, "idle")
            /\ overflow' = TRUE
            /\ closing' = (closing \/ ~overflow)
            /\ UNCHANGED <<critCh, accepted>>
    /\ UNCHANGED <<outCh, pending, dropped, closed, raw, loop, reader, flush,
                   returned, delivered, tail, ahead, left>>

\* pending.Add(1), after the channel send, and the nil return.
Count(s) ==
    /\ s \in Pushers
    /\ At(s, "count")
    /\ pending' = pending + 1
    /\ returned' = returned \cup {<<s, snd[s].n>>}
    /\ Goto(s, "idle")
    /\ UNCHANGED <<critCh, outCh, dropped, flags, loop, reader, flush,
                   accepted, delivered, tail, ahead, left>>

\* enqueue, droppable: a full queue sheds the frame, the conn survives.
EnqueueDroppable(o) ==
    /\ o \in Outputs
    /\ At(o, "push")
    /\ IF Len(outCh) < SendBufSize
       THEN outCh' = Append(outCh, <<o, snd[o].n>>) /\ UNCHANGED dropped
       ELSE dropped' = dropped + 1 /\ UNCHANGED outCh
    /\ Goto(o, "idle")
    /\ UNCHANGED <<critCh, pending, flags, loop, reader, flush, hist>>

\* SendBlocking, called by the reader while it handles an attach.
StartReplay ==
    /\ reader = "read"
    /\ Begin(Reader, Replays)
    /\ reader' = "replay"
    /\ UNCHANGED <<queues, flags, loop, flush, hist>>

HasRoom == Len(critCh) < SendHeadroom

\* One turn of its poll loop up to the length test.
ReplayCheck ==
    /\ At(Reader, "check")
    /\ Goto(Reader, IF Refusing THEN "idle" ELSE IF HasRoom THEN "push" ELSE "wait")
    /\ UNCHANGED <<queues, flags, loop, reader, flush, hist>>

\* Mutant of ReplayPush: the frame is never counted.
ReplayPushUncounted ==
    /\ At(Reader, "push")
    /\ critCh' = Append(critCh, <<Reader, snd[Reader].n>>)
    /\ accepted' = Append(accepted, <<Reader, snd[Reader].n>>)
    /\ Goto(Reader, "idle")
    /\ UNCHANGED <<outCh, pending, dropped, flags, loop, reader, flush,
                   returned, delivered, tail, ahead, left>>

\* The push races broadcasts: when they filled the queue it waits again.
ReplayPush ==
    /\ At(Reader, "push")
    /\ IF Len(critCh) < SendBufSize
       THEN Push(Reader)
       ELSE Goto(Reader, "wait") /\ UNCHANGED <<critCh, accepted>>
    /\ UNCHANGED <<outCh, pending, dropped, flags, loop, reader, flush,
                   returned, delivered, tail, ahead, left>>

\* done, or the poll interval.
ReplayWait ==
    /\ At(Reader, "wait")
    /\ \/ closed /\ Goto(Reader, "idle")
       \/ Goto(Reader, "check")
    /\ UNCHANGED <<queues, flags, loop, reader, flush, hist>>

\* The daemon is shutting down: ErrSendCanceled.
ReplayCancel ==
    /\ At(Reader, "wait")
    /\ Goto(Reader, "idle")
    /\ UNCHANGED <<queues, flags, loop, reader, flush, hist>>

ReplayReturn ==
    /\ reader = "replay"
    /\ At(Reader, "idle")
    /\ reader' = "read"
    /\ UNCHANGED <<queues, flags, loop, snd, flush, hist>>
-----------------------------------------------------------------------------
(* sendLoop and write. *)

LoopExit(pc) ==
    /\ loop.pc = pc
    /\ closed
    /\ loop' = [loop EXCEPT !.pc = "dead"]
    /\ UNCHANGED <<queues, flags, snd, reader, flush, hist>>

TakeCritical(pc) ==
    /\ loop.pc = pc
    /\ critCh # <<>>
    /\ critCh' = Tail(critCh)
    /\ loop' = [pc |-> "crit", frame |-> Head(critCh), off |-> 0, base |-> 0]
    /\ ahead' = 0
    /\ UNCHANGED <<outCh, pending, dropped, flags, snd, reader, flush,
                   accepted, returned, delivered, tail, left>>

\* Mutant of NothingCritical: the first select is gone.
NothingCriticalSkipped == loop.pc = "first"

\* The first select falls through only with nothing critical in the queue.
NothingCritical == loop.pc = "first" /\ critCh = <<>> /\ ~closed

FallThrough ==
    /\ NothingCritical
    /\ loop' = [loop EXCEPT !.pc = "second"]
    /\ UNCHANGED <<queues, flags, snd, reader, flush, hist>>

TakeOutput ==
    /\ loop.pc = "second"
    /\ outCh # <<>>
    /\ outCh' = Tail(outCh)
    /\ loop' = [pc |-> "out", frame |-> Head(outCh), off |-> 0, base |-> 0]
    /\ ahead' = IF critCh # <<>> THEN ahead + 1 ELSE 0
    /\ UNCHANGED <<critCh, pending, dropped, flags, snd, reader, flush,
                   accepted, returned, delivered, tail, left>>

Writing == loop.pc \in {"crit", "out"}

\* raw.Write places one more chunk.
Place ==
    /\ Writing
    /\ raw # "closed"
    /\ loop.off < FrameLen
    /\ loop' = [loop EXCEPT !.off = @ + 1]
    /\ tail' = [frame |-> loop.frame, i |-> loop.off + 1]
    /\ UNCHANGED <<queues, flags, snd, reader, flush, accepted, returned, delivered, ahead, left>>

\* raw.Write returned nil: write is true.
Written ==
    /\ Writing
    /\ loop.off = FrameLen
    /\ loop' = [loop EXCEPT !.pc = IF @ = "crit" THEN "settle" ELSE "first"]
    /\ delivered' = IF loop.pc = "crit" THEN Append(delivered, loop.frame) ELSE delivered
    /\ UNCHANGED <<queues, flags, snd, reader, flush, accepted, returned, tail, ahead, left>>

\* Mutant of Resume: the retry sends the frame from its beginning.
ResumeFromStart == [loop EXCEPT !.off = 0, !.base = 0]

\* The retry goes on at frame[n:].
Resume == [loop EXCEPT !.base = loop.off]

\* Mutant of Deadline: sendLoop ends and the conn stays open (2026-08-11).
DeadlineNoClose ==
    /\ Writing
    /\ Faults
    /\ loop.off < FrameLen
    /\ loop' = IF loop.off > loop.base THEN Resume
               ELSE [loop EXCEPT !.pc = IF @ = "crit" THEN "failed" ELSE "dead"]
    /\ UNCHANGED <<queues, flags, snd, reader, flush, hist>>

\* The window expired: progress means another try, none retires the conn.
Deadline ==
    /\ Writing
    /\ Faults
    /\ loop.off < FrameLen
    /\ IF loop.off > loop.base
       THEN loop' = Resume /\ UNCHANGED closed
       ELSE /\ loop' = [loop EXCEPT !.pc = IF @ = "crit" THEN "failed" ELSE "dead"]
            /\ MarkDead
    /\ UNCHANGED <<queues, overflow, raw, closing, snd, reader, flush, hist>>

\* Any other error: the peer is gone or the socket was closed under us.
WriteError ==
    /\ Writing
    /\ Faults \/ raw = "closed"
    /\ loop.off < FrameLen
    /\ loop' = [loop EXCEPT !.pc = IF @ = "crit" THEN "failed" ELSE "dead"]
    /\ MarkDead
    /\ UNCHANGED <<queues, overflow, raw, closing, snd, reader, flush, hist>>

\* pending.Add(-1) after the write, whatever its outcome.  The loop's
\* deferred markDead finds the conn dead already.
Settle ==
    /\ loop.pc \in {"settle", "failed"}
    /\ pending' = pending - 1
    /\ loop' = [loop EXCEPT !.pc = IF @ = "settle" THEN "first" ELSE "lost"]
    /\ UNCHANGED <<critCh, outCh, dropped, flags, snd, reader, flush, hist>>
-----------------------------------------------------------------------------
(* Teardown. *)

\* Close: markDead, then raw.Close, once.
Close ==
    \/ raw = "open" /\ MarkDead /\ raw' = "closing"
    \/ raw = "closing" /\ raw' = "closed" /\ UNCHANGED closed

\* The goroutine the overflow spawned.
CloseSlow ==
    /\ closing
    /\ Close
    /\ closing' = (raw' # "closed")
    /\ UNCHANGED <<queues, overflow, loop, snd, reader, flush, hist>>

\* Receive fails: a read deadline in the past, a closed socket, a peer gone.
ReadError ==
    /\ reader = "read"
    /\ closed \/ Faults
    /\ reader' = "close"
    /\ UNCHANGED <<queues, flags, loop, snd, flush, hist>>

\* handleConn's deferred Close, ...
ReaderClose ==
    /\ reader = "close"
    /\ IF raw = "closed" THEN reader' = "remove" /\ UNCHANGED <<closed, raw>>
       ELSE Close /\ UNCHANGED reader
    /\ UNCHANGED <<queues, overflow, closing, loop, snd, flush, hist>>

\* ... removeConn and onDisconnect.
ReaderGone ==
    /\ reader = "remove"
    /\ reader' = "gone"
    /\ left' = left + 1
    /\ UNCHANGED <<queues, flags, loop, snd, flush, accepted, returned, delivered, tail, ahead>>
-----------------------------------------------------------------------------
(* Flush: owes is what Send had accepted when it was called. *)

StartFlush ==
    /\ Flushes
    /\ flush.pc = "idle"
    /\ flush' = [pc |-> "poll", owes |-> returned, ok |-> FALSE]
    /\ UNCHANGED <<queues, flags, loop, snd, reader, hist>>

\* One turn: pending first, then closed or the timeout.
PollFlush ==
    /\ flush.pc = "poll"
    /\ \/ pending <= 0 /\ flush' = [flush EXCEPT !.pc = "done", !.ok = TRUE]
       \/ pending > 0 /\ flush' = [flush EXCEPT !.pc = "done"]
    /\ UNCHANGED <<queues, flags, loop, snd, reader, hist>>
-----------------------------------------------------------------------------
SendStep == \E s \in Everyone : StartSend(s) \/ Check(s) \/ EnqueueCritical(s)
                                \/ Count(s) \/ EnqueueDroppable(s)
ReplayStep == ReplayCheck \/ ReplayPush \/ ReplayWait \/ ReplayReturn
LoopStep ==
    \/ \E pc \in {"first", "second"} : LoopExit(pc) \/ TakeCritical(pc)
    \/ FallThrough \/ TakeOutput \/ Place \/ Written \/ Settle
WriteFault == Deadline \/ WriteError
CloseStep == CloseSlow \/ ReaderClose \/ ReaderGone
FlushStep == StartFlush \/ PollFlush

Next == SendStep \/ StartReplay \/ ReplayStep \/ ReplayCancel \/ LoopStep \/ WriteFault
        \/ CloseStep \/ ReadError \/ FlushStep

Spec == Init /\ [][Next]_vars
-----------------------------------------------------------------------------
(***************************************************************************)
(* Fairness: the scheduler runs sendLoop, the reader and the closing       *)
(* goroutine; raw.Write comes back within writeDeadline, with progress or  *)
(* an error; a read past its deadline fails.  Nothing makes the peer read, *)
(* callers send or the daemon shut down.                                   *)
(***************************************************************************)
FairSpec ==
    /\ Spec
    /\ WF_vars(LoopStep \/ WriteFault)
    /\ WF_vars(ReplayStep \/ (\E s \in Pushers : Count(s)))
    /\ WF_vars(CloseStep)
    /\ WF_vars(closed /\ ReadError)
-----------------------------------------------------------------------------
InHand == IF loop.pc \in {"crit", "failed", "lost"} THEN <<loop.frame>> ELSE <<>>

\* Types, and the queues' capacities.
TypeOK ==
    /\ critCh \in Seq(Frame) /\ Len(critCh) <= SendBufSize
    /\ outCh \in Seq(Frame) /\ Len(outCh) <= SendBufSize
    /\ pending \in Int /\ dropped \in Nat
    /\ closed \in BOOLEAN /\ overflow \in BOOLEAN /\ closing \in BOOLEAN
    /\ raw \in {"open", "closing", "closed"}
    /\ loop \in [pc : {"first", "second", "crit", "out", "settle", "failed", "lost", "dead"},
                 frame : Frame, off : 0 .. FrameLen, base : 0 .. FrameLen]
    /\ snd \in [Everyone -> [pc : {"idle", "check", "push", "count", "wait"}, n : Nat]]
    /\ reader \in {"read", "replay", "close", "remove", "gone"}
    /\ flush \in [pc : {"idle", "poll", "done"}, owes : SUBSET Frame, ok : BOOLEAN]
    /\ accepted \in Seq(Frame) /\ delivered \in Seq(Frame) /\ returned \in SUBSET Frame
    /\ tail \in [frame : Frame, i : 1 .. FrameLen]
    /\ ahead \in Nat /\ left \in Nat

(***************************************************************************)
(* Must-deliver frames reach the socket in the order the channel took      *)
(* them, none lost or repeated: what was accepted is what was delivered,   *)
(* then the frame in sendLoop's hand, then the queue, through overflow,    *)
(* failed writes and teardown alike.                                       *)
(***************************************************************************)
InOrder == accepted = (delivered \o InHand) \o critCh

\* pending is what Flush waits for: the frames queued or being written, less
\* those whose sender has not reached its Add(1).
PendingExact ==
    pending + Cardinality({s \in Pushers : At(s, "count")})
      = Len(critCh) + (IF loop.pc \in {"crit", "settle", "failed"} THEN 1 ELSE 0)

\* A replay of any length keeps at most SendHeadroom frames in the queue, so
\* broadcasts find room whatever the attach has to send.
ReplayLeavesRoom ==
    Cardinality({i \in DOMAIN critCh : critCh[i][1] = Reader}) <= SendHeadroom

\* At most one output frame is written past a waiting must-deliver frame.
OutputNeverStarvesState == ahead <= 1

\* The length-prefixed stream never tears: a chunk continues its frame, or
\* begins one after the last chunk of another, retries included.
WellFramed ==
    [][tail' # tail => \/ tail'.frame = tail.frame /\ tail'.i = tail.i + 1
                       \/ tail.i = FrameLen /\ tail'.i = 1]_vars

\* A Flush that says yes has seen out every frame Send had accepted.
FlushMeansWritten == flush.ok => \A f \in flush.owes : \E i \in DOMAIN delivered : delivered[i] = f

\* A replay always comes back, even from a peer that stopped reading: the
\* write deadline retires the conn, which releases the reader it waits on.
ReplayEnds == (reader = "replay") ~> (reader # "replay")

\* A conn that died or overflowed is closed and removed, and the daemon told.
Retired == (closed \/ overflow) ~> (reader = "gone" /\ raw = "closed" /\ left = 1)

\* The two lanes share the connection: a replay leaves the broadcasts room, and
\* output never gets more than one frame ahead of a waiting must-deliver frame.
LanesShared == ReplayLeavesRoom /\ OutputNeverStarvesState

\* One stream for both lanes: each gets its share, and their frames never mix.
StreamShared == []LanesShared /\ WellFramed

\* Nobody is left behind by a dead peer: every replay returns, and every
\* connection that died or overflowed is closed, removed and reported.
ReplayEndsAndConnRetires == ReplayEnds /\ Retired

\* For TLC: senders are interchangeable, and so are the goroutines that broadcast.
Alike == Permutations(Senders) \cup Permutations(Outputs)
=============================================================================

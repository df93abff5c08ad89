------------------------------- MODULE Redraw -------------------------------
(***************************************************************************)
(* A pane's input queue and the redraw keys Quil puts into it              *)
(* (internal/daemon/redraw.go, session.go): a key typed twice within the   *)
(* child's own window clears its conversation, so keys are spaced by the   *)
(* time the child reads them.  Times are ages: time since an event, capped *)
(* at the cooldown.  A step of a goroutine takes no time, a child that     *)
(* does not read its stdin takes any.                                      *)
(***************************************************************************)
EXTENDS Integers, Sequences, FiniteSets

CONSTANTS Kickers,   \* goroutines that ask for a redraw: attaches, resizes
          Timer,     \* the goroutine of redrawTimer
          QSize,     \* inputQueueSize
          Cooldown,  \* redrawKeyCooldown
          MaxItems   \* bound: items ever enqueued

ASSUME KickAssumption == Cooldown \in Nat \ {0}

VARIABLES inputCh,   \* queued items, each [key, pos]: its real position
          enqueued, written, \* inputEnqueued, inputWritten
          redrawSeq,
          age,       \* time since lastRedrawAt
          kickTimer,     \* redrawTimer: time left and the generation, or NoTimer
          kicker,    \* each goroutine: "idle", "send", "add", "seq" and its position
          writer,    \* inputWriter: "idle", "hold" an item, "mark" it, "stamp" it
          ptyGen, stopped,
          readAge,   \* time since the child read a key
          tooClose,  \* history: it read two keys within the cooldown
          excepted   \* history: two producers swapped positions, a restart found keys of
                     \* the old child on their way, or a key was sent between the
                     \* counting of the last one and its stamp

kickVars == <<inputCh, enqueued, written, redrawSeq, age, kickTimer, kicker, writer,
              ptyGen, stopped, readAge, tooClose, excepted>>

Senders == Kickers \cup {Timer}
NoTimer == [left |-> 0, gen |-> 0]
AtRest == [pc |-> "idle", key |-> FALSE, pos |-> 0]

KickInit ==
    /\ inputCh = <<>> /\ enqueued = 0 /\ written = 0 /\ redrawSeq = 0
    /\ age = Cooldown /\ readAge = Cooldown
    /\ kickTimer = NoTimer
    /\ kicker = [k \in Senders |-> AtRest]
    /\ writer = [pc |-> "idle", key |-> FALSE, pos |-> 0]
    /\ ptyGen = 1 /\ stopped = FALSE
    /\ tooClose = FALSE /\ excepted = FALSE

\* Items pushed so far, counted or not yet.
Pushed == enqueued + Cardinality({k \in Senders : kicker[k].pc = "add"})
-----------------------------------------------------------------------------
\* Mutant of QueuedKick: elapsed time alone decides.
QueuedKickIgnored == FALSE

\* The previous key has not left the queue.
QueuedKick == written < redrawSeq

\* The previous key has left the queue, and the cooldown has not restarted yet.
Unstamped == writer.pc = "stamp" /\ writer.key /\ redrawSeq = written

\* sendRedrawKey, up to the unlock: send now, or hold one behind a timer.
SendRedrawKey(k) ==
    LET due == age >= Cooldown
        immediate == due /\ ~QueuedKick
    IN  /\ kicker[k].pc = "idle" /\ Pushed < MaxItems
        /\ IF immediate
           THEN /\ age' = 0 /\ UNCHANGED kickTimer
                /\ excepted' = (excepted \/ Unstamped)
                /\ kicker' = [kicker EXCEPT ![k] = [pc |-> "send", key |-> TRUE, pos |-> 0]]
           ELSE /\ UNCHANGED <<age, kicker, excepted>>
                /\ kickTimer' = IF kickTimer # NoTimer THEN kickTimer
                            ELSE [left |-> IF due THEN Cooldown ELSE Cooldown - age,
                                  gen |-> ptyGen]
        /\ UNCHANGED <<inputCh, enqueued, written, redrawSeq, writer, ptyGen, stopped,
                       readAge, tooClose>>

\* paneInputOutcome: a client's keystrokes, through the same queue.
TypeInput(k) ==
    /\ kicker[k].pc = "idle" /\ Pushed < MaxItems
    /\ kicker' = [kicker EXCEPT ![k] = [pc |-> "send", key |-> FALSE, pos |-> 0]]
    /\ UNCHANGED <<inputCh, enqueued, written, redrawSeq, age, kickTimer, writer, ptyGen,
                   stopped, readAge, tooClose, excepted>>

\* enqueueInputSeq's push; a full queue refuses and nothing is recorded.
Push(k) ==
    /\ kicker[k].pc = "send"
    /\ IF Len(inputCh) < QSize
       THEN /\ inputCh' = Append(inputCh, [key |-> kicker[k].key, pos |-> Pushed + 1])
            /\ kicker' = [kicker EXCEPT ![k].pc = "add", ![k].pos = Pushed + 1]
       ELSE /\ kicker' = [kicker EXCEPT ![k] = AtRest]
            /\ UNCHANGED inputCh
    /\ UNCHANGED <<enqueued, written, redrawSeq, age, kickTimer, writer, ptyGen, stopped,
                   readAge, tooClose, excepted>>

\* Its counter, bumped after the push: the position it hands back.
Count(k) ==
    /\ kicker[k].pc = "add"
    /\ enqueued' = enqueued + 1
    /\ excepted' = (excepted \/ (kicker[k].key /\ kicker[k].pos # enqueued + 1))
    /\ kicker' = [kicker EXCEPT ![k] = IF @.key THEN [@ EXCEPT !.pc = "seq", !.pos = enqueued + 1]
                                       ELSE AtRest]
    /\ UNCHANGED <<inputCh, written, redrawSeq, age, kickTimer, writer, ptyGen, stopped,
                   readAge, tooClose>>

\* recordRedrawEnqueue: the key's position, under PluginMu.
RecordSeq(k) ==
    /\ kicker[k].pc = "seq"
    /\ redrawSeq' = kicker[k].pos
    /\ kicker' = [kicker EXCEPT ![k] = AtRest]
    /\ UNCHANGED <<inputCh, enqueued, written, age, kickTimer, writer, ptyGen, stopped,
                   readAge, tooClose, excepted>>

\* deferredRedrawKey: dropped when stale or when a key is still queued, armed
\* again when the child read the last one late, else sent.
DeferredRedrawKey ==
    LET stale == kickTimer.gen # ptyGen \/ stopped
        delivered == ~QueuedKick
        remaining == Cooldown - age
    IN  /\ kickTimer # NoTimer /\ kickTimer.left = 0 /\ kicker[Timer].pc = "idle"
        /\ IF stale \/ ~delivered
           THEN kickTimer' = NoTimer /\ UNCHANGED <<age, kicker, excepted>>
           ELSE IF remaining > 0
           THEN kickTimer' = [kickTimer EXCEPT !.left = remaining] /\ UNCHANGED <<age, kicker, excepted>>
           ELSE /\ kickTimer' = NoTimer /\ age' = 0
                /\ excepted' = (excepted \/ Unstamped)
                /\ kicker' = [kicker EXCEPT ![Timer] = [pc |-> "send", key |-> TRUE, pos |-> 0]]
        /\ UNCHANGED <<inputCh, enqueued, written, redrawSeq, writer, ptyGen, stopped,
                       readAge, tooClose>>
-----------------------------------------------------------------------------
(* inputWriter. *)

Take ==
    /\ writer.pc = "idle" /\ inputCh # <<>> /\ ~stopped
    /\ writer' = [pc |-> "hold", key |-> Head(inputCh).key, pos |-> Head(inputCh).pos]
    /\ inputCh' = Tail(inputCh)
    /\ UNCHANGED <<enqueued, written, redrawSeq, age, kickTimer, kicker, ptyGen, stopped,
                   readAge, tooClose, excepted>>

\* writeInput's Write comes back: the child has read the item.
WriteInput ==
    /\ writer.pc = "hold"
    /\ writer' = [writer EXCEPT !.pc = "mark"]
    /\ IF writer.key
       THEN /\ tooClose' = (tooClose \/ (readAge < Cooldown))
            /\ readAge' = 0
       ELSE UNCHANGED <<tooClose, readAge>>
    /\ UNCHANGED <<inputCh, enqueued, written, redrawSeq, age, kickTimer, kicker, ptyGen,
                   stopped, excepted>>

\* markInputWritten counts the item outside PluginMu; a kick may look before ...
MarkInputWritten ==
    /\ writer.pc = "mark"
    /\ written' = written + 1
    /\ writer' = [writer EXCEPT !.pc = "stamp"]
    /\ UNCHANGED <<inputCh, enqueued, redrawSeq, age, kickTimer, kicker, ptyGen, stopped, readAge,
                   tooClose, excepted>>

\* ... it takes the lock, and restarts the cooldown when the item was the key.
StampWritten ==
    /\ writer.pc = "stamp"
    /\ age' = IF redrawSeq # 0 /\ written = redrawSeq THEN 0 ELSE age
    /\ writer' = AtRest
    /\ UNCHANGED <<inputCh, enqueued, written, redrawSeq, kickTimer, kicker, ptyGen, stopped, readAge,
                   tooClose, excepted>>
-----------------------------------------------------------------------------
\* A restart: the old PTY fails the write it blocks, spawnPane installs the new
\* child and resets the throttle; what is queued, and an item whose PTY the
\* writer has not looked up yet, goes to the new child.
NewGeneration ==
    /\ ptyGen = 1
    /\ ptyGen' = 2
    /\ \E failed \in BOOLEAN : writer' = IF writer.pc = "hold" /\ failed THEN [writer EXCEPT !.pc = "mark"] ELSE writer
    /\ redrawSeq' = 0 /\ age' = Cooldown /\ readAge' = Cooldown
    /\ excepted' = (excepted \/ (\E i \in DOMAIN inputCh : inputCh[i].key)
                              \/ (writer'.pc = "hold" /\ writer'.key)
                              \/ (\E k \in Senders : kicker[k].key))
    /\ UNCHANGED <<inputCh, enqueued, written, kickTimer, kicker, stopped, tooClose>>

\* StopInput: the timer is stopped, its late firing refused, the writer ends.
StopInput ==
    /\ ~stopped
    /\ stopped' = TRUE /\ kickTimer' = NoTimer
    /\ UNCHANGED <<inputCh, enqueued, written, redrawSeq, age, kicker, writer, ptyGen,
                   readAge, tooClose, excepted>>

\* Time passes only while no goroutine stands between two of its steps.
ClockTick ==
    /\ \A k \in Senders : kicker[k].pc = "idle"
    /\ writer.pc \in {"idle", "hold"}
    /\ kickTimer # NoTimer => kickTimer.left > 0
    /\ age' = IF age < Cooldown THEN age + 1 ELSE age
    /\ readAge' = IF readAge < Cooldown THEN readAge + 1 ELSE readAge
    /\ kickTimer' = IF kickTimer = NoTimer THEN kickTimer ELSE [kickTimer EXCEPT !.left = @ - 1]
    /\ UNCHANGED <<inputCh, enqueued, written, redrawSeq, kicker, writer, ptyGen, stopped,
                   tooClose, excepted>>

SenderStep(k) == Push(k) \/ Count(k) \/ RecordSeq(k)
WriterStep == Take \/ WriteInput \/ MarkInputWritten \/ StampWritten
KickNext ==
    \/ \E k \in Kickers : SendRedrawKey(k) \/ TypeInput(k)
    \/ \E k \in Senders : SenderStep(k)
    \/ DeferredRedrawKey \/ WriterStep
    \/ NewGeneration \/ StopInput \/ ClockTick

KickSpec == KickInit /\ [][KickNext]_kickVars
-----------------------------------------------------------------------------
\* The child never reads two redraw keys within the cooldown, however long it
\* left the first in the queue.  Excepted are positions that two producers
\* swapped (enqueueInputSeq's comment), keys on their way to a child that was
\* replaced, which the reset throttle no longer knows of, and a kick that looks
\* between the two halves of markInputWritten: it sees the last key delivered
\* and the cooldown as it was before (session.go:510 and 512).
KeysSpaced == tooClose => excepted
=============================================================================

----------------------------- MODULE HookIngest -----------------------------
(***************************************************************************)
(* The path of an agent's hook event into the daemon (internal/hookevents, *)
(* hookEventsWatcher): a hook appends a line to its pane's spool file, the *)
(* watcher tails the files, a rate limit drops storms, repeats within a    *)
(* moment coalesce, and the rest is emitted in order.  A line is its       *)
(* number and the name of its hook; sizes and offsets count lines.         *)
(***************************************************************************)
EXTENDS Integers, Sequences, FiniteSets

CONSTANTS SpoolPanes, HookNames,
          RotateAt,   \* rotationThreshold
          RateMax,    \* rateWindowSize
          MaxLines    \* bound: lines ever appended

VARIABLES file,       \* each pane's spool file: complete lines, and a torn last one
          offset,     \* Spool.offsets
          lines,      \* lines appended so far
          rotating,   \* panes whose rotation stands between Stat and Truncate
          inbox,      \* payloads of this tick not yet submitted
          rate,       \* per pane: timestamps in the window, in penalty, reported
          pending,    \* coalescing events, by key: [of (their lines), first, due]
          order,      \* their keys in arrival order
          batch,      \* what the holder of emitMu has still to emit
          drains,     \* drainDue calls under way
          closed,
          emitted,    \* history: [of (lines emitted), last (first line of each pane's last burst)]
          gone        \* history: lines dropped: truncated, stormed, cancelled, late

hookVars == <<file, offset, lines, rotating, inbox, rate, pending, order, batch, drains,
              closed, emitted, gone>>

SpoolKeys == SpoolPanes \X HookNames
NoPending == [of |-> {}, first |-> 0, due |-> FALSE]
IsPending(k) == pending[k].of # {}

HookInit ==
    /\ file = [p \in SpoolPanes |-> [whole |-> <<>>, torn |-> FALSE]]
    /\ offset = [p \in SpoolPanes |-> 0]
    /\ lines = 0 /\ rotating = {} /\ inbox = <<>>
    /\ rate = [p \in SpoolPanes |-> [n |-> 0, drop |-> FALSE]]
    /\ pending = [k \in SpoolKeys |-> NoPending]
    /\ order = <<>> /\ batch = <<>> /\ drains = 0 /\ closed = FALSE
    /\ emitted = [of |-> {}, last |-> [p \in SpoolPanes |-> 0]] /\ gone = {}
-----------------------------------------------------------------------------
(* The hook's process. *)

AppendLine(p, h) ==
    /\ lines < MaxLines
    /\ lines' = lines + 1
    /\ file' = [file EXCEPT ![p].whole = Append(@, [line |-> lines + 1, hook |-> h]),
                            ![p].torn = FALSE]
    /\ UNCHANGED <<offset, rotating, inbox, rate, pending, order, batch, drains, closed,
                   emitted, gone>>

\* A write seen before its newline.
AppendTorn(p) ==
    /\ lines < MaxLines /\ \A q \in SpoolPanes : ~file[q].torn
    /\ file' = [file EXCEPT ![p].torn = TRUE]
    /\ UNCHANGED <<offset, lines, rotating, inbox, rate, pending, order, batch, drains,
                   closed, emitted, gone>>
-----------------------------------------------------------------------------
(* hookEventsWatcher. *)

Size(p) == Len(file[p].whole) + (IF file[p].torn THEN 1 ELSE 0)

\* The complete lines past the offset.
Unread(p) == {file[p].whole[i].line : i \in offset[p] + 1 .. Len(file[p].whole)}

\* The payload of pane p's i-th line.
Delivered(p, i) == [line |-> file[p].whole[i].line, hook |-> file[p].whole[i].hook, pane |-> p]

\* Mutant of ReadPaneFile: the offset moves past a torn line.
ReadPaneFileTorn(p) ==
    /\ inbox = <<>> /\ ~closed /\ rotating = {}
    /\ Size(p) # offset[p]
    /\ inbox' = [i \in 1 .. Len(file[p].whole) - offset[p] |->
                   Delivered(p, offset[p] + i)]
    /\ offset' = [offset EXCEPT ![p] = IF file[p].torn THEN 0 ELSE Size(p)]
    /\ UNCHANGED <<file, lines, rotating, rate, pending, order, batch, drains, closed,
                   emitted, gone>>

\* readPaneFile: the complete lines past the offset; from the start when the
\* file has become shorter.
ReadPaneFile(p) ==
    LET from == IF Size(p) < offset[p] THEN 0 ELSE offset[p]
    IN  /\ inbox = <<>> /\ ~closed /\ rotating = {}
        /\ Size(p) # offset[p]
        /\ inbox' = [i \in 1 .. Len(file[p].whole) - from |->
                       Delivered(p, from + i)]
        /\ offset' = [offset EXCEPT ![p] = Len(file[p].whole)]
        /\ UNCHANGED <<file, lines, rotating, rate, pending, order, batch, drains, closed,
                       emitted, gone>>

\* A fully read file past the threshold is rotated.
StartRotate(p) ==
    /\ inbox = <<>> /\ ~closed /\ rotating = {}
    /\ Size(p) = offset[p] /\ Size(p) >= RotateAt
    /\ rotating' = {p}
    /\ UNCHANGED <<file, offset, lines, inbox, rate, pending, order, batch, drains, closed,
                   emitted, gone>>

\* rotate: what was appended after the Stat goes with it.
RotateSpool(p) ==
    /\ p \in rotating
    /\ rotating' = {}
    /\ gone' = gone \cup Unread(p)
    /\ file' = [file EXCEPT ![p] = [whole |-> <<>>, torn |-> FALSE]]
    /\ offset' = [offset EXCEPT ![p] = 0]
    /\ UNCHANGED <<lines, inbox, rate, pending, order, batch, drains, closed, emitted>>

\* coalesce: a line joins the burst its key has open, or opens one.
Burst(k, n) == IF IsPending(k) THEN [pending[k] EXCEPT !.of = @ \cup {n}]
               ELSE [of |-> {n}, first |-> n, due |-> FALSE]

\* Submit: allowAndRecord, then coalesce.  A pane over its rate is silenced
\* and reported once; a repeat joins the burst its key has open.
Submit ==
    LET p == inbox[1].pane
        k == <<p, inbox[1].hook>>
    IN  /\ inbox # <<>>
        /\ inbox' = Tail(inbox)
        /\ \E recent \in {0, rate[p].n} :   \* the window may have slid past all of them
             IF closed \/ rate[p].drop \/ recent >= RateMax
             THEN /\ gone' = gone \cup {inbox[1].line}
                  /\ rate' = [rate EXCEPT ![p].drop = @ \/ ~closed]
                  /\ UNCHANGED <<pending, order>>
             ELSE /\ rate' = [rate EXCEPT ![p].n = recent + 1]
                  /\ pending' = [pending EXCEPT ![k] = Burst(k, inbox[1].line)]
                  /\ order' = IF IsPending(k) THEN order ELSE Append(order, k)
                  /\ UNCHANGED gone
        /\ UNCHANGED <<file, offset, lines, rotating, batch, drains, closed, emitted>>

\* A penalty, longer than any window, runs out.
WindowPasses ==
    /\ \E p \in SpoolPanes : rate[p].drop
    /\ rate' = [p \in SpoolPanes |-> [n |-> 0, drop |-> FALSE]]
    /\ UNCHANGED <<file, offset, lines, rotating, inbox, pending, order, batch, drains,
                   closed, emitted, gone>>
-----------------------------------------------------------------------------
(* Ingester's timers. *)

\* flush: the key is due, a drain follows.
Flush(k) ==
    /\ IsPending(k) /\ ~pending[k].due
    /\ pending' = [pending EXCEPT ![k].due = TRUE]
    /\ drains' = drains + 1
    /\ UNCHANGED <<file, offset, lines, rotating, inbox, rate, order, batch, closed,
                   emitted, gone>>

\* The length of the prefix that is due: drainDue stops at the first open window.
DueFirst == CHOOSE m \in 0 .. Len(order) :
              /\ \A i \in 1 .. m : pending[order[i]].due
              /\ m < Len(order) => ~pending[order[m + 1]].due

\* The first m events leave the queue for the emitter.
TakeFirst(m) ==
    /\ batch' = [i \in 1 .. m |->
                   [key |-> order[i], of |-> pending[order[i]].of, first |-> pending[order[i]].first]]
    /\ pending' = [k \in SpoolKeys |-> IF \E i \in 1 .. m : order[i] = k THEN NoPending
                                       ELSE pending[k]]
    /\ order' = SubSeq(order, m + 1, Len(order))

\* drainDue, with emitMu.
DrainDue ==
    /\ drains > 0 /\ batch = <<>>
    /\ drains' = drains - 1
    /\ TakeFirst(DueFirst)
    /\ UNCHANGED <<file, offset, lines, rotating, inbox, rate, closed, emitted, gone>>

\* emitHookEvent, still under emitMu.
Emit ==
    /\ batch # <<>>
    /\ emitted' = [emitted EXCEPT !.of = @ \cup batch[1].of, !.last[batch[1].key[1]] = batch[1].first]
    /\ batch' = Tail(batch)
    /\ UNCHANGED <<file, offset, lines, rotating, inbox, rate, pending, order, drains,
                   closed, gone>>

\* The queue without pane p's keys: Cancel's loop.
Uncancelled(p) ==
    LET kept[i \in 0 .. Len(order)] ==
          IF i = 0 THEN <<>>
          ELSE IF order[i][1] = p THEN kept[i - 1] ELSE Append(kept[i - 1], order[i])
    IN  kept[Len(order)]

\* Cancel (the pane was destroyed): its events go; a due event this uncovers
\* at the head is drained.
Cancel(p) ==
    /\ \E k \in SpoolKeys : k[1] = p /\ IsPending(k)
    /\ gone' = gone \cup UNION {pending[<<p, h>>].of : h \in HookNames}
    /\ pending' = [k \in SpoolKeys |-> IF k[1] = p THEN NoPending ELSE pending[k]]
    /\ order' = Uncancelled(p)
    /\ rate' = [rate EXCEPT ![p] = [n |-> 0, drop |-> FALSE]]
    /\ drains' = IF Uncancelled(p) # <<>> /\ pending[Uncancelled(p)[1]].due THEN drains + 1 ELSE drains
    /\ UNCHANGED <<file, offset, lines, rotating, inbox, batch, closed, emitted>>

\* FlushAll, at shutdown: everything still coalescing is emitted, in order.
FlushAll ==
    /\ ~closed /\ batch = <<>> /\ inbox = <<>> /\ rotating = {}
    /\ closed' = TRUE
    /\ TakeFirst(Len(order))
    /\ UNCHANGED <<file, offset, lines, rotating, inbox, rate, drains, emitted, gone>>

HookNext ==
    \/ \E p \in SpoolPanes, h \in HookNames : AppendLine(p, h)
    \/ \E p \in SpoolPanes : AppendTorn(p) \/ ReadPaneFile(p) \/ StartRotate(p) \/ RotateSpool(p) \/ Cancel(p)
    \/ \E k \in SpoolKeys : Flush(k)
    \/ WindowPasses \/ Submit \/ DrainDue \/ Emit \/ FlushAll
HookSpec == HookInit /\ [][HookNext]_hookVars
-----------------------------------------------------------------------------
\* Where line n stands: in a file, the inbox, a burst or the emitter's batch.
InFile(n) == {p \in SpoolPanes : n \in Unread(p)}
InInbox(n) == {i \in DOMAIN inbox : inbox[i].line = n}
InBurst(n) == {k \in SpoolKeys : n \in pending[k].of}
InBatch(n) == {i \in DOMAIN batch : n \in batch[i].of}
Places(n) == ({"unread"} \X InFile(n)) \cup ({"inbox"} \X InInbox(n))
             \cup ({"burst"} \X InBurst(n)) \cup ({"batch"} \X InBatch(n))
             \cup ({"emitted"} \X ({n} \cap emitted.of)) \cup ({"gone"} \X ({n} \cap gone))

(***************************************************************************)
(* Every line a hook wrote is in exactly one place: unread, on its way, in *)
(* a coalescing burst, held to be emitted, emitted, or dropped by a storm, *)
(* a rotation, a destroyed pane or the shutdown.  And a pane's bursts are  *)
(* emitted in the order their first lines were written, however their      *)
(* timers fire: a turn's end never overtakes its start.                    *)
(***************************************************************************)
LinesOnceInOrder ==
    /\ \A n \in 1 .. lines : Cardinality(Places(n)) = 1
    /\ \A i \in DOMAIN batch :
         /\ batch[i].first > emitted.last[batch[i].key[1]]
         /\ \A j \in DOMAIN batch :
              i < j /\ batch[i].key[1] = batch[j].key[1] => batch[i].first < batch[j].first
=============================================================================

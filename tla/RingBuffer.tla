----------------------------- MODULE RingBuffer -----------------------------
(***************************************************************************)
(* internal/ringbuf: the circular byte buffer behind every pane, together  *)
(* with the one reader that skips work on the strength of its generation   *)
(* counter, the ghost-buffer flush of Daemon.snapshot.  Every method holds *)
(* rb.mu for its whole body, so a method is one step; the flush calls Gen  *)
(* and Bytes in two lock holds, so it is two.                              *)
(***************************************************************************)
EXTENDS Integers, Sequences

CONSTANTS Capacity,  \* len(rb.buf)
          Byte,      \* the bytes
          Zero,      \* the byte a fresh array holds
          Chunks,    \* the slices passed to Write
          MaxGen     \* bound: mutations considered

ASSUME RingAssumption ==
    /\ Capacity \in Nat \ {0}      \* NewRingBuffer raises a capacity <= 0 to 1
    /\ Zero \in Byte
    /\ Chunks \subseteq Seq(Byte)
    /\ MaxGen \in Nat

VARIABLES buf, start, size, gen,   \* RingBuffer's fields
          input,                   \* history: the last mutation's argument
          flushPC,                 \* "idle", or "bytes" between Gen and Bytes
          flushGen,                \* the flush's local gen
          savedGen,                \* snapGens[pane.ID]
          saved                    \* the bytes the last flush took

ring == <<buf, start, size, gen, input>>
flush == <<flushPC, flushGen, savedGen, saved>>
vars == <<ring, flush>>

Slot == 0 .. Capacity - 1

NoGen == -1                        \* no entry in snapGens

(***************************************************************************)
(* n bytes of the array b, copied from slot first to its end and then, if  *)
(* bytes are still missing, from its beginning.                            *)
(***************************************************************************)
CopyOut(b, first, n) ==
    [k \in 1 .. n |-> IF k <= Capacity - first
                      THEN b[first + k - 1]
                      ELSE b[k - (Capacity - first) - 1]]

TailLocked(n) == CopyOut(buf, (start + size - n) % Capacity, n)

Bytes == TailLocked(size)

-----------------------------------------------------------------------------
NewRingBuffer ==
    /\ buf = [i \in Slot |-> Zero]
    /\ start = 0
    /\ size = 0
    /\ gen = 0
    /\ input = <<>>

Init ==
    /\ NewRingBuffer
    /\ flushPC = "idle"
    /\ flushGen = 0
    /\ savedGen = NoGen
    /\ saved = <<>>

\* Mutant of Overwrite: keeps the head of an oversized chunk, not its tail.
OverwriteHead(p) ==
    /\ buf' = [i \in Slot |-> p[i + 1]]
    /\ start' = 0
    /\ size' = Capacity

\* The chunk alone fills the buffer: its last Capacity bytes replace everything.
Overwrite(p) ==
    /\ buf' = [i \in Slot |-> p[Len(p) - Capacity + i + 1]]
    /\ start' = 0
    /\ size' = Capacity

\* Mutant of AppendWrapped: start is not wrapped when old bytes are trimmed.
AppendNoWrap(p) ==
    LET end == (start + size) % Capacity
        grown == size + Len(p)
    IN  /\ buf' = [i \in Slot |->
                     IF end <= i /\ i - end < Len(p) THEN p[i - end + 1]
                     ELSE buf[i]]
        /\ start' = IF grown > Capacity THEN start + grown - Capacity ELSE start
        /\ size' = IF grown > Capacity THEN Capacity ELSE grown

\* The chunk goes behind the newest byte, in two copies when it wraps.
AppendWrapped(p) ==
    LET end == (start + size) % Capacity
        grown == size + Len(p)
    IN  /\ buf' = [i \in Slot |->
                     IF end <= i /\ i - end < Len(p) THEN p[i - end + 1]
                     ELSE IF i + (Capacity - end) < Len(p)
                          THEN p[i + (Capacity - end) + 1]
                          ELSE buf[i]]
        /\ start' = IF grown > Capacity
                    THEN (start + grown - Capacity) % Capacity ELSE start
        /\ size' = IF grown > Capacity THEN Capacity ELSE grown

\* An empty chunk returns before the lock and leaves gen alone.
Write(p) ==
    /\ p # <<>>
    /\ gen < MaxGen
    /\ gen' = gen + 1
    /\ input' = p
    /\ IF Len(p) >= Capacity THEN Overwrite(p) ELSE AppendWrapped(p)
    /\ UNCHANGED flush

\* Mutant of Reset: the clear is invisible to change detection.
ResetKeepsGen ==
    /\ start' = 0
    /\ size' = 0
    /\ input' = <<>>
    /\ UNCHANGED <<buf, gen, flush>>

Reset ==
    /\ gen < MaxGen
    /\ gen' = gen + 1
    /\ start' = 0
    /\ size' = 0
    /\ input' = <<>>
    /\ UNCHANGED <<buf, flush>>

\* "unchanged since last flush": the pane is skipped.
FlushSkip ==
    /\ flushPC = "idle"
    /\ savedGen = gen
    /\ UNCHANGED vars

\* The flush reads a generation it has not saved yet.
FlushGen ==
    /\ flushPC = "idle"
    /\ savedGen # gen
    /\ flushGen' = gen
    /\ flushPC' = "bytes"
    /\ UNCHANGED <<ring, savedGen, saved>>

\* It reads the bytes later and records the generation it read before;
\* an empty buffer is neither written nor recorded.
FlushBytes ==
    /\ flushPC = "bytes"
    /\ IF size > 0
       THEN saved' = Bytes /\ savedGen' = flushGen
       ELSE UNCHANGED <<saved, savedGen>>
    /\ flushPC' = "idle"
    /\ UNCHANGED <<ring, flushGen>>

Next ==
    \/ \E p \in Chunks : Write(p)
    \/ Reset
    \/ FlushSkip
    \/ FlushGen
    \/ FlushBytes

Spec == Init /\ [][Next]_vars
-----------------------------------------------------------------------------
\* Type correctness: the indices stay inside the array Write and Bytes address.
TypeOK ==
    /\ buf \in [Slot -> Byte]
    /\ start \in Slot
    /\ size \in 0 .. Capacity
    /\ gen \in 0 .. MaxGen
    /\ input \in Seq(Byte)
    /\ flushPC \in {"idle", "bytes"}
    /\ flushGen \in 0 .. MaxGen
    /\ savedGen \in 0 .. MaxGen \cup {NoGen}
    /\ saved \in Seq(Byte)

(***************************************************************************)
(* The skip is sound: whenever the recorded generation is the current one, *)
(* the bytes the flush took are the bytes the buffer holds, although Gen   *)
(* and Bytes are two lock holds a writer can slip between.                 *)
(***************************************************************************)
SkipIsSound == savedGen = gen => saved = Bytes

\* The circular array implements the bounded log.
Log == INSTANCE BoundedLog WITH log <- Bytes

\* Every method, seen through Bytes, is an append-and-trim, a clear or nothing.
ImplementsLog == Log!LogSpec
=============================================================================

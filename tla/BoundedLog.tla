----------------------------- MODULE BoundedLog -----------------------------
(***************************************************************************)
(* What a pane's output buffer promises its readers, without the circular  *)
(* array: the last Capacity bytes written since the last reset (the        *)
(* contract in the comments of internal/ringbuf/ringbuf.go).               *)
(***************************************************************************)
EXTENDS Naturals, Sequences

CONSTANTS Capacity,  \* bytes the buffer keeps
          Chunks     \* the byte sequences a writer may append

VARIABLES log,       \* the retained bytes, oldest first
          input      \* the chunk of the last call, empty for a reset

\* The last n elements of s, all of s when it is shorter.
LastN(s, n) == IF Len(s) <= n THEN s ELSE SubSeq(s, Len(s) - n + 1, Len(s))

LogInit == log = <<>> /\ input = <<>>

LogAppend(p) ==
    /\ input' = p
    /\ log' = LastN(log \o p, Capacity)

LogClear ==
    /\ input' = <<>>
    /\ log' = <<>>

LogNext == LogClear \/ \E p \in Chunks : LogAppend(p)

LogSpec == LogInit /\ [][LogNext]_<<log, input>>
=============================================================================

---------------------------- MODULE SpoolForward ----------------------------
(***************************************************************************)
(* forward: the daemon copies the new lines of a sandbox pane's event      *)
(* spool, which a hook inside the container appends to, into its own spool *)
(* directory, from an offset it keeps in memory.  The file is a sequence   *)
(* of bytes of which only the newlines matter.                             *)
(***************************************************************************)
EXTENDS Naturals, Sequences

CONSTANTS ForwardCap,   \* sandboxForwardCap: bytes one pass may copy
          MaxBytes,     \* bytes of the pane's spool
          MaxStarts     \* daemon starts

VARIABLES spool,    \* the pane's file
          offset,   \* spoolForwarder.offsets of the pane
          copied,   \* history: how often each byte was copied by this daemon
          before,   \* history: bytes an earlier daemon had copied
          starts

fwdVars == <<spool, offset, copied, before, starts>>

Bytes == {"text", "newline"}

FwdInit == spool = <<>> /\ offset = 0 /\ copied = <<>> /\ before = {} /\ starts = 1

\* The hook's append, whose bytes may arrive one at a time.
HookWrites ==
  /\ Len(spool) < MaxBytes
  /\ \E b \in Bytes : spool' = Append(spool, b)
  /\ copied' = Append(copied, 0)
  /\ UNCHANGED <<offset, before, starts>>

\* The agent owns the file, and may rewrite it.
AgentTruncates ==
  /\ spool # <<>>
  /\ spool' = <<>> /\ copied' = <<>> /\ before' = {}
  /\ UNCHANGED <<offset, starts>>

\* lastNewline of the window of n bytes after off: 0 when it has none.
lastNewline(off, n) ==
  LET ends == {i \in 1 .. n : spool[off + i] = "newline"}
  IN IF ends = {} THEN 0 ELSE CHOOSE i \in ends : \A j \in ends : j <= i

\* forward: whole lines only, ForwardCap bytes at most; a line longer than
\* that is stepped over.
forward ==
  LET off == IF Len(spool) < offset THEN 0 ELSE offset   \* truncated under us
      capped == Len(spool) - off > ForwardCap
      n == IF capped THEN ForwardCap ELSE Len(spool) - off
      end == lastNewline(off, n)
  IN /\ Len(spool) # off
     /\ offset' = IF end > 0 THEN off + end ELSE IF capped THEN off + n ELSE offset
     /\ copied' = [i \in DOMAIN copied |->
                     IF i > off /\ i <= off + end THEN copied[i] + 1 ELSE copied[i]]
     /\ UNCHANGED <<spool, before, starts>>

\* A new daemon: newSpoolForwarder has no offsets, and the pane's tree is as
\* the last one left it.
newSpoolForwarder ==
  /\ starts < MaxStarts
  /\ starts' = starts + 1
  /\ offset' = 0
  /\ before' = before \cup {i \in DOMAIN copied : copied[i] > 0}
  /\ copied' = [i \in DOMAIN copied |-> 0]
  /\ UNCHANGED spool

FwdNext == HookWrites \/ AgentTruncates \/ forward \/ newSpoolForwarder

FwdSpec == FwdInit /\ [][FwdNext]_fwdVars

----------------------------------------------------------------------------
(* The third promise of sandbox_spool.go:36: "It does not REPLAY": no byte  *)
(* of a pane's spool is copied twice, a restart of the daemon included.     *)
NoReplay == \A i \in DOMAIN copied : copied[i] + (IF i \in before THEN 1 ELSE 0) <= 1

============================================================================

----------------------------- MODULE StdioConn -----------------------------
(* A link to another host: an ssh child's pipes as a connection              *)
(* (internal/transport/stdioconn.go) and the dial that decides, from what is *)
(* left of a link that failed, what to offer the user (cmd/quil/remote.go,   *)
(* dialall.go, internal/transport/linkfailure.go, internal/remoteinstall/    *)
(* classify.go).  The pump, the copier of stderr, the one reader, two        *)
(* closers and the child run beside each other.  Bytes are numbered in the   *)
(* order they were sent.  The dial is a batch one, which keeps ssh's words.  *)
EXTENDS Integers, Sequences, SequencesExt

CONSTANT MaxBytes   \* bytes the far side sends

VARIABLES
    child,   \* the ssh process: st, the remote shell it ran, its reason and status
    pipe,    \* its stdout, written and not yet read
    sent,    \* all it wrote
    words,   \* what reads like a refusal on its stderr: not said, in that pipe, shown, lost
    pump,    \* the goroutine: pc, the chunk it holds, pumpErr
    ch,      \* readCh, of capacity one, and whether it is closed
    rd,      \* the reader: pc, held, the bytes it returned, what it was told
    bytesIn, \* Established()
    done,    \* closed by Close
    closer,  \* closer -> where in Close it is
    once,    \* closeOnce: free, a closer, or over
    reap,    \* reapOnce, and the status it recorded
    verdict  \* what the failed dial was classified as, or Unjudged
stdioVars == <<child, pipe, sent, words, pump, ch, rd, bytesIn, done, closer, once, reap, verdict>>

Closers == {"dialer", "exit"}
Reapers == Closers \cup {"pump"}
Unjudged == {"unjudged"}

\* noExitCode, a killed child's status, and those of ssh and the remote shell.
NoExit == -2
KilledCode == -1
ExitSSHOwnFailure == 255
exitCommandNotFound == 127

\* newStdioConn: ssh has started, which says nothing about the far side.
StdioInit ==
    /\ child = [st |-> "run", ran |-> FALSE, noise |-> FALSE, why |-> "none", code |-> NoExit,
                killed |-> FALSE]
    /\ pipe = <<>> /\ sent = <<>> /\ words = "none"
    /\ pump = [pc |-> "read", chunk |-> <<>>, err |-> FALSE]
    /\ ch = [buf |-> <<>>, closed |-> FALSE]
    /\ rd = [pc |-> "idle", held |-> <<>>, got |-> <<>>, verified |-> FALSE, told |-> FALSE,
             marker |-> FALSE, missed |-> FALSE]
    /\ bytesIn = FALSE /\ done = FALSE
    /\ closer = [c \in Closers |-> "out"] /\ once = "free"
    /\ reap = [by |-> "none", exit |-> NoExit, late |-> FALSE]
    /\ verdict = Unjudged

-----------------------------------------------------------------------------
(* The child                                                                 *)

\* ssh is through: the remote shell runs, and its start-up files may print what
\* looks like ssh's own complaint.
ShellRuns ==
    /\ child.st = "run" /\ ~child.ran
    /\ \E noise \in BOOLEAN : /\ child' = [child EXCEPT !.ran = TRUE, !.noise = noise]
                              /\ words' = IF noise THEN "pipe" ELSE words
    /\ UNCHANGED <<pipe, sent, pump, ch, rd, bytesIn, done, closer, once, reap, verdict>>

FarSends ==
    /\ child.st = "run" /\ child.ran /\ Len(sent) < MaxBytes
    /\ sent' = Append(sent, Len(sent) + 1) /\ pipe' = Append(pipe, Len(sent) + 1)
    /\ UNCHANGED <<child, words, pump, ch, rd, bytesIn, done, closer, once, reap, verdict>>

\* Its stdout closes before the process has exited; a refusal is said first.
ChildLeaves ==
    /\ child.st = "run"
    /\ \E why \in {"network"} \cup (IF child.ran THEN {"end"} ELSE {"auth"})
                  \cup (IF child.ran /\ sent = <<>> THEN {"missing"} ELSE {}) :
         /\ child' = [child EXCEPT !.st = "leaving", !.why = why,
                                   !.code = CASE why = "missing" -> exitCommandNotFound
                                              [] why = "end" -> 0
                                              [] OTHER -> ExitSSHOwnFailure]
         /\ words' = IF why = "auth" THEN "pipe" ELSE words
    /\ UNCHANGED <<pipe, sent, pump, ch, rd, bytesIn, done, closer, once, reap, verdict>>

\* exec's own goroutine copies stderr into the lockedBuffer, in its own time.  A
\* message holds maxStderrInMessage bytes: a longer banner before the words
\* leaves them out.
CopyStderr ==
    /\ words = "pipe"
    /\ words' \in {"shown", "lost"}
    /\ UNCHANGED <<child, pipe, sent, pump, ch, rd, bytesIn, done, closer, once, reap, verdict>>

ChildExits ==
    /\ child.st = "leaving"
    /\ child' = [child EXCEPT !.st = "gone"]
    /\ UNCHANGED <<pipe, sent, words, pump, ch, rd, bytesIn, done, closer, once, reap, verdict>>

\* A signal ends a child that had not exited, and its status is the signal's.
ChildDies ==
    /\ child.killed /\ child.st # "gone"
    /\ child' = [child EXCEPT !.st = "gone", !.code = KilledCode]
    /\ UNCHANGED <<pipe, sent, words, pump, ch, rd, bytesIn, done, closer, once, reap, verdict>>

-----------------------------------------------------------------------------
(* pump and reap                                                             *)

\* One read takes some of what is there; end of file comes when stdout is closed.
PumpRead ==
    /\ pump.pc = "read"
    /\ \/ \E n \in 1 .. Len(pipe) :
            /\ pump' = [pump EXCEPT !.pc = "put", !.chunk = SubSeq(pipe, 1, n)]
            /\ pipe' = SubSeq(pipe, n + 1, Len(pipe)) /\ bytesIn' = TRUE
       \/ /\ pipe = <<>> /\ child.st # "run"
          /\ pump' = [pump EXCEPT !.pc = "fail"] /\ UNCHANGED <<pipe, bytesIn>>
    /\ UNCHANGED <<child, sent, words, ch, rd, done, closer, once, reap, verdict>>

PumpPut ==
    /\ pump.pc = "put"
    /\ \/ /\ ch.buf = <<>> /\ ch' = [ch EXCEPT !.buf = <<pump.chunk>>]
          /\ pump' = [pump EXCEPT !.pc = "read", !.chunk = <<>>]
       \/ done /\ pump' = [pump EXCEPT !.pc = "shut", !.chunk = <<>>] /\ UNCHANGED ch
    /\ UNCHANGED <<child, pipe, sent, words, rd, bytesIn, done, closer, once, reap, verdict>>

\* The error is recorded before the channel closes on the reader.
PumpFail ==
    /\ pump.pc = "fail"
    /\ pump' = [pump EXCEPT !.pc = "shut", !.err = TRUE]
    /\ UNCHANGED <<child, pipe, sent, words, ch, rd, bytesIn, done, closer, once, reap, verdict>>

\* The deferred calls: the channel first, then the pipe, then the wait.
PumpShut ==
    /\ pump.pc = "shut"
    /\ ch' = [ch EXCEPT !.closed = TRUE] /\ pump' = [pump EXCEPT !.pc = "reap"]
    /\ UNCHANGED <<child, pipe, sent, words, rd, bytesIn, done, closer, once, reap, verdict>>

\* The first to call reap waits for the child, and records its status.  It waits
\* for the copier too, but no longer than WaitDelay, and then cuts it off.
InReap(w) == IF w = "pump" THEN pump.pc = "reap" ELSE closer[w] = "reap"

ReapBegin(w) ==
    /\ InReap(w) /\ reap.by = "none" /\ reap' = [reap EXCEPT !.by = w]
    /\ UNCHANGED <<child, pipe, sent, words, pump, ch, rd, bytesIn, done, closer, once, verdict>>

ReapEnd(w) ==
    /\ InReap(w) /\ reap.by = w /\ child.st = "gone"
    /\ reap' = [reap EXCEPT !.by = "over", !.exit = child.code]
    /\ words' = IF words = "pipe" THEN "lost" ELSE words
    /\ UNCHANGED <<child, pipe, sent, pump, ch, rd, bytesIn, done, closer, once, verdict>>

\* The others come out of reapOnce when it is over.
PumpEnds ==
    /\ pump.pc = "reap" /\ reap.by = "over" /\ pump' = [pump EXCEPT !.pc = "end"]
    /\ UNCHANGED <<child, pipe, sent, words, ch, rd, bytesIn, done, closer, once, reap, verdict>>

-----------------------------------------------------------------------------
(* Close                                                                     *)

\* The dialer closes a link that failed; the client's exit closes one in use.
Close(c) ==
    /\ closer[c] = "out"
    /\ IF c = "dialer" THEN rd.pc = "closing" ELSE rd.verified
    /\ IF once = "free"
       THEN once' = c /\ done' = TRUE /\ closer' = [closer EXCEPT ![c] = "look"]
       ELSE closer' = [closer EXCEPT ![c] = "wait"] /\ UNCHANGED <<once, done>>
    /\ UNCHANGED <<child, pipe, sent, words, pump, ch, rd, bytesIn, reap, verdict>>

\* Mutation: every child is killed at once.
pumpFailedNever == FALSE

pumpFailed == pump.err

\* A pipe that failed belongs to a child on its way out.
CloseLook(c) ==
    /\ closer[c] = "look"
    /\ closer' = [closer EXCEPT ![c] = IF pumpFailed THEN "grace" ELSE "kill"]
    /\ UNCHANGED <<child, pipe, sent, words, pump, ch, rd, bytesIn, done, once, reap, verdict>>

\* exitGrace may run out first.
CloseGrace(c) ==
    /\ closer[c] = "grace"
    /\ \/ reap.by = "over" /\ UNCHANGED reap
       \/ reap.by # "over" /\ reap' = [reap EXCEPT !.late = TRUE]
    /\ closer' = [closer EXCEPT ![c] = "kill"]
    /\ UNCHANGED <<child, pipe, sent, words, pump, ch, rd, bytesIn, done, once, verdict>>

CloseKill(c) ==
    /\ closer[c] = "kill"
    /\ child' = [child EXCEPT !.killed = TRUE] /\ closer' = [closer EXCEPT ![c] = "reap"]
    /\ UNCHANGED <<pipe, sent, words, pump, ch, rd, bytesIn, done, once, reap, verdict>>

\* The first comes out of reap, a second one out of closeOnce.
CloseReturns(c) ==
    /\ \/ closer[c] = "reap" /\ reap.by = "over" /\ once' = "over"
       \/ closer[c] = "wait" /\ once = "over" /\ UNCHANGED once
    /\ closer' = [closer EXCEPT ![c] = "back"]
    /\ UNCHANGED <<child, pipe, sent, words, pump, ch, rd, bytesIn, done, reap, verdict>>

-----------------------------------------------------------------------------
(* The reader, which is the dialer until the link is verified                *)

\* bytes is what a Read has to give; it returns some and holds the rest.
TakeBytes(bytes) == \E n \in 1 .. Len(bytes) :
    rd' = [rd EXCEPT !.pc = "idle", !.got = @ \o SubSeq(bytes, 1, n),
                     !.held = SubSeq(bytes, n + 1, Len(bytes))]

\* Read looks at done and at the remainder, then parks.
Read ==
    /\ rd.pc = "idle"
    /\ IF done THEN rd' = [rd EXCEPT !.pc = "failed"]
       ELSE IF rd.held # <<>> THEN TakeBytes(rd.held) ELSE rd' = [rd EXCEPT !.pc = "parked"]
    /\ UNCHANGED <<child, pipe, sent, words, pump, ch, bytesIn, done, closer, once, reap, verdict>>

\* Whatever is ready is taken: a chunk, the closed channel, Close, and in the
\* handshake the deadline.
ReadWakes ==
    /\ rd.pc = "parked"
    /\ \/ ch.buf # <<>> /\ TakeBytes(ch.buf[1]) /\ ch' = [ch EXCEPT !.buf = <<>>]
       \/ /\ ch.buf = <<>> /\ ch.closed
          /\ rd' = [rd EXCEPT !.pc = "failed", !.told = ~done] /\ UNCHANGED ch
       \/ /\ done \/ ~rd.verified
          /\ rd' = [rd EXCEPT !.pc = "failed"] /\ UNCHANGED ch
    /\ UNCHANGED <<child, pipe, sent, words, pump, bytesIn, done, closer, once, reap, verdict>>

\* verifyRemoteLinkGated and gateExtraVersion: an answer came, and may be refused.
Verify ==
    /\ rd.pc = "idle" /\ ~rd.verified /\ rd.got # <<>>
    /\ \/ rd' = [rd EXCEPT !.verified = TRUE]
       \/ rd' = [rd EXCEPT !.pc = "failed"]
    /\ UNCHANGED <<child, pipe, sent, words, pump, ch, bytesIn, done, closer, once, reap, verdict>>

\* LinkErr is read before Close: ssh's words as far as they have been copied, if
\* its pipe has failed.  missed: they were said and are not in the message.
Explain ==
    /\ rd.pc = "failed"
    /\ rd' = [rd EXCEPT !.pc = "closing",
                        !.marker = pump.err /\ words = "shown",
                        !.missed = words \in {"pipe", "lost"}]
    /\ UNCHANGED <<child, pipe, sent, words, pump, ch, bytesIn, done, closer, once, reap, verdict>>

\* ClassifyExit and ClassifyLinkFailure, after Close.
ClassifyExit == IF ~bytesIn /\ reap.exit = exitCommandNotFound THEN {"install"} ELSE {}
ClassifyLinkFailure ==
    IF ~bytesIn /\ reap.exit = ExitSSHOwnFailure /\ rd.marker THEN {"permanent"} ELSE {}

Classify ==
    /\ closer["dialer"] = "back" /\ ~rd.verified /\ verdict = Unjudged
    /\ verdict' = ClassifyExit \cup ClassifyLinkFailure
    /\ UNCHANGED <<child, pipe, sent, words, pump, ch, rd, bytesIn, done, closer, once, reap>>

StdioNext ==
    \/ ShellRuns \/ FarSends \/ ChildLeaves \/ CopyStderr \/ ChildExits \/ ChildDies
    \/ PumpRead \/ PumpPut \/ PumpFail \/ PumpShut \/ PumpEnds
    \/ \E w \in Reapers : ReapBegin(w) \/ ReapEnd(w)
    \/ \E c \in Closers : Close(c) \/ CloseLook(c) \/ CloseGrace(c) \/ CloseKill(c)
                          \/ CloseReturns(c)
    \/ Read \/ ReadWakes \/ Verify \/ Explain \/ Classify

StdioSpec == StdioInit /\ [][StdioNext]_stdioVars
-----------------------------------------------------------------------------
\* What has left the pump: returned, held by the reader, or in the channel.
Handed == rd.got \o rd.held \o (IF ch.buf = <<>> THEN <<>> ELSE ch.buf[1])

\* The bytes come in order, and none is lost before Close, however reads are
\* cut and whenever they time out.
BytesKept ==
    /\ IsPrefix(rd.got, sent)
    /\ ~done => Handed \o pump.chunk \o pipe = sent

\* A parked reader has something left to wake it; Close waits for no child that
\* nobody killed, and when it returns the child is gone and its status final.
NobodyStuck ==
    /\ rd.pc = "parked" /\ pump.pc \in {"reap", "end"} => ch.closed
    /\ \A c \in Closers : closer[c] = "reap" => child.killed
    /\ once = "over" => child.st = "gone" /\ reap.exit = child.code

\* An install is offered only when the far shell did not find the program, and
\* a link is given up only on ssh's own refusal, or what reads like it.  The
\* other way round, when a read failed on the dead pipe and the child ended by
\* itself in time, its status is not overwritten by Close's kill, and a refusal
\* is taken for one unless its words were not copied in time to be read.
DiagnosisRight ==
    verdict # Unjudged =>
        /\ "install" \in verdict => child.why = "missing"
        /\ "permanent" \in verdict => child.why = "auth" \/ child.noise
        /\ rd.told /\ ~reap.late =>
             /\ child.why = "missing" => "install" \in verdict
             /\ child.why = "auth" /\ ~rd.missed => "permanent" \in verdict
             /\ bytesIn <=> sent # <<>>

\* A link over an ssh child keeps its bytes, its goroutines come to an end, and
\* its failure is diagnosed as what it was, however the child's exit, the pump,
\* the reader and Close overlap.
LinkSound == BytesKept /\ NobodyStuck /\ DiagnosisRight
=============================================================================

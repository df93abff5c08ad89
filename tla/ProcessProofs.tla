--------------------------- MODULE ProcessProofs ---------------------------
(* Theorems about the parts around the daemon's process, for every value of  *)
(* their constants.                                                          *)
EXTENDS StdioConn, SignIn, Launch, Update, Sandbox, Bridge, Wizard, ProcKill,
        SequenceTheorems, WellFoundedInduction, FiniteSetTheorems, TLAPS

-----------------------------------------------------------------------------
(* The link over an ssh child                                                *)

\* Type correctness of the link.
StdioTypeOK ==
    /\ DOMAIN child = {"st", "ran", "noise", "why", "code", "killed"}
    /\ child.st \in {"run", "leaving", "gone"}
    /\ pipe \in Seq(Nat) /\ sent \in Seq(Nat)
    /\ DOMAIN pump = {"pc", "chunk", "err"}
    /\ pump.pc \in {"read", "put", "fail", "shut", "reap", "end"} /\ pump.chunk \in Seq(Nat)
    /\ DOMAIN ch = {"buf", "closed"}
    /\ ch.buf = <<>> \/ \E c \in Seq(Nat) : ch.buf = <<c>>
    /\ DOMAIN rd = {"pc", "held", "got", "verified", "told", "marker", "missed"}
    /\ rd.pc \in {"idle", "parked", "failed", "closing"}
    /\ rd.held \in Seq(Nat) /\ rd.got \in Seq(Nat)
    /\ closer \in [Closers -> {"out", "look", "grace", "kill", "reap", "wait", "back"}]
    /\ once \in Closers \cup {"free", "over"}
    /\ DOMAIN reap = {"by", "exit", "late"} /\ reap.by \in Reapers \cup {"none", "over"}

\* What the status of a child that was left alone says about it.
CodeOf(why) == CASE why = "missing" -> exitCommandNotFound
                 [] why = "end" -> 0
                 [] OTHER -> ExitSSHOwnFailure

\* The child has no reason while it runs, no output before its shell runs, and
\* a status that is its reason's unless a signal changed it; it has said a
\* refusal if that is its reason, or what reads like one.
ChildInv ==
    /\ child.st = "run" => child.why = "none" /\ child.code = NoExit
    /\ ~child.ran => ~child.noise /\ sent = <<>>
    /\ child.why = "auth" => ~child.ran
    /\ child.why = "missing" => sent = <<>>
    /\ child.code = exitCommandNotFound => child.why = "missing"
    /\ child.st # "run" /\ ~child.killed => child.code = CodeOf(child.why)
    /\ words \in {"none", "pipe", "shown", "lost"}
    /\ words # "none" => child.noise \/ child.why = "auth"
    /\ child.why = "auth" => words # "none"

\* The pump gives up on a closed stdout or after Close, and says which; what it
\* never read is still in the pipe.
PumpInv ==
    /\ ch.closed <=> pump.pc \in {"reap", "end"}
    /\ pump.pc \in {"shut", "reap", "end"} => pump.err \/ done
    /\ pump.err => pump.pc \in {"shut", "reap", "end"}
    /\ pump.err \/ pump.pc = "fail" => child.st # "run" /\ pipe = <<>>
    /\ ~bytesIn => pipe = sent
    /\ bytesIn => sent # <<>>

\* Only Close kills, and it returns when the child's status is recorded.
CloseInv ==
    /\ done <=> once # "free"
    /\ ~done => \A c \in Closers : closer[c] = "out"
    /\ child.killed => done
    /\ \A c \in Closers : closer[c] = "reap" => child.killed
    /\ \A c \in Closers : closer[c] = "back" => reap.by = "over"
    /\ closer["dialer"] # "out" => rd.pc = "closing"
    /\ once = "over" => reap.by = "over"
    /\ reap.by = "over" => child.st = "gone" /\ reap.exit = child.code

\* A reader told of the failed pipe before Close: Close then gives the child its
\* grace, and unless that ran out the child is waited for before it is killed.
ToldInv ==
    /\ rd.told => pump.err /\ rd.pc \in {"failed", "closing"}
    /\ rd.told /\ ~reap.late /\ (child.killed \/ \E c \in Closers : closer[c] \in {"kill", "reap"})
         => reap.by = "over"
    /\ rd.told /\ ~reap.late => child.code = CodeOf(child.why)
    /\ rd.told /\ child.why = "auth" /\ rd.pc = "closing" => rd.marker \/ rd.missed
    /\ rd.marker => child.noise \/ child.why = "auth"

\* Nothing has left the pump out of order; until the pump drops a chunk, which it
\* does only after Close, every byte sent is in one of the four places.
BytesInv ==
    /\ rd.pc = "parked" => rd.held = <<>>
    /\ pump.pc # "put" => pump.chunk = <<>>
    /\ \E rest \in Seq(Nat) : Handed \o rest = sent
    /\ pump.pc \in {"read", "put", "fail"} \/ ~done => Handed \o pump.chunk \o pipe = sent

VerdictInv == DiagnosisRight /\ (verdict # Unjudged => closer["dialer"] = "back")

LinkInv == StdioTypeOK /\ ChildInv /\ PumpInv /\ CloseInv /\ ToldInv /\ VerdictInv

\* Algebra of byte sequences.
LEMMA BytesAlgebra ==
    /\ \A s, t \in Seq(Nat) : s \o t \in Seq(Nat)
    /\ \A s, t, u \in Seq(Nat) : (s \o t) \o u = s \o (t \o u)
    /\ \A s \in Seq(Nat) : s \o <<>> = s /\ <<>> \o s = s
    /\ \A s \in Seq(Nat), b \in Nat : Append(s, b) # <<>> /\ Append(s, b) \in Seq(Nat)
    /\ \A s, t \in Seq(Nat), b \in Nat : s \o Append(t, b) = Append(s \o t, b)
<1>1. \A s, t \in Seq(Nat) : s \o t \in Seq(Nat)
    OBVIOUS
<1>2. \A s, t, u \in Seq(Nat) : (s \o t) \o u = s \o (t \o u)
    OBVIOUS
<1>3. \A s \in Seq(Nat) : s \o <<>> = s /\ <<>> \o s = s
    OBVIOUS
<1>4. \A s \in Seq(Nat), b \in Nat : Append(s, b) # <<>> /\ Append(s, b) \in Seq(Nat)
    OBVIOUS
<1>5. \A s, t \in Seq(Nat), b \in Nat : s \o Append(t, b) = Append(s \o t, b)
    OBVIOUS
<1> QED
    BY <1>1, <1>2, <1>3, <1>4, <1>5, Zenon

\* A sequence cut after its n-th element.
LEMMA CutSeq ==
    ASSUME NEW S, NEW s \in Seq(S), NEW n \in 1 .. Len(s)
    PROVE  /\ SubSeq(s, 1, n) \in Seq(S) /\ SubSeq(s, n + 1, Len(s)) \in Seq(S)
           /\ SubSeq(s, 1, n) \o SubSeq(s, n + 1, Len(s)) = s
OBVIOUS

LEMMA BytesAssoc == \A s, t, u \in Seq(Nat) : (s \o t) \o u = s \o (t \o u)
BY BytesAlgebra, Zenon

\* One sequence begins another.
Begins(s, t) == Len(s) <= Len(t) /\ \A i \in 1 .. Len(s) : t[i] = s[i]
LEMMA BeginsConcat == \A s, t \in Seq(Nat) : s \o t \in Seq(Nat) /\ Begins(s, s \o t)
<1> SUFFICES ASSUME NEW s \in Seq(Nat), NEW t \in Seq(Nat) PROVE s \o t \in Seq(Nat) /\ Begins(s, s \o t)
    OBVIOUS
<1>1. s \o t \in Seq(Nat) /\ Len(s \o t) = Len(s) + Len(t) /\ \A i \in 1 .. Len(s) : (s \o t)[i] = s[i]
    OBVIOUS
<1>2. Len(s) \in Nat /\ Len(t) \in Nat
    OBVIOUS
<1> QED
    BY <1>1, <1>2 DEF Begins
LEMMA BeginsTrans == \A s, t, u \in Seq(Nat) : Begins(s, t) /\ Begins(t, u) => Begins(s, u)
<1> SUFFICES ASSUME NEW s \in Seq(Nat), NEW t \in Seq(Nat), NEW u \in Seq(Nat), Begins(s, t), Begins(t, u)
             PROVE  Begins(s, u)
    OBVIOUS
<1>1. Len(s) \in Nat /\ Len(t) \in Nat /\ Len(u) \in Nat
    OBVIOUS
<1> QED
    BY <1>1 DEF Begins
LEMMA BeginsIsPrefix == \A s, t \in Seq(Nat) : Begins(s, t) => IsPrefix(s, t)
BY DEF Begins, IsPrefix

\* A sequence followed by both halves of another is followed by the whole of it.
LEMMA AppendCut ==
    \A p, a, b \in Seq(Nat) : p \o a \in Seq(Nat) /\ (p \o a) \o b = p \o (a \o b)
<1>1. \A s, t \in Seq(Nat) : s \o t \in Seq(Nat)
    BY BytesAlgebra, Zenon
<1>2. \A s, t, u \in Seq(Nat) : (s \o t) \o u = s \o (t \o u)
    BY BytesAlgebra, Zenon
<1> QED
    BY <1>1, <1>2, Zenon

\* What TakeBytes does with a chunk.
LEMMA TakeCut ==
    ASSUME StdioTypeOK, NEW bytes \in Seq(Nat), TakeBytes(bytes)
    PROVE  /\ DOMAIN rd' = DOMAIN rd /\ rd'.pc = "idle" /\ rd'.verified = rd.verified
           /\ rd'.told = rd.told /\ rd'.marker = rd.marker
           /\ rd'.held \in Seq(Nat) /\ rd'.got \in Seq(Nat)
           /\ rd'.got \o rd'.held = rd.got \o bytes
<1>1. PICK n \in 1 .. Len(bytes) :
        rd' = [rd EXCEPT !.pc = "idle", !.got = @ \o SubSeq(bytes, 1, n),
                         !.held = SubSeq(bytes, n + 1, Len(bytes))]
    BY DEF TakeBytes
<1> DEFINE a == SubSeq(bytes, 1, n)
           b == SubSeq(bytes, n + 1, Len(bytes))
<1>2. a \in Seq(Nat) /\ b \in Seq(Nat) /\ a \o b = bytes
    BY CutSeq
<1>3. rd' = [rd EXCEPT !.pc = "idle", !.got = @ \o a, !.held = b]
    BY <1>1
<1> HIDE DEF a, b
<1>4. /\ DOMAIN rd' = DOMAIN rd /\ rd'.pc = "idle" /\ rd'.verified = rd.verified
      /\ rd'.told = rd.told /\ rd'.marker = rd.marker
      /\ rd'.got = rd.got \o a /\ rd'.held = b
    BY <1>3 DEF StdioTypeOK
<1>5. rd.got \in Seq(Nat)
    BY DEF StdioTypeOK
<1>6. rd.got \o a \in Seq(Nat) /\ (rd.got \o a) \o b = rd.got \o (a \o b)
    BY <1>2, <1>5, AppendCut, Zenon
<1>7. rd.got \o (a \o b) = rd.got \o bytes
    BY <1>2, Zenon
<1> QED
    BY <1>2, <1>4, <1>6, <1>7, Zenon

LEMMA StdioTypes == StdioTypeOK /\ [StdioNext]_stdioVars => StdioTypeOK'
<1> SUFFICES ASSUME StdioTypeOK, [StdioNext]_stdioVars PROVE StdioTypeOK'
    OBVIOUS
<1> USE DEF StdioTypeOK, Closers, Reapers
<1>1. CASE ShellRuns BY <1>1 DEF ShellRuns
<1>2. CASE FarSends BY <1>2 DEF FarSends
<1>3. CASE ChildLeaves BY <1>3 DEF ChildLeaves
<1>4. CASE ChildExits BY <1>4 DEF ChildExits
<1>5. CASE ChildDies BY <1>5 DEF ChildDies
<1>6. CASE PumpRead
    <2>1. ASSUME NEW n \in 1 .. Len(pipe),
                 pump' = [pump EXCEPT !.pc = "put", !.chunk = SubSeq(pipe, 1, n)],
                 pipe' = SubSeq(pipe, n + 1, Len(pipe))
          PROVE  StdioTypeOK'
        <3>1. SubSeq(pipe, 1, n) \in Seq(Nat) /\ SubSeq(pipe, n + 1, Len(pipe)) \in Seq(Nat)
            BY CutSeq
        <3> QED
            <4>1. UNCHANGED <<child, sent, ch, rd, done, closer, once, reap, verdict>>
                BY <1>6 DEF PumpRead
            <4>2. pump'.pc = "put" /\ pump'.chunk = SubSeq(pipe, 1, n) /\ DOMAIN pump' = DOMAIN pump
                BY <2>1
            <4> QED
                BY <2>1, <3>1, <4>1, <4>2
    <2> QED
        BY <1>6, <2>1 DEF PumpRead
<1>7. CASE PumpPut
    <2>1. ch'.buf = <<>> \/ \E c \in Seq(Nat) : ch'.buf = <<c>>
        BY <1>7 DEF PumpPut
    <2>2. pump'.chunk = <<>> /\ DOMAIN pump' = DOMAIN pump /\ pump'.pc \in {"read", "shut"}
          /\ DOMAIN ch' = DOMAIN ch
        BY <1>7 DEF PumpPut
    <2> QED
        BY <1>7, <2>1, <2>2 DEF PumpPut
<1>8. CASE PumpFail BY <1>8 DEF PumpFail
<1>9. CASE PumpShut BY <1>9 DEF PumpShut
<1>10. CASE PumpEnds BY <1>10 DEF PumpEnds
<1>11. ASSUME NEW x \in Reapers, ReapBegin(x) PROVE StdioTypeOK' BY <1>11 DEF ReapBegin
<1>12. ASSUME NEW x \in Reapers, ReapEnd(x) PROVE StdioTypeOK' BY <1>12 DEF ReapEnd
<1>13. ASSUME NEW c \in Closers, Close(c) PROVE StdioTypeOK' BY <1>13 DEF Close
<1>14. ASSUME NEW c \in Closers, CloseLook(c) PROVE StdioTypeOK' BY <1>14 DEF CloseLook
<1>15. ASSUME NEW c \in Closers, CloseGrace(c) PROVE StdioTypeOK' BY <1>15 DEF CloseGrace
<1>16. ASSUME NEW c \in Closers, CloseKill(c) PROVE StdioTypeOK' BY <1>16 DEF CloseKill
<1>17. ASSUME NEW c \in Closers, CloseReturns(c) PROVE StdioTypeOK' BY <1>17 DEF CloseReturns
<1>18. CASE Read
    <2>1. UNCHANGED <<child, pipe, sent, pump, ch, done, closer, once, reap, verdict>>
        BY <1>18 DEF Read
    <2>2. DOMAIN rd' = DOMAIN rd /\ rd'.pc \in {"idle", "failed", "parked"}
          /\ rd'.held \in Seq(Nat) /\ rd'.got \in Seq(Nat)
        <3>1. CASE TakeBytes(rd.held)
            BY <3>1, TakeCut
        <3>2. CASE rd' = [rd EXCEPT !.pc = "failed"] \/ rd' = [rd EXCEPT !.pc = "parked"]
            BY <3>2
        <3> QED
            BY <1>18, <3>1, <3>2 DEF Read
    <2> QED
        BY <2>1, <2>2
<1>19. CASE ReadWakes
    <2>a. UNCHANGED <<child, pipe, sent, pump, done, closer, once, reap, verdict>>
        BY <1>19 DEF ReadWakes
    <2>1. CASE ch.buf # <<>> /\ TakeBytes(ch.buf[1]) /\ ch' = [ch EXCEPT !.buf = <<>>]
        <3>1. ch.buf[1] \in Seq(Nat)
            BY <2>1
        <3>2. ch'.buf = <<>> /\ DOMAIN ch' = DOMAIN ch
            BY <2>1
        <3>3. DOMAIN rd' = DOMAIN rd /\ rd'.pc = "idle" /\ rd'.held \in Seq(Nat) /\ rd'.got \in Seq(Nat)
            BY <2>1, <3>1, TakeCut
        <3> QED
            BY <2>a, <3>2, <3>3
    <2>2. CASE ch' = ch /\ (rd' = [rd EXCEPT !.pc = "failed", !.told = ~done]
                            \/ rd' = [rd EXCEPT !.pc = "failed"])
        <3>1. DOMAIN rd' = DOMAIN rd /\ rd'.pc = "failed" /\ rd'.held = rd.held /\ rd'.got = rd.got
            BY <2>2
        <3> QED
            BY <2>a, <2>2, <3>1
    <2> QED
        BY <1>19, <2>1, <2>2 DEF ReadWakes
<1>20. CASE Verify
    <2>1. DOMAIN rd' = DOMAIN rd /\ rd'.pc \in {"idle", "failed"} /\ rd'.held = rd.held /\ rd'.got = rd.got
        BY <1>20 DEF Verify
    <2> QED
        BY <1>20, <2>1 DEF Verify
<1>21. CASE Explain BY <1>21 DEF Explain
<1>22. CASE Classify BY <1>22 DEF Classify
<1>23. CASE UNCHANGED stdioVars BY <1>23 DEF stdioVars
<1>24. CASE CopyStderr BY <1>24 DEF CopyStderr
<1> HIDE DEF StdioTypeOK, Closers, Reapers
<1> QED
    BY <1>1, <1>2, <1>3, <1>4, <1>5, <1>6, <1>7, <1>8, <1>9, <1>10, <1>11, <1>12, <1>13, <1>14, <1>15,
       <1>16, <1>17, <1>18, <1>19, <1>20, <1>21, <1>22, <1>23, <1>24 DEF StdioNext

\* The control part of the invariant: nothing here depends on which bytes were
\* sent, only on whether any were.
LEMMA LinkStep == LinkInv /\ [StdioNext]_stdioVars => ChildInv' /\ PumpInv' /\ CloseInv' /\ ToldInv' /\ VerdictInv'
<1> SUFFICES ASSUME LinkInv, [StdioNext]_stdioVars
             PROVE  ChildInv' /\ PumpInv' /\ CloseInv' /\ ToldInv' /\ VerdictInv'
    OBVIOUS
<1> DEFINE Goal == ChildInv /\ PumpInv /\ CloseInv /\ ToldInv /\ VerdictInv
<1> SUFFICES Goal' OBVIOUS
<1>0. FarSends => sent' # <<>> /\ (pipe = sent => pipe' = sent')
    <2>1. sent \in Seq(Nat) /\ Len(sent) + 1 \in Nat
        BY DEF LinkInv, StdioTypeOK
    <2>2. Append(sent, Len(sent) + 1) # <<>>
        BY <2>1, BytesAlgebra
    <2> QED
        BY <2>2 DEF FarSends
<1> USE DEF LinkInv, StdioTypeOK, ChildInv, PumpInv, CloseInv, ToldInv, VerdictInv, DiagnosisRight,
            Closers, Reapers, CodeOf, Unjudged, NoExit, KilledCode, ExitSSHOwnFailure, exitCommandNotFound
<1>1. CASE ShellRuns BY <1>1 DEF ShellRuns
<1>2. CASE FarSends
    BY <1>0, <1>2 DEF FarSends
<1>3. CASE ChildLeaves BY <1>3 DEF ChildLeaves
<1>4. CASE ChildExits BY <1>4 DEF ChildExits
<1>5. CASE ChildDies BY <1>5 DEF ChildDies
<1>6. CASE PumpRead
    <2>1. CASE pipe = <<>> /\ child.st # "run" /\ pump' = [pump EXCEPT !.pc = "fail"]
               /\ UNCHANGED <<pipe, bytesIn>>
        BY <1>6, <2>1 DEF PumpRead
    <2>2. ASSUME NEW n \in 1 .. Len(pipe), bytesIn' = TRUE,
                 pump' = [pump EXCEPT !.pc = "put", !.chunk = SubSeq(pipe, 1, n)]
          PROVE  Goal'
        <3>1. pump'.err = pump.err /\ pump'.pc = "put" /\ pump.pc = "read"
            BY <1>6, <2>2 DEF PumpRead
        <3>2. pipe # <<>> /\ bytesIn' /\ sent # <<>>
            BY <2>2
        <3>3. UNCHANGED <<child, sent, words, ch, rd, done, closer, once, reap, verdict>>
            BY <1>6 DEF PumpRead
        <3>4. ChildInv' /\ CloseInv'
            BY <3>3
        <3>5. PumpInv'
            BY <3>1, <3>2, <3>3
        <3>6. ToldInv' /\ ~rd.told
            BY <3>1, <3>3
        <3>7. VerdictInv'
            BY <3>3, <3>6
        <3> QED
            BY <3>4, <3>5, <3>6, <3>7
    <2> QED
        BY <1>6, <2>1, <2>2 DEF PumpRead
<1>7. CASE PumpPut
    <2>1. pump'.err = pump.err /\ ch'.closed = ch.closed
          /\ (pump'.pc = "read" \/ (pump'.pc = "shut" /\ done))
        <3>1. CASE ch' = [ch EXCEPT !.buf = <<pump.chunk>>] /\ pump' = [pump EXCEPT !.pc = "read", !.chunk = <<>>]
            BY <3>1
        <3>2. CASE done /\ pump' = [pump EXCEPT !.pc = "shut", !.chunk = <<>>] /\ UNCHANGED ch
            BY <3>2
        <3> QED
            BY <1>7, <3>1, <3>2 DEF PumpPut
    <2> QED BY <1>7, <2>1 DEF PumpPut
<1>8. CASE PumpFail BY <1>8 DEF PumpFail
<1>9. CASE PumpShut BY <1>9 DEF PumpShut
<1>10. CASE PumpEnds BY <1>10 DEF PumpEnds
<1>11. ASSUME NEW x \in Reapers, ReapBegin(x) PROVE Goal' BY <1>11 DEF ReapBegin
<1>12. ASSUME NEW x \in Reapers, ReapEnd(x) PROVE Goal' BY <1>12 DEF ReapEnd
<1>13. ASSUME NEW c \in Closers, Close(c) PROVE Goal' BY <1>13 DEF Close
<1>14. ASSUME NEW c \in Closers, CloseLook(c) PROVE Goal' BY <1>14 DEF CloseLook, pumpFailed
<1>15. ASSUME NEW c \in Closers, CloseGrace(c) PROVE Goal' BY <1>15 DEF CloseGrace
<1>16. ASSUME NEW c \in Closers, CloseKill(c) PROVE Goal' BY <1>16 DEF CloseKill
<1>17. ASSUME NEW c \in Closers, CloseReturns(c) PROVE Goal' BY <1>17 DEF CloseReturns
<1>18. CASE Read
    <2>1. /\ rd'.told = rd.told /\ rd'.marker = rd.marker /\ rd.pc = "idle"
          /\ rd'.pc \in {"idle", "failed", "parked"}
        <3>1. CASE TakeBytes(rd.held)
            BY <1>18, <3>1, TakeCut DEF Read
        <3> QED
            BY <1>18, <3>1 DEF Read
    <2> QED BY <1>18, <2>1 DEF Read
<1>19. CASE ReadWakes
    <2>1. /\ rd'.marker = rd.marker /\ rd'.pc \in {"idle", "failed"} /\ ch'.closed = ch.closed
          /\ rd'.told => ~done /\ ch.closed /\ rd'.pc = "failed"
        <3>1. ~rd.told
            BY <1>19 DEF ReadWakes
        <3>2. CASE ch.buf # <<>> /\ TakeBytes(ch.buf[1]) /\ ch' = [ch EXCEPT !.buf = <<>>]
            <4>1. ch.buf[1] \in Seq(Nat)
                BY <3>2
            <4> QED
                BY <1>19, <3>1, <3>2, <4>1, TakeCut DEF ReadWakes
        <3>3. CASE ch.closed /\ rd' = [rd EXCEPT !.pc = "failed", !.told = ~done] /\ UNCHANGED ch
            BY <3>3
        <3>4. CASE rd' = [rd EXCEPT !.pc = "failed"] /\ UNCHANGED ch
            BY <3>1, <3>4
        <3> QED
            BY <1>19, <3>2, <3>3, <3>4 DEF ReadWakes
    <2> QED BY <1>19, <2>1 DEF ReadWakes
<1>20. CASE Verify
    <2>1. /\ rd'.told = rd.told /\ rd'.marker = rd.marker /\ rd.pc = "idle"
          /\ rd'.pc \in {"idle", "failed"}
        BY <1>20 DEF Verify
    <2> QED BY <1>20, <2>1 DEF Verify
<1>21. CASE Explain
    <2>1. /\ rd'.told = rd.told /\ rd'.pc = "closing" /\ rd.pc = "failed"
          /\ rd'.marker <=> pump.err /\ words = "shown"
          /\ rd'.missed <=> words \in {"pipe", "lost"}
        BY <1>21 DEF Explain
    <2> QED BY <1>21, <2>1 DEF Explain
<1>22. CASE Classify BY <1>22 DEF Classify, ClassifyExit, ClassifyLinkFailure
<1>23. CASE UNCHANGED stdioVars BY <1>23 DEF stdioVars
<1>24. CASE CopyStderr BY <1>24 DEF CopyStderr
<1> HIDE DEF LinkInv, StdioTypeOK, Goal, Closers, Reapers
<1> QED
    BY <1>1, <1>2, <1>3, <1>4, <1>5, <1>6, <1>7, <1>8, <1>9, <1>10, <1>11, <1>12, <1>13, <1>14, <1>15,
       <1>16, <1>17, <1>18, <1>19, <1>20, <1>21, <1>22, <1>23, <1>24 DEF StdioNext

\* The bytes part: an action moves bytes from one place to the next.
LEMMA BytesStep == LinkInv /\ BytesInv /\ [StdioNext]_stdioVars => BytesInv'
<1> SUFFICES ASSUME LinkInv, BytesInv, [StdioNext]_stdioVars PROVE BytesInv'
    OBVIOUS
<1> DEFINE Chan == IF ch.buf = <<>> THEN <<>> ELSE ch.buf[1]
<1>a. /\ rd.got \in Seq(Nat) /\ rd.held \in Seq(Nat) /\ pump.chunk \in Seq(Nat)
      /\ pipe \in Seq(Nat) /\ sent \in Seq(Nat) /\ Chan \in Seq(Nat)
    BY DEF LinkInv, StdioTypeOK
<1>b. Handed \in Seq(Nat) /\ Handed \o pump.chunk \in Seq(Nat) /\ rd.got \o rd.held \in Seq(Nat)
    BY <1>a, BytesAlgebra DEF Handed
<1>c. ASSUME UNCHANGED <<Handed, pump.chunk, pipe, sent>>,
             rd'.pc = "parked" => rd'.held = <<>>,
             pump'.pc # "put" => pump'.chunk = <<>>,
             pump'.pc \in {"read", "put", "fail"} \/ ~done' => pump.pc \in {"read", "put", "fail"} \/ ~done
      PROVE  BytesInv'
    BY <1>c DEF BytesInv
<1>1. CASE UNCHANGED <<pipe, sent, pump, ch, rd>> /\ (done => done')
    BY <1>1, <1>c DEF BytesInv, Handed
<1>2. CASE FarSends
    <2> DEFINE b == Len(sent) + 1
    <2>1. b \in Nat
        BY <1>a
    <2> HIDE DEF b
    <2>2. sent' = Append(sent, b) /\ pipe' = Append(pipe, b) /\ UNCHANGED <<pump, done, ch, rd>>
        BY <1>2 DEF FarSends, b
    <2>3. Handed' = Handed
        BY <2>2 DEF Handed
    <2>4. PICK rest \in Seq(Nat) : Handed \o rest = sent
        BY DEF BytesInv
    <2>5. Append(rest, b) \in Seq(Nat) /\ Handed \o Append(rest, b) = sent'
        <3>1. Append(rest, b) \in Seq(Nat)
            BY <2>1, <2>4, BytesAlgebra, Zenon
        <3>2. \A s, t \in Seq(Nat) : s \o Append(t, b) = Append(s \o t, b)
            BY <2>1, BytesAlgebra
        <3>3. Handed \o Append(rest, b) = Append(Handed \o rest, b)
            BY <1>b, <2>4, <3>2, Zenon
        <3> QED
            BY <2>2, <2>4, <3>1, <3>3, Zenon
    <2>6. Handed \o pump.chunk \o pipe = sent => Handed \o pump.chunk \o Append(pipe, b) = sent'
        <3> DEFINE h == Handed \o pump.chunk
        <3>1. h \in Seq(Nat)
            BY <1>b
        <3> HIDE DEF h
        <3>2. h \o Append(pipe, b) = Append(h \o pipe, b)
            <4>1. \A s, t \in Seq(Nat) : s \o Append(t, b) = Append(s \o t, b)
                BY <2>1, BytesAlgebra
            <4> QED
                BY <1>a, <3>1, <4>1
        <3> QED
            BY <2>2, <3>2 DEF h
    <2> QED
        BY <2>2, <2>3, <2>5, <2>6 DEF BytesInv
<1>3. CASE PumpRead
    <2>1. CASE pump' = [pump EXCEPT !.pc = "fail"] /\ UNCHANGED pipe
        <3>1. pump'.pc = "fail" /\ pump'.chunk = pump.chunk /\ pump.pc = "read"
            BY <1>3, <2>1 DEF PumpRead, LinkInv, StdioTypeOK
        <3>2. UNCHANGED <<Handed, pump.chunk, pipe, sent>> /\ rd' = rd
            BY <1>3, <2>1, <3>1 DEF PumpRead, Handed
        <3> QED
            BY <1>c, <3>1, <3>2 DEF BytesInv
    <2>2. ASSUME NEW n \in 1 .. Len(pipe),
                 pump' = [pump EXCEPT !.pc = "put", !.chunk = SubSeq(pipe, 1, n)],
                 pipe' = SubSeq(pipe, n + 1, Len(pipe))
          PROVE  BytesInv'
        <3>1. SubSeq(pipe, 1, n) \in Seq(Nat) /\ SubSeq(pipe, n + 1, Len(pipe)) \in Seq(Nat)
              /\ SubSeq(pipe, 1, n) \o SubSeq(pipe, n + 1, Len(pipe)) = pipe
            BY <1>a, CutSeq
        <3>2. pump'.pc = "put" /\ pump'.chunk = SubSeq(pipe, 1, n) /\ pump.pc = "read"
            BY <1>3, <2>2 DEF PumpRead, LinkInv, StdioTypeOK
        <3>3. pump'.chunk \in Seq(Nat) /\ pipe' \in Seq(Nat) /\ pump'.chunk \o pipe' = pipe
            BY <2>2, <3>1, <3>2
        <3>4. UNCHANGED <<sent, ch, rd, done>>
            BY <1>3 DEF PumpRead
        <3>5. Handed' = Handed
            BY <3>4 DEF Handed
        <3>6. Handed \o pipe = sent
            <4>1. Handed \o pump.chunk \o pipe = sent /\ pump.chunk = <<>>
                BY <3>2 DEF BytesInv
            <4> QED
                BY <1>b, <4>1, BytesAlgebra
        <3>7. (Handed \o pump'.chunk) \o pipe' = sent
            <4>1. (Handed \o pump'.chunk) \o pipe' = Handed \o (pump'.chunk \o pipe')
                BY <1>b, <3>3, BytesAssoc, Zenon
            <4> QED
                BY <3>3, <3>6, <4>1, Zenon
        <3> QED
            BY <3>2, <3>4, <3>5, <3>7 DEF BytesInv
    <2> QED
        BY <1>3, <2>1, <2>2 DEF PumpRead
<1>4. CASE PumpPut
    <2>1. CASE ch.buf = <<>> /\ ch' = [ch EXCEPT !.buf = <<pump.chunk>>]
               /\ pump' = [pump EXCEPT !.pc = "read", !.chunk = <<>>]
        <3>1. pump'.chunk = <<>> /\ pump'.pc = "read" /\ ch'.buf = <<pump.chunk>>
              /\ UNCHANGED <<pipe, sent, rd>> /\ pump.pc = "put"
            BY <1>4, <2>1 DEF PumpPut, LinkInv, StdioTypeOK
        <3>2. Handed = rd.got \o rd.held
            BY <1>b, <2>1, BytesAlgebra DEF Handed
        <3>3. Handed' = Handed \o pump.chunk
            <4>1. ch'.buf # <<>> /\ ch'.buf[1] = pump.chunk
                BY <3>1
            <4> QED
                BY <3>1, <3>2, <4>1 DEF Handed
        <3>4. Handed' \o pipe = sent
            BY <3>1, <3>3 DEF BytesInv
        <3>5. Handed' \o <<>> = Handed'
            BY <1>b, <3>3, BytesAlgebra
        <3> QED
            BY <1>a, <3>1, <3>4, <3>5 DEF BytesInv
    <2>2. CASE done /\ pump' = [pump EXCEPT !.pc = "shut", !.chunk = <<>>] /\ UNCHANGED ch
        <3>1. pump'.chunk = <<>> /\ pump'.pc = "shut" /\ UNCHANGED <<pipe, sent, rd, done>>
            BY <1>4, <2>2 DEF PumpPut, LinkInv, StdioTypeOK
        <3>2. Handed' = Handed
            BY <2>2, <3>1 DEF Handed
        <3> QED
            BY <2>2, <3>1, <3>2 DEF BytesInv
    <2> QED
        BY <1>4, <2>1, <2>2 DEF PumpPut
<1>5. CASE PumpFail \/ PumpShut \/ PumpEnds
    <2>1. pump'.chunk = pump.chunk /\ pump.pc # "put" /\ pump'.pc \in {"shut", "reap", "end"}
          /\ ch'.buf = ch.buf /\ UNCHANGED <<pipe, sent, rd, done>>
        BY <1>5 DEF PumpFail, PumpShut, PumpEnds, LinkInv, StdioTypeOK
    <2>2. Handed' = Handed
        BY <2>1 DEF Handed
    <2>3. pump.err \/ done \/ pump.pc = "fail"
        BY <1>5 DEF PumpFail, PumpShut, PumpEnds, LinkInv, PumpInv
    <2> QED
        BY <1>c, <2>1, <2>2 DEF BytesInv
<1>6. CASE Read \/ Verify \/ Explain
    <2>1. CASE TakeBytes(rd.held) /\ Read
        <3>1. rd'.got \o rd'.held = rd.got \o rd.held /\ rd'.pc = "idle"
            BY <1>a, <2>1, TakeCut DEF LinkInv
        <3>2. UNCHANGED <<pipe, sent, pump, ch, done>>
            BY <2>1 DEF Read
        <3>3. Handed' = Handed
            BY <3>1, <3>2 DEF Handed
        <3> QED
            BY <1>c, <3>1, <3>2, <3>3 DEF BytesInv
    <2>2. CASE rd'.got = rd.got /\ rd'.held = rd.held /\ (rd'.pc = "parked" => rd.held = <<>>)
        <3>1. UNCHANGED <<pipe, sent, pump, ch, done>>
            BY <1>6 DEF Read, Verify, Explain
        <3>2. Handed' = Handed
            BY <2>2, <3>1 DEF Handed
        <3> QED
            BY <1>c, <2>2, <3>1, <3>2 DEF BytesInv
    <2>3. DOMAIN rd = {"pc", "held", "got", "verified", "told", "marker", "missed"}
        BY DEF LinkInv, StdioTypeOK
    <2>4. CASE Read /\ ~TakeBytes(rd.held)
        BY <2>2, <2>3, <2>4 DEF Read
    <2>5. CASE Verify
        BY <2>2, <2>3, <2>5 DEF Verify
    <2>6. CASE Explain
        BY <2>2, <2>3, <2>6 DEF Explain
    <2> QED
        BY <1>6, <2>1, <2>4, <2>5, <2>6
<1>7. CASE ReadWakes
    <2>1. CASE ch.buf # <<>> /\ TakeBytes(ch.buf[1]) /\ ch' = [ch EXCEPT !.buf = <<>>]
        <3>1. ch.buf[1] \in Seq(Nat) /\ ch'.buf = <<>>
            BY <2>1 DEF LinkInv, StdioTypeOK
        <3>2. rd'.got \o rd'.held = rd.got \o ch.buf[1] /\ rd'.pc = "idle"
              /\ rd'.got \in Seq(Nat) /\ rd'.held \in Seq(Nat)
            BY <2>1, <3>1, TakeCut DEF LinkInv
        <3>3. UNCHANGED <<pipe, sent, pump, done>> /\ rd.held = <<>>
            BY <1>7 DEF ReadWakes, BytesInv
        <3>4. Handed = rd.got \o ch.buf[1]
            BY <1>a, <2>1, <3>3, BytesAlgebra DEF Handed
        <3>5. Handed' = (rd'.got \o rd'.held) \o <<>>
            BY <3>1 DEF Handed
        <3>6. Handed' = Handed
            BY <3>1, <3>2, <3>4, <3>5, BytesAlgebra
        <3> QED
            BY <1>c, <3>2, <3>3, <3>6 DEF BytesInv
    <2>2. CASE UNCHANGED ch /\ (rd' = [rd EXCEPT !.pc = "failed", !.told = ~done]
                               \/ rd' = [rd EXCEPT !.pc = "failed"])
        <3>1. rd'.got = rd.got /\ rd'.held = rd.held /\ rd'.pc = "failed"
              /\ UNCHANGED <<pipe, sent, pump, done>>
            BY <1>7, <2>2 DEF ReadWakes, LinkInv, StdioTypeOK
        <3>2. Handed' = Handed
            BY <2>2, <3>1 DEF Handed
        <3> QED
            BY <1>c, <3>1, <3>2 DEF BytesInv
    <2> QED
        BY <1>7, <2>1, <2>2 DEF ReadWakes
<1>8. CASE ShellRuns \/ ChildLeaves \/ CopyStderr \/ ChildExits \/ ChildDies \/ Classify
          \/ UNCHANGED stdioVars
    <2>1. UNCHANGED <<pipe, sent, pump, ch, rd, done>>
        BY <1>8 DEF ShellRuns, ChildLeaves, CopyStderr, ChildExits, ChildDies, Classify, stdioVars
    <2> QED
        BY <1>1, <2>1
<1>9. CASE \E x \in Reapers : ReapBegin(x) \/ ReapEnd(x)
    BY <1>1, <1>9 DEF ReapBegin, ReapEnd
<1>10. CASE \E c \in Closers : Close(c) \/ CloseLook(c) \/ CloseGrace(c) \/ CloseKill(c) \/ CloseReturns(c)
    BY <1>1, <1>10 DEF Close, CloseLook, CloseGrace, CloseKill, CloseReturns
<1> QED
    BY <1>2, <1>3, <1>4, <1>5, <1>6, <1>7, <1>8, <1>9, <1>10 DEF StdioNext

LEMMA LinkInit == StdioInit => LinkInv /\ BytesInv
<1> SUFFICES ASSUME StdioInit PROVE LinkInv /\ BytesInv
    OBVIOUS
<1> USE DEF StdioInit
<1>1. StdioTypeOK
    BY DEF StdioTypeOK, Closers
<1>2. ChildInv /\ PumpInv /\ ToldInv
    BY DEF ChildInv, PumpInv, ToldInv, NoExit, exitCommandNotFound
<1>3. CloseInv /\ VerdictInv
    BY DEF CloseInv, VerdictInv, DiagnosisRight, Closers
<1>4. <<>> \in Seq(Nat)
    OBVIOUS
<1>5. Handed = <<>> /\ <<>> \o <<>> = <<>>
    BY <1>4, BytesAlgebra DEF Handed
<1> QED
    BY <1>1, <1>2, <1>3, <1>4, <1>5 DEF LinkInv, BytesInv

\* A link over an ssh child: the reader gets the bytes in the order they were
\* sent and none is missing before Close; a parked reader is woken and Close waits
\* for no child that nobody killed; and a failed dial is diagnosed as what it was,
\* a refusal unless its words had not been copied off stderr when they were read,
\* however the child, the copier, the pump, the reader and the closers interleave.
THEOREM LinkIsSound == StdioSpec => []LinkSound
<1>1. StdioTypeOK /\ LinkInv /\ BytesInv => LinkSound
    <2> SUFFICES ASSUME LinkInv, BytesInv PROVE LinkSound
        OBVIOUS
    <2>1. IsPrefix(rd.got, sent)
        <3>1. PICK rest \in Seq(Nat) : Handed \o rest = sent
            BY DEF BytesInv
        <3> DEFINE Chan == IF ch.buf = <<>> THEN <<>> ELSE ch.buf[1]
        <3>2. rd.got \in Seq(Nat) /\ rd.held \in Seq(Nat) /\ Chan \in Seq(Nat)
            BY DEF LinkInv, StdioTypeOK
        <3>3. Handed = (rd.got \o rd.held) \o Chan
            BY DEF Handed
        <3> HIDE DEF Chan
        <3>4. rd.got \o rd.held \in Seq(Nat) /\ Begins(rd.got, rd.got \o rd.held)
            BY <3>2, BeginsConcat, Zenon
        <3>5. Handed \in Seq(Nat) /\ Begins(rd.got \o rd.held, Handed)
            BY <3>2, <3>3, <3>4, BeginsConcat, Zenon
        <3>6. sent \in Seq(Nat) /\ Begins(Handed, sent)
            BY <3>1, <3>5, BeginsConcat, Zenon
        <3> QED
            BY <3>2, <3>4, <3>5, <3>6, BeginsTrans, BeginsIsPrefix, Zenon
    <2>2. BytesKept
        BY <2>1 DEF BytesKept, BytesInv
    <2>3. NobodyStuck
        BY DEF NobodyStuck, LinkInv, PumpInv, CloseInv
    <2> QED
        BY <2>2, <2>3 DEF LinkSound, LinkInv, VerdictInv
<1>2. LinkInv /\ BytesInv /\ [StdioNext]_stdioVars => LinkInv' /\ BytesInv'
    BY StdioTypes, LinkStep, BytesStep DEF LinkInv
<1> QED
    BY <1>1, <1>2, LinkInit, PTL DEF StdioSpec, LinkInv
-----------------------------------------------------------------------------
(* Sandbox sign-in                                                           *)

SignInTypeOK ==
    /\ spawning \in [SiPanes -> {"no", "cap", "wait", "probe", "token", "begin"}]
    /\ box \in [SiPanes -> {"none", "bare", "parked", "running", "failed"}]
    /\ DOMAIN flight = {"running", "owner", "waiting"}
    /\ DOMAIN flow = {"at", "read", "eof", "ok"} /\ flow.ok \in BOOLEAN
    /\ flow.read \in Reads /\ flow.eof \in BOOLEAN /\ cutOff \in BOOLEAN

\* The output of the flow that holds a token has told where it ends, or ended.
FlowCut == flow.at = "got" /\ flow.read = "part" /\ flow.eof => cutOff

SignInInv == SignInTypeOK /\ SignInSound /\ FlowCut

LEMMA SignInStep == SignInInv /\ [SignInNext]_siVars => SignInInv'
<1> SUFFICES ASSUME SignInInv, [SignInNext]_siVars PROVE SignInInv'
    OBVIOUS
<1> USE DEF SignInInv, SignInTypeOK, SignInSound, NobodyLeftWaiting, ClaimsReleased, CutOnlyAtTheEnd, FlowCut,
            Reads, SiAt, SiBecomes
<1>1. ASSUME NEW x \in SiPanes, AskSpawn(x) PROVE SignInInv'
    BY <1>1 DEF AskSpawn
<1>2. ASSUME NEW x \in SiPanes, CapGet(x) PROVE SignInInv'
    BY <1>2 DEF CapGet
<1>3. ASSUME NEW x \in SiPanes, probeSandbox(x) PROVE SignInInv'
    BY <1>3 DEF probeSandbox
<1>4. ASSUME NEW x \in SiPanes, needsSandboxSignIn(x) PROVE SignInInv'
    BY <1>4 DEF needsSandboxSignIn, adoptPersistedToken, Spawned
<1>5. ASSUME NEW x \in SiPanes, beginSandboxSignIn(x) PROVE SignInInv'
    <2>1. CASE Spawned(x) /\ UNCHANGED <<flight, flow, flows>>
        BY <1>5, <2>1 DEF beginSandboxSignIn, Spawned
    <2>2. CASE /\ flows < MaxFlows \/ flight.running
               /\ SiBecomes(x, IF box[x] = "none" THEN "none" ELSE "parked")
               /\ flight' = begin(x)
               /\ flow' = IF flight.running THEN flow ELSE [flow EXCEPT !.at = "browser", !.read = ""]
               /\ flows' = IF flight.running THEN flows ELSE flows + 1
        <3>1. UNCHANGED <<docker, tells, env, userenv>> /\ spawning[x] = "begin"
              /\ spawning' = [spawning EXCEPT ![x] = "no"]
            BY <1>5 DEF beginSandboxSignIn
        <3>2. DOMAIN flow' = DOMAIN flow /\ flow'.ok \in BOOLEAN
              /\ flow'.at = IF flight.running THEN flow.at ELSE "browser"
            BY <2>2
        <3>3. /\ flight'.running /\ DOMAIN flight' = DOMAIN flight
              /\ x \in {flight'.owner} \cup flight'.waiting
              /\ flight.running => {flight.owner} \cup flight.waiting \subseteq {flight'.owner} \cup flight'.waiting
            BY <2>2 DEF begin, Landed
        <3>4. ASSUME NEW y \in SiPanes, box'[y] = "parked"
              PROVE  \/ y \in {flight'.owner} \cup flight'.waiting
                     \/ \E ok \in BOOLEAN : <<y, ok>> \in tells
            <4>1. y = x \/ box[y] = "parked"
                BY <2>2, <3>4
            <4> QED
                BY <3>3, <4>1
        <3>5. NobodyLeftWaiting'
            BY <3>1, <3>3, <3>4
        <3>6. ClaimsReleased'
            BY <3>1, <3>2
        <3>7. flow'.read \in Reads /\ flow'.eof \in BOOLEAN /\ FlowCut'
            <4>1. UNCHANGED cutOff
                BY <1>5 DEF beginSandboxSignIn
            <4> QED
                BY <2>2, <4>1
        <3>8. spawning' \in [SiPanes -> {"no", "cap", "wait", "probe", "token", "begin"}]
              /\ box' \in [SiPanes -> {"none", "bare", "parked", "running", "failed"}]
              /\ UNCHANGED cutOff
            BY <1>5, <2>2 DEF beginSandboxSignIn
        <3>9. CutOnlyAtTheEnd'
            BY <3>1, <3>8
        <3>10. SignInTypeOK'
            <4>1. flight'.running \in {TRUE} /\ cutOff' \in BOOLEAN
                BY <3>3, <3>8
            <4> QED
                BY <3>2, <3>3, <3>7, <3>8, <4>1
        <3> HIDE DEF SignInTypeOK, NobodyLeftWaiting, ClaimsReleased, CutOnlyAtTheEnd, FlowCut
        <3> QED
            BY <3>5, <3>6, <3>7, <3>9, <3>10
    <2> QED
        BY <1>5, <2>1, <2>2 DEF beginSandboxSignIn
<1>6. ASSUME NEW x \in SiPanes, ClosePaneOf(x) PROVE SignInInv'
    BY <1>6 DEF ClosePaneOf
<1>7. CASE CapExpires
    BY <1>7 DEF CapExpires
<1>8. CASE Capture
    <2>1. UNCHANGED <<docker, spawning, box, flight, tells, env, userenv>>
        BY <1>8 DEF Capture
    <2>2. /\ DOMAIN flow' = DOMAIN flow /\ flow'.at \in {"browser", "got", "end", "fail"}
          /\ flow'.read \in Reads /\ flow'.eof \in BOOLEAN /\ flow'.ok \in BOOLEAN
          /\ cutOff' \in BOOLEAN /\ (cutOff => cutOff') /\ FlowCut'
        <3>1. CASE \E r \in Reads : flow' = [flow EXCEPT !.read = r,
                                        !.at = IF completeToken(r, FALSE) # "none" THEN "got" ELSE @]
                   /\ UNCHANGED cutOff
            <4>1. PICK r \in Reads : flow' = [flow EXCEPT !.read = r,
                                        !.at = IF completeToken(r, FALSE) # "none" THEN "got" ELSE @]
                BY <3>1
            <4>2. flow.at = "browser" /\ UNCHANGED cutOff
                BY <1>8, <3>1 DEF Capture
            <4>3. DOMAIN flow' = DOMAIN flow /\ flow'.read = r /\ flow'.eof = flow.eof /\ flow'.ok = flow.ok
                BY <4>1
            <4>4. flow'.at \in {"browser", "got"} /\ (flow'.at = "got" => r # "part")
                BY <4>1, <4>2 DEF completeToken
            <4> QED
                BY <4>2, <4>3, <4>4
        <3>2. CASE /\ flow' = [flow EXCEPT !.eof = TRUE,
                               !.at = IF completeToken(flow.read, TRUE) # "none" THEN "got" ELSE "fail"]
                   /\ cutOff' = (cutOff \/ flow.read = "part")
            BY <3>2 DEF completeToken
        <3>3. CASE flow' = [flow EXCEPT !.at = "fail"] /\ UNCHANGED cutOff
            BY <3>3
        <3> QED
            BY <1>8, <3>1, <3>2, <3>3 DEF Capture
    <2> QED
        BY <2>1, <2>2
<1>9. CASE PublishToken
    BY <1>9 DEF PublishToken, completeToken
<1>10. CASE ReleaseClaim
    BY <1>10 DEF ReleaseClaim, end, Landed, AtRest
<1>11. CASE TellPane
    <2>1. PICK t \in tells : /\ tells' = tells \ {t}
                             /\ \/ t[2] /\ Spawned(t[1])
                                \/ ~t[2] /\ SiBecomes(t[1], IF box[t[1]] = "none" THEN "none" ELSE "failed")
        BY <1>11 DEF TellPane
    <2>2. UNCHANGED <<docker, spawning, flight, flow, env, userenv, cutOff>>
        BY <1>11 DEF TellPane
    <2>3. PICK b \in {"running", "failed", "none"} : box' = [box EXCEPT ![t[1]] = b]
        BY <2>1 DEF Spawned
    <2>4. box' \in [SiPanes -> {"none", "bare", "parked", "running", "failed"}]
        BY <2>3
    <2>5. ASSUME NEW y \in SiPanes, box'[y] = "parked"
          PROVE  \/ flight.running /\ y \in {flight.owner} \cup flight.waiting
                 \/ \E ok \in BOOLEAN : <<y, ok>> \in tells'
        <3>1. y # t[1] /\ box[y] = "parked"
            BY <2>3, <2>5
        <3>2. ASSUME NEW ok \in BOOLEAN
              PROVE  <<y, ok>> # t
            <4>1. <<y, ok>>[1] = y
                OBVIOUS
            <4> QED
                BY <3>1, <4>1, Zenon
        <3>3. tells' = tells \ {t}
            BY <2>1
        <3>4. \A ok \in BOOLEAN : <<y, ok>> \in tells => <<y, ok>> \in tells'
            BY <3>2, <3>3, Zenon
        <3>5. \/ flight.running /\ y \in {flight.owner} \cup flight.waiting
              \/ \E ok \in BOOLEAN : <<y, ok>> \in tells
            <4>1. NobodyLeftWaiting
                OBVIOUS
            <4> QED
                BY <3>1, <4>1, Zenon DEF NobodyLeftWaiting
        <3> HIDE DEF SignInInv
        <3> QED
            BY <3>4, <3>5, Zenon
    <2> QED
        BY <2>2, <2>4, <2>5
<1>12. CASE runSandboxLogin
    BY <1>12 DEF runSandboxLogin, Landed, AtRest
<1>13. CASE UNCHANGED siVars
    BY <1>13 DEF siVars
<1> QED
    BY <1>1, <1>2, <1>3, <1>4, <1>5, <1>6, <1>7, <1>8, <1>9, <1>10, <1>11, <1>12, <1>13 DEF SignInNext

\* However spawns, the browser flow, closes and a login interleave, a pane that
\* stood down for a sign-in is on its list or is being told its outcome, no claim
\* or probe outlives its holder, and no token that a read cut short is published:
\* for any number of panes.
THEOREM SignInIsSound == SignInSpec => []SignInSound
<1>1. SignInInit => SignInInv
    <2> SUFFICES ASSUME SignInInit PROVE SignInInv
        OBVIOUS
    <2>1. flow.ok \in BOOLEAN
        BY Zenon DEF SignInInit, AtRest
    <2> QED
        BY <2>1 DEF SignInInit, SignInInv, SignInTypeOK, SignInSound, NobodyLeftWaiting, ClaimsReleased,
                    CutOnlyAtTheEnd, FlowCut, Reads, Landed, AtRest
<1> QED
    BY <1>1, SignInStep, PTL DEF SignInSpec, SignInInv
-----------------------------------------------------------------------------
(* Daemons around one socket                                                 *)

\* The part of the types that the argument needs.
LaunchTypeOK ==
    /\ dmn \in [Quilds -> [st : {"none", "guard", "probe", "restore", "listen", "pid", "up", "wedged",
                                "told", "closing", "gone"}, ver : Nat]]
    /\ sock \in Quilds \cup {NoFile}

\* The daemons that found nobody listening and have not stopped listening since.
Owner(d) == dmn[d].st \in {"restore", "listen", "pid", "up", "wedged", "told"}

\* As long as no two daemons probed before either listened, and no launcher acted
\* on a file that was no longer what it took it for, one daemon at most has got
\* past its probe, and once it listens the socket file is its own.
OneOwner ==
    ~cold /\ ~blind =>
        /\ \A d, e \in Quilds : Owner(d) /\ Owner(e) => d = e
        /\ \A d \in Quilds : Listening(d) => sock = d

LaunchInv == LaunchTypeOK /\ OneOwner

LEMMA LaunchInitInv == LaunchInit => LaunchInv
BY LaunchAssumption DEF LaunchInit, LaunchInv, LaunchTypeOK, OneOwner, Owner, Listening, Quilds, NoFile, OwnVersion

LEMMA LaunchStep == LaunchInv /\ [LaunchNext]_launchVars => LaunchInv'
<1> SUFFICES ASSUME LaunchInv, [LaunchNext]_launchVars PROVE LaunchInv'
    OBVIOUS
<1>z. 0 \notin Quilds
    BY DEF Quilds
<1> USE <1>z DEF LaunchInv, LaunchTypeOK, OneOwner, Owner, Listening, Dials, NoFile, SetSt, To
<1>1. ASSUME NEW d \in Quilds, Guard(d) PROVE LaunchInv' BY <1>1 DEF Guard
<1>2. ASSUME NEW d \in Quilds, ProbeExisting(d) PROVE LaunchInv'
    <2>1. CASE Dials
        <3>1. dmn' = [dmn EXCEPT ![d].st = "gone"] /\ (cold' <=> cold) /\ UNCHANGED <<sock, pidFile, lch, blind>>
            BY <1>2, <2>1 DEF ProbeExisting
        <3>2. \A e \in Quilds \ {d} : dmn'[e] = dmn[e]
            BY <3>1
        <3>3. dmn'[d].st = "gone" /\ LaunchTypeOK'
            BY <3>1
        <3> QED
            BY <3>1, <3>2, <3>3
    <2>2. CASE ~Dials
        <3>1. /\ dmn[d].st = "probe" /\ dmn' = [dmn EXCEPT ![d].st = "restore"]
              /\ UNCHANGED <<sock, blind>>
              /\ ~cold' => ~cold /\ \A e \in Quilds \ {d} : dmn[e].st \notin {"restore", "listen"}
            BY <1>2, <2>2 DEF ProbeExisting
        <3>2. ~cold' /\ ~blind' => \A e \in Quilds : ~Owner(e)
            BY <2>2, <3>1
        <3>3. \A e \in Quilds \ {d} : dmn'[e] = dmn[e]
            BY <3>1
        <3>4. dmn'[d].st = "restore" /\ LaunchTypeOK'
            BY <3>1
        <3> QED
            BY <3>1, <3>2, <3>3, <3>4
    <2> QED
        BY <2>1, <2>2
<1>3. ASSUME NEW d \in Quilds, RestoreFirst(d) PROVE LaunchInv' BY <1>3 DEF RestoreFirst
<1>4. ASSUME NEW d \in Quilds, Listen(d) PROVE LaunchInv' BY <1>4 DEF Listen
<1>5. ASSUME NEW d \in Quilds, WritePIDFile(d) PROVE LaunchInv' BY <1>5 DEF WritePIDFile
<1>6. ASSUME NEW d \in Quilds, StopListening(d) PROVE LaunchInv' BY <1>6 DEF StopListening
<1>7. ASSUME NEW d \in Quilds, FinishStop(d) PROVE LaunchInv' BY <1>7 DEF FinishStop
<1>8. ASSUME NEW d \in Quilds, Wedge(d) PROVE LaunchInv' BY <1>8 DEF Wedge
<1>9. ASSUME UNCHANGED <<dmn, sock, cold, blind>> PROVE LaunchInv' BY <1>9
<1>10. ASSUME NEW l \in Launchers, Dial(l) \/ StartDaemon(l) \/ WaitReady(l) \/ Gate(l) \/ ReadPid(l) \/ AwaitGone(l)
       PROVE  LaunchInv'
    BY <1>9, <1>10 DEF Dial, StartDaemon, WaitReady, Gate, ReadPid, AwaitGone
<1>11. ASSUME NEW l \in Launchers, NEW cmd, LaunchQuil(l, cmd) PROVE LaunchInv'
    BY <1>9, <1>11 DEF LaunchQuil
<1>12. ASSUME NEW l \in Launchers, UnlinkStale(l) PROVE LaunchInv' BY <1>12 DEF UnlinkStale
<1>13. ASSUME NEW l \in Launchers, Spawn(l) PROVE LaunchInv' BY <1>13 DEF Spawn, OwnVersion
<1>14. ASSUME NEW l \in Launchers, SendShutdown(l) PROVE LaunchInv'
    <2>1. UNCHANGED <<sock, cold>> /\ (~blind' => ~blind)
          /\ (dmn' = dmn \/ (sock \in Quilds /\ Listening(sock) /\ dmn' = [dmn EXCEPT ![sock].st = "told"]))
        BY <1>14 DEF SendShutdown, Answers
    <2> QED
        BY <2>1
<1>15. ASSUME NEW l \in Launchers, SignalTerm(l) PROVE LaunchInv' BY <1>15 DEF SignalTerm
<1>16. ASSUME NEW l \in Launchers, KillProcess(l) PROVE LaunchInv' BY <1>16 DEF KillProcess
<1>17. ASSUME NEW l \in Launchers, CleanupDaemonFiles(l) PROVE LaunchInv' BY <1>17 DEF CleanupDaemonFiles
<1>18. CASE UNCHANGED launchVars BY <1>9, <1>18 DEF launchVars
<1> QED
    BY <1>1, <1>2, <1>3, <1>4, <1>5, <1>6, <1>7, <1>8, <1>10, <1>11, <1>12, <1>13, <1>14, <1>15, <1>16,
       <1>17, <1>18 DEF LaunchNext

\* However many launches, restarts, stops and kills overlap, once the daemons have
\* settled at most one is left and the socket file is its own, unless two daemons
\* passed their probes before either listened or a launcher acted on a stale look.
THEOREM NoDaemonIsOrphaned == LaunchSpec => []NoOrphan
<1>1. LaunchInv => NoOrphan
    BY DEF LaunchInv, LaunchTypeOK, OneOwner, NoOrphan, Settled, Alive, Listening
<1> QED
    BY <1>1, LaunchInitInv, LaunchStep, PTL DEF LaunchSpec
-----------------------------------------------------------------------------
(* The swap of the installed pair                                            *)

\* A nonempty set of naturals below a bound has a greatest member.
LEMMA Greatest ==
    ASSUME NEW n \in Nat, NEW S \in SUBSET (0 .. n), S # {}
    PROVE  \E x \in S : \A y \in S : y <= x
<1> DEFINE T == {n - x : x \in S}
<1>1. T \subseteq Nat /\ T # {}
    <2>1. \A x \in S : n - x \in Nat
        OBVIOUS
    <2> QED
        BY <2>1
<1>2. PICK t \in T : \A u \in T : <<u, t>> \notin OpToRel(<, Nat)
    BY <1>1, NatLessThanWellFounded, WFMin
<1>3. \A u \in T : ~(u < t)
    BY <1>1, <1>2 DEF OpToRel
<1>4. PICK x \in S : t = n - x
    OBVIOUS
<1>5. \A y \in S : n - y \in T
    OBVIOUS
<1>6. \A y \in S : y <= x
    BY <1>3, <1>4, <1>5
<1> QED
    BY <1>6

LEMMA FindStagedIsRelease == FindStaged \in Releases \cup {0}
<1> DEFINE have == {r \in Releases : staged[r].man}
<1>1. CASE have = {}
    BY <1>1 DEF FindStaged
<1>2. CASE have # {}
    <2>1. have \in SUBSET (0 .. MaxRelease)
        BY UpdateAssumption DEF Releases
    <2>2. \E r \in have : \A q \in have : q <= r
        BY <1>2, <2>1, Greatest, UpdateAssumption
    <2>3. FindStaged = CHOOSE r \in have : \A q \in have : q <= r
        BY <1>2 DEF FindStaged
    <2> HIDE DEF have
    <2>4. FindStaged \in have
        BY <2>2, <2>3
    <2> QED
        BY <2>4 DEF have
<1> QED
    BY <1>1, <1>2

\* The part of the types that the argument needs; what is staged plays no part,
\* since a copy that was not whole is excused.
UpdTypeOK ==
    /\ binFiles \in [Pair -> Int] /\ bak \in [Pair -> Int]
    /\ DOMAIN ac = Clients
    /\ \A c \in Clients : /\ DOMAIN ac[c] = {"pc", "ver", "to"}
                          /\ (ac[c].pc = "lock" \/ ac[c].pc = "reclaim" \/ Swapping(c)) => ac[c].to \in Releases

\* A swap is made under the lock.
SwapsAlone == \A c \in Clients : Swapping(c) => lock = c

\* How far the swap has come says where the old pair is: in place, in one backup,
\* in both, or in quil's beside a quild in place.
OldPairAt(c) ==
    LET quil == binFiles["quil"]
        quild == binFiles["quild"]
    IN  /\ ac[c].pc \in {"quilBak", "release"} => quil > 0 /\ quil = quild
        /\ ac[c].pc = "quilCopy" => bak["quil"] > 0 /\ bak["quil"] = quild
        /\ ac[c].pc = "quildBak" => quil = ac[c].to /\ bak["quil"] > 0 /\ bak["quil"] = quild
        /\ ac[c].pc = "quildCopy" => quil = ac[c].to /\ bak["quil"] > 0 /\ bak["quil"] = bak["quild"]
        /\ ac[c].pc = "undo" => bak["quil"] > 0 /\ bak["quil"] = quild

SwapInv ==
    /\ UpdTypeOK
    /\ ~excused => SwapsAlone /\ PairWhole /\ \A c \in Clients : OldPairAt(c)

LEMMA SwapStep == SwapInv /\ [UpdNext]_updVars => SwapInv'
<1> SUFFICES ASSUME SwapInv, [UpdNext]_updVars PROVE SwapInv'
    OBVIOUS
<1>p. "quil" \in Pair /\ "quild" \in Pair /\ "quil" # "quild" /\ (\A r \in Releases : r \in Int /\ r > 0)
      /\ Unlocked \notin Clients
    BY UpdateAssumption DEF Pair, Releases, Unlocked
<1> USE <1>p DEF SwapInv, UpdTypeOK, SwapsAlone, OldPairAt, PairWhole, Swapping, Cl, ClTo, Files
<1>1. ASSUME UNCHANGED <<binFiles, bak, ac, lock, excused>> PROVE SwapInv'
    BY <1>1
<1>2. CASE NewRelease \/ DaemonFromDisk
    BY <1>1, <1>2 DEF NewRelease, DaemonFromDisk
<1>3. ASSUME NEW k \in Checks, CheckRelease(k) \/ ClearDir(k) \/ ExtractBinaries(k) \/ WriteManifest(k)
                               \/ RecordStagedVersion(k)
      PROVE  SwapInv'
    BY <1>1, <1>3 DEF CheckRelease, ClearDir, ExtractBinaries, WriteManifest, RecordStagedVersion
<1>4. ASSUME NEW c \in Clients, LaunchClient(c) PROVE SwapInv'
    <2>1. FindStaged > binFiles["quil"] /\ binFiles["quil"] > 0 => FindStaged \in Releases
        BY FindStagedIsRelease
    <2> QED
        BY <1>4, <2>1 DEF LaunchClient
<1>5. ASSUME NEW c \in Clients, AcquireApplyLock(c) PROVE SwapInv'
    BY <1>5 DEF AcquireApplyLock
<1>6. ASSUME NEW c \in Clients, ReclaimLock(c) PROVE SwapInv'
    <2>1. /\ ac[c].pc = "reclaim" /\ lock' = Unlocked /\ ac' = [ac EXCEPT ![c].pc = "lock"]
          /\ UNCHANGED <<binFiles, bak>> /\ (~excused' => ~excused /\ (lock = Unlocked \/ Abandoned))
        BY <1>6 DEF ReclaimLock
    <2> QED
        BY <2>1 DEF Abandoned
<1>7. ASSUME NEW c \in Clients, BackUpQuil(c) PROVE SwapInv'
    BY <1>7 DEF BackUpQuil, BackUp, NoBinary
<1>s. ASSUME NEW c \in Clients, NEW pc \in {"quilBak", "quilCopy", "quildBak", "quildCopy", "undo", "release"},
             Swapping(c), ClTo(c, pc), lock' = lock, binFiles' \in [Pair -> Int], bak' \in [Pair -> Int],
             ~excused' => ~excused /\ OldPairAt(c)'
      PROVE  SwapInv'
    <2>1. /\ \A d \in Clients \ {c} : ac'[d] = ac[d]
          /\ ac'[c].pc = pc /\ ac'[c].to = ac[c].to /\ DOMAIN ac' = Clients
          /\ DOMAIN ac'[c] = {"pc", "ver", "to"} /\ Swapping(c)'
        BY <1>s
    <2>2. ~excused' => \A d \in Clients \ {c} : ~Swapping(d) /\ ~Swapping(d)'
        BY <1>s, <2>1
    <2>3. UpdTypeOK'
        BY <1>s, <2>1
    <2> QED
        BY <1>s, <2>1, <2>2, <2>3
<1>8. ASSUME NEW c \in Clients, CopyQuil(c) PROVE SwapInv'
    <2> DEFINE src == staged[ac[c].to]["quil"]
    <2>1. ac[c].pc = "quilCopy" /\ lock' = lock
        BY <1>8 DEF CopyQuil, CopyIn
    <2>2. CASE /\ src \in {"ok", "part"}
               /\ binFiles' = [binFiles EXCEPT !["quil"] = IF src = "ok" THEN ac[c].to ELSE Torn]
               /\ excused' = (excused \/ src = "part")
               /\ ClTo(c, "quildBak") /\ UNCHANGED bak
        <3>1. ac'[c].to = ac[c].to /\ ac'[c].pc = "quildBak" /\ ac[c].to \in Releases
            BY <2>1, <2>2
        <3>2. binFiles' \in [Pair -> Int] /\ bak' \in [Pair -> Int]
            BY <2>1, <2>2 DEF Torn
        <3>3. ~excused' => ~excused /\ OldPairAt(c)'
            BY <2>1, <2>2, <3>1 DEF Torn
        <3> QED
            BY <2>1, <2>2, <3>2, <3>3, <1>s
    <2>3. CASE /\ binFiles' = [binFiles EXCEPT !["quil"] = bak["quil"]] /\ bak' = [bak EXCEPT !["quil"] = NoBinary]
               /\ excused' = (excused \/ bak["quil"] = NoBinary)
               /\ ClTo(c, "release")
        <3>1. ac'[c].to = ac[c].to /\ ac'[c].pc = "release" /\ ac[c].to \in Releases
            BY <2>1, <2>3
        <3>2. binFiles' \in [Pair -> Int] /\ bak' \in [Pair -> Int]
            BY <2>1, <2>3 DEF NoBinary
        <3>3. ~excused' => ~excused /\ OldPairAt(c)'
            BY <2>1, <2>3, <3>1 DEF NoBinary
        <3> QED
            BY <2>1, <2>3, <3>2, <3>3, <1>s
    <2>4. CASE /\ binFiles' = [binFiles EXCEPT !["quil"] = Torn] /\ UNCHANGED bak
               /\ excused'
               /\ ClTo(c, "release")
        BY <2>1, <2>4 DEF Torn
    <2> QED
        BY <1>8, <2>2, <2>3, <2>4 DEF CopyQuil, CopyIn
<1>9. ASSUME NEW c \in Clients, BackUpQuild(c) PROVE SwapInv'
    BY <1>9 DEF BackUpQuild, BackUp, NoBinary
<1>10. ASSUME NEW c \in Clients, CopyQuild(c) PROVE SwapInv'
    <2> DEFINE src == staged[ac[c].to]["quild"]
    <2>1. ac[c].pc = "quildCopy" /\ lock' = lock
        BY <1>10 DEF CopyQuild, CopyIn
    <2>2. CASE /\ src \in {"ok", "part"}
               /\ binFiles' = [binFiles EXCEPT !["quild"] = IF src = "ok" THEN ac[c].to ELSE Torn]
               /\ excused' = (excused \/ src = "part")
               /\ ClTo(c, "release") /\ UNCHANGED bak
        <3>1. ac'[c].to = ac[c].to /\ ac'[c].pc = "release" /\ ac[c].to \in Releases
            BY <2>1, <2>2
        <3>2. binFiles' \in [Pair -> Int] /\ bak' \in [Pair -> Int]
            BY <2>1, <2>2 DEF Torn
        <3>3. ~excused' => ~excused /\ OldPairAt(c)'
            BY <2>1, <2>2, <3>1 DEF Torn
        <3> QED
            BY <2>1, <2>2, <3>2, <3>3, <1>s
    <2>3. CASE /\ binFiles' = [binFiles EXCEPT !["quild"] = bak["quild"]] /\ bak' = [bak EXCEPT !["quild"] = NoBinary]
               /\ excused' = (excused \/ bak["quild"] = NoBinary)
               /\ ClTo(c, "undo")
        <3>1. ac'[c].to = ac[c].to /\ ac'[c].pc = "undo" /\ ac[c].to \in Releases
            BY <2>1, <2>3
        <3>2. binFiles' \in [Pair -> Int] /\ bak' \in [Pair -> Int]
            BY <2>1, <2>3 DEF NoBinary
        <3>3. ~excused' => ~excused /\ OldPairAt(c)'
            BY <2>1, <2>3, <3>1 DEF NoBinary
        <3> QED
            BY <2>1, <2>3, <3>2, <3>3, <1>s
    <2>4. CASE /\ binFiles' = [binFiles EXCEPT !["quild"] = Torn] /\ UNCHANGED bak
               /\ excused'
               /\ ClTo(c, "undo")
        BY <2>1, <2>4 DEF Torn
    <2> QED
        BY <1>10, <2>2, <2>3, <2>4 DEF CopyQuild, CopyIn
<1>11. ASSUME NEW c \in Clients, UndoQuil(c) PROVE SwapInv'
    <2>1. ac[c].pc = "undo" /\ lock' = lock /\ ClTo(c, "release")
        BY <1>11 DEF UndoQuil
    <2>2. CASE /\ binFiles' = [binFiles EXCEPT !["quil"] = bak["quil"]] /\ bak' = [bak EXCEPT !["quil"] = NoBinary]
               /\ excused' = (excused \/ bak["quil"] = NoBinary)
        <3>1. ac'[c].to = ac[c].to /\ ac'[c].pc = "release" /\ ac[c].to \in Releases
            BY <2>1, <2>2
        <3>2. binFiles' \in [Pair -> Int] /\ bak' \in [Pair -> Int]
            BY <2>1, <2>2 DEF NoBinary
        <3>3. ~excused' => ~excused /\ OldPairAt(c)'
            BY <2>1, <2>2, <3>1 DEF NoBinary
        <3> QED
            BY <2>1, <2>2, <3>2, <3>3, <1>s
    <2>3. CASE excused' /\ UNCHANGED Files
        BY <2>1, <2>3
    <2> QED
        BY <1>11, <2>2, <2>3 DEF UndoQuil
<1>12. ASSUME NEW c \in Clients, ReleaseLock(c) PROVE SwapInv'
    BY <1>12 DEF ReleaseLock
<1>13. ASSUME NEW c \in Clients, LookForApply(c) PROVE SwapInv'
    BY <1>13 DEF LookForApply
<1>14. ASSUME NEW c \in Clients, SweepApplied(c) PROVE SwapInv'
    <2>1. /\ bak' = [b \in Pair |-> NoBinary] /\ ac' = [ac EXCEPT ![c].pc = "done"]
          /\ UNCHANGED <<binFiles, lock>> /\ ac[c].pc = "sweeping"
          /\ excused' = (excused \/ \E d \in Clients : Swapping(d))
        BY <1>14 DEF SweepApplied
    <2>2. bak' \in [Pair -> Int]
        BY <2>1 DEF NoBinary
    <2>3. \A d \in Clients : Swapping(d) <=> Swapping(d)'
        BY <2>1
    <2> QED
        BY <2>1, <2>2, <2>3
<1>15. ASSUME NEW c \in Clients, Relaunch(c) PROVE SwapInv'
    BY <1>15 DEF Relaunch, NotRun
<1>16. ASSUME NEW c \in Clients, KillClient(c) PROVE SwapInv'
    BY <1>16 DEF KillClient
<1>17. CASE UNCHANGED updVars
    BY <1>1, <1>17 DEF updVars
<1> QED
    BY <1>2, <1>3, <1>4, <1>5, <1>6, <1>7, <1>8, <1>9, <1>10, <1>11, <1>12, <1>13, <1>14, <1>15, <1>16,
       <1>17 DEF UpdNext

\* However clients, their failing renames and copies, the daemon's stagings and
\* its prunings interleave, quil and quild are whole and of one version whenever
\* nobody is swapping, for any number of clients, releases and faults; excused is
\* what PairWhole excuses.
THEOREM InstalledPairIsWhole == UpdSpec => []PairWhole
<1>1. UpdInit => SwapInv
    BY DEF UpdInit, SwapInv, UpdTypeOK, SwapsAlone, OldPairAt, PairWhole, Swapping, NotRun, Pair, NoBinary
<1>2. SwapInv => PairWhole
    BY DEF SwapInv, PairWhole
<1> QED
    BY <1>1, <1>2, SwapStep, PTL DEF UpdSpec
-----------------------------------------------------------------------------
(* Sandbox: a spawn and a teardown of one pane never run together outside the *)
(* waived races, and each step leaves what the next may rely on.              *)

SpawnSteps == {"no", "map", "dirs", "record", "line", "rm", "run"}
DownSteps == {"no", "look", "bare", "harvest", "remove", "line", "dirs", "drop", "end", "held"}
SbDisk == [reg : SUBSET SbPanes, alt : SUBSET SbPanes, dirs : SUBSET SbPanes,
           store : [SbPanes -> SUBSET Nat], repo : SUBSET Nat, wts : SUBSET SbPanes, saved : SUBSET SbPanes]
SbKeep == [at : {"off", "repair", "live", "list", "reap", "done"}, live : SUBSET SbPanes, ids : SUBSET SbPanes]
SbTypeOK ==
    /\ disk \in SbDisk
    /\ container \in [SbPanes -> {"none", "up", "exited"}]
    /\ boxes \subseteq SbPanes /\ entries \subseteq SbPanes /\ created \subseteq SbPanes /\ waived \subseteq SbPanes
    /\ preps \in [SbPanes -> SpawnSteps]
    /\ downs \in [SbPanes -> [Sweepers -> DownSteps]]
    /\ keep \in SbKeep
    /\ written \in Nat /\ due \subseteq SbPanes \X Nat
    /\ sbBoots \in Nat /\ errors \in Nat

\* A pane of the session or of the workspace file was created once.
IdsKnown == boxes \cup disk.saved \subseteq created
\* A dead daemon has no pane, spawn or teardown, and of its records those saved.
Quiet == ~DaemonUp => boxes = {} /\ preps = NoSpawn /\ downs = NoTeardown /\ entries = disk.reg

\* What the pane's agent wrote while it was in the session is in the repository.
Harvested(x) == \A d \in due : d[1] = x => d[2] \in disk.repo
\* A spawn runs alone, on what its earlier steps made.
SpawnAt(x) ==
    /\ preps[x] # "no" => \A b \in Sweepers : downs[x][b] = "no"
    /\ preps[x] \in {"record", "line", "rm", "run"} => x \in disk.dirs
    /\ preps[x] \in {"line", "rm", "run"} => x \in entries
    /\ preps[x] \in {"rm", "run"} => x \in disk.alt
\* A teardown runs on a closed pane, on what its earlier steps took away.
DownsAt(x, b) ==
    /\ downs[x][b] # "no" => x \notin boxes
    /\ downs[x][b] = "bare" => x \notin entries
    /\ downs[x][b] \in {"remove", "line", "dirs", "drop"} => Harvested(x)
    /\ downs[x][b] \in {"line", "dirs", "drop"} => container[x] = "none"
    /\ downs[x][b] \in {"dirs", "drop"} => x \notin disk.alt
    /\ downs[x][b] = "end" => container[x] # "up"
\* SandboxKept for one pane; a running container is linked as well.
KeptAt(x) ==
    /\ container[x] = "up" => x \in disk.alt \cap disk.wts
    /\ x \in disk.alt => x \in disk.dirs \cap entries
    /\ \A d \in due : d[1] = x =>
         d[2] \in disk.repo \/ (x \in disk.alt /\ d[2] \in disk.store[x])

\* The inductive invariant, for one pane and for all that no race waived.
SbPaneInv(x) == SpawnAt(x) /\ KeptAt(x) /\ \A b \in Sweepers : DownsAt(x, b)

SbInv == SbTypeOK /\ IdsKnown /\ Quiet /\ \A x \in SbPanes \ waived : SbPaneInv(x)

\* A step that takes nothing from pane y.
Untouched(y) ==
    /\ container'[y] = container[y] /\ preps'[y] = preps[y]
    /\ \A b \in Sweepers : downs'[y][b] = downs[y][b]
    /\ y \in boxes' => y \in boxes
    /\ y \in entries' <=> y \in entries
    /\ y \in disk'.alt <=> y \in disk.alt
    /\ y \in disk'.dirs <=> y \in disk.dirs
    /\ y \in disk'.wts <=> y \in disk.wts
    /\ disk.store[y] \subseteq disk'.store[y]
    /\ disk.repo \subseteq disk'.repo
    /\ \A d \in due' : d[1] = y => d \in due
    /\ waived \subseteq waived'

\* A step that leaves a pane alone keeps its invariant.
LEMMA UntouchedKeeps ==
    ASSUME NEW y \in SbPanes, Untouched(y), y \notin waived => SbPaneInv(y)
    PROVE  y \notin waived' => SbPaneInv(y)'
  BY DEF Untouched, SbPaneInv, SpawnAt, KeptAt, DownsAt, Harvested

\* What one step leaves on disk, field by field.
DiskNow(reg, alt, dirs, store, repo, wts) ==
    /\ disk' \in SbDisk /\ disk'.saved = disk.saved
    /\ disk'.reg = reg /\ disk'.alt = alt /\ disk'.dirs = dirs
    /\ disk'.store = store /\ disk'.repo = repo /\ disk'.wts = wts
DiskSame == DiskNow(disk.reg, disk.alt, disk.dirs, disk.store, disk.repo, disk.wts)

\* The fields after each of the updates the steps make.
LEMMA DiskUpdates ==
    ASSUME disk \in SbDisk, NEW x \in SbPanes, written \in Nat, entries \subseteq SbPanes
    PROVE
    /\ disk' = disk =>
         DiskSame
    /\ disk' = MakeTree(x) =>
         DiskNow(disk.reg, disk.alt, disk.dirs \cup {x}, disk.store, disk.repo, disk.wts)
    /\ disk' = [disk EXCEPT !.reg = entries \cup {x}] =>
         DiskNow(entries \cup {x}, disk.alt, disk.dirs, disk.store, disk.repo, disk.wts)
    /\ disk' = AddAlternate(x) =>
         DiskNow(disk.reg, disk.alt \cup {x}, disk.dirs, disk.store, disk.repo, disk.wts)
    /\ disk' = HarvestObjects(disk, x) =>
         DiskNow(disk.reg, disk.alt, disk.dirs, disk.store, disk.repo \cup disk.store[x], disk.wts)
    /\ disk' = RemoveLine(disk, x) =>
         DiskNow(disk.reg, disk.alt \ {x}, disk.dirs, disk.store, disk.repo, disk.wts)
    /\ disk' = WithoutTree(x) =>
         DiskNow(disk.reg, disk.alt, disk.dirs \ {x}, [disk.store EXCEPT ![x] = {}], disk.repo, disk.wts)
    /\ disk' = [disk EXCEPT !.reg = entries \ {x}] =>
         DiskNow(entries \ {x}, disk.alt, disk.dirs, disk.store, disk.repo, disk.wts)
    /\ disk' = [disk EXCEPT !.wts = @ \ {x}] =>
         DiskNow(disk.reg, disk.alt, disk.dirs, disk.store, disk.repo, disk.wts \ {x})
    /\ disk' = [disk EXCEPT !.store[x] = IF x \in disk.dirs THEN @ \cup {written + 1} ELSE @] =>
         DiskNow(disk.reg, disk.alt, disk.dirs, [disk.store EXCEPT ![x] = IF x \in disk.dirs THEN disk.store[x] \cup {written + 1} ELSE disk.store[x]], disk.repo, disk.wts)
<1>1. disk' = disk =>
         DiskSame
    BY DEF DiskSame, DiskNow, SbDisk, MakeTree, AddAlternate, HarvestObjects, CopyOnce, RemoveLine,
       WithoutTree
<1>2. disk' = MakeTree(x) =>
         DiskNow(disk.reg, disk.alt, disk.dirs \cup {x}, disk.store, disk.repo, disk.wts)
    BY DEF DiskSame, DiskNow, SbDisk, MakeTree, AddAlternate, HarvestObjects, CopyOnce, RemoveLine,
       WithoutTree
<1>3. disk' = [disk EXCEPT !.reg = entries \cup {x}] =>
         DiskNow(entries \cup {x}, disk.alt, disk.dirs, disk.store, disk.repo, disk.wts)
    BY DEF DiskSame, DiskNow, SbDisk, MakeTree, AddAlternate, HarvestObjects, CopyOnce, RemoveLine,
       WithoutTree
<1>4. disk' = AddAlternate(x) =>
         DiskNow(disk.reg, disk.alt \cup {x}, disk.dirs, disk.store, disk.repo, disk.wts)
    BY DEF DiskSame, DiskNow, SbDisk, MakeTree, AddAlternate, HarvestObjects, CopyOnce, RemoveLine,
       WithoutTree
<1>5. disk' = HarvestObjects(disk, x) =>
         DiskNow(disk.reg, disk.alt, disk.dirs, disk.store, disk.repo \cup disk.store[x], disk.wts)
    BY DEF DiskSame, DiskNow, SbDisk, MakeTree, AddAlternate, HarvestObjects, CopyOnce, RemoveLine,
       WithoutTree
<1>6. disk' = RemoveLine(disk, x) =>
         DiskNow(disk.reg, disk.alt \ {x}, disk.dirs, disk.store, disk.repo, disk.wts)
    BY DEF DiskSame, DiskNow, SbDisk, MakeTree, AddAlternate, HarvestObjects, CopyOnce, RemoveLine,
       WithoutTree
<1>7. disk' = WithoutTree(x) =>
         DiskNow(disk.reg, disk.alt, disk.dirs \ {x}, [disk.store EXCEPT ![x] = {}], disk.repo, disk.wts)
    <2> SUFFICES ASSUME disk' = WithoutTree(x)
                 PROVE  DiskNow(disk.reg, disk.alt, disk.dirs \ {x}, [disk.store EXCEPT ![x] = {}], disk.repo, disk.wts)
        OBVIOUS
    <2> DEFINE gone == [disk.store EXCEPT ![x] = {}]
    <2>1. gone \in [SbPanes -> SUBSET Nat] /\ disk.dirs \ {x} \in SUBSET SbPanes
        BY DEF SbDisk
    <2>2. disk' = [disk EXCEPT !.dirs = disk.dirs \ {x}, !.store = gone]
        BY DEF WithoutTree
    <2> HIDE DEF gone
    <2>3. disk' \in SbDisk /\ disk'.saved = disk.saved /\ disk'.reg = disk.reg /\ disk'.alt = disk.alt
          /\ disk'.dirs = disk.dirs \ {x} /\ disk'.store = gone /\ disk'.repo = disk.repo /\ disk'.wts = disk.wts
        BY <2>1, <2>2 DEF SbDisk
    <2> QED
        BY <2>3 DEF DiskSame, DiskNow, gone
<1>8. disk' = [disk EXCEPT !.reg = entries \ {x}] =>
         DiskNow(entries \ {x}, disk.alt, disk.dirs, disk.store, disk.repo, disk.wts)
    BY DEF DiskSame, DiskNow, SbDisk, MakeTree, AddAlternate, HarvestObjects, CopyOnce, RemoveLine,
       WithoutTree
<1>9. disk' = [disk EXCEPT !.wts = @ \ {x}] =>
         DiskNow(disk.reg, disk.alt, disk.dirs, disk.store, disk.repo, disk.wts \ {x})
    BY DEF DiskSame, DiskNow, SbDisk, MakeTree, AddAlternate, HarvestObjects, CopyOnce, RemoveLine,
       WithoutTree
<1>10. disk' = [disk EXCEPT !.store[x] = IF x \in disk.dirs THEN @ \cup {written + 1} ELSE @] =>
         DiskNow(disk.reg, disk.alt, disk.dirs, [disk.store EXCEPT ![x] = IF x \in disk.dirs THEN disk.store[x] \cup {written + 1} ELSE disk.store[x]], disk.repo, disk.wts)
    BY DEF DiskSame, DiskNow, SbDisk, MakeTree, AddAlternate, HarvestObjects, CopyOnce, RemoveLine,
       WithoutTree
<1> QED
    BY <1>1, <1>2, <1>3, <1>4, <1>5, <1>6, <1>7, <1>8, <1>9, <1>10
\* Every step of spawn, agent, teardown, daemon and sweep keeps the invariant.
LEMMA SandboxStep == SbInv /\ [SbNext]_sbVars => SbInv'
<1> SUFFICES ASSUME SbInv, [SbNext]_sbVars PROVE SbInv'
    OBVIOUS
<1>t. SbTypeOK /\ IdsKnown /\ Quiet
    BY DEF SbInv
<1>i. \A x \in SbPanes : x \notin waived => SbPaneInv(x)
    BY DEF SbInv
<1>f. ASSUME NEW x \in SbPanes, SbTypeOK', IdsKnown', Quiet', x \notin waived' => SbPaneInv(x)',
             \A y \in SbPanes \ {x} : Untouched(y)
      PROVE  SbInv'
    BY <1>f, <1>i, UntouchedKeeps DEF SbInv
<1>1. ASSUME NEW x \in SbPanes, spawnSandboxed(x) PROVE SbInv'
    <2>1. SbTypeOK'
        <3>1. disk' \in SbDisk
            BY <1>t, <1>1 DEF spawnSandboxed, SbTypeOK, SbDisk, SbKeep, SpawnSteps, DownSteps, Sweepers
        <3>2. errors' \in Nat /\ written' \in Nat /\ due' \subseteq SbPanes \X Nat
            BY <1>t, <1>1 DEF spawnSandboxed, SbTypeOK, SbDisk, SbKeep, SpawnSteps, DownSteps, Sweepers
        <3>3. downs' \in [SbPanes -> [Sweepers -> DownSteps]]
            BY <1>t, <1>1 DEF spawnSandboxed, SbTypeOK, SbDisk, SbKeep, SpawnSteps, DownSteps, Sweepers
        <3> QED
            BY <1>t, <1>1, <3>1, <3>2, <3>3 DEF spawnSandboxed, SbTypeOK, SbDisk, SbKeep, SpawnSteps,
               DownSteps, Sweepers
    <2>2. IdsKnown' /\ Quiet'
        BY <1>t, <1>1 DEF spawnSandboxed, SbTypeOK, SbDisk, SbKeep, SpawnSteps, DownSteps, Sweepers,
           IdsKnown, Quiet, DaemonUp, NoSpawn, NoTeardown, NoPass
    <2>3. x \notin waived' => SbPaneInv(x)'
        <3> SUFFICES ASSUME x \notin waived' PROVE SbPaneInv(x)'
            OBVIOUS
        <3>1. SpawnAt(x) /\ KeptAt(x) /\ \A s \in Sweepers : DownsAt(x, s)
            BY <1>i, <1>1 DEF spawnSandboxed, SbPaneInv
        <3>2. SpawnAt(x)'
            BY <1>t, <1>1, <3>1 DEF spawnSandboxed, SbTypeOK, SbDisk, SbKeep, SpawnSteps, DownSteps,
               Sweepers, SpawnAt, DownsAt
        <3>3. KeptAt(x)'
            BY <1>t, <1>1, <3>1 DEF spawnSandboxed, SbTypeOK, SbDisk, SbKeep, SpawnSteps, DownSteps,
               Sweepers, SpawnAt, KeptAt, DownsAt, Harvested
        <3>4. \A s \in Sweepers : DownsAt(x, s)'
            BY <1>t, <1>1, <3>1 DEF spawnSandboxed, SbTypeOK, SbDisk, SbKeep, SpawnSteps, DownSteps,
               Sweepers, IdsKnown, SpawnAt, KeptAt, DownsAt, Harvested
        <3> QED
            BY <3>2, <3>3, <3>4 DEF SbPaneInv
    <2>4. \A y \in SbPanes \ {x} : Untouched(y)
        BY <1>t, <1>1 DEF spawnSandboxed, SbTypeOK, SbDisk, SbKeep, SpawnSteps, DownSteps, Sweepers, Untouched
    <2> QED
        BY <2>1, <2>2, <2>3, <2>4, <1>f
<1>2. ASSUME NEW x \in SbPanes, NewMapping(x) PROVE SbInv'
    <2>1. SbTypeOK'
        <3>1. disk' \in SbDisk
            BY <1>t, <1>2 DEF NewMapping, SbTypeOK, SbDisk, SbKeep, SpawnSteps, DownSteps, Sweepers
        <3>2. errors' \in Nat /\ written' \in Nat /\ due' \subseteq SbPanes \X Nat
            BY <1>t, <1>2 DEF NewMapping, SbTypeOK, SbDisk, SbKeep, SpawnSteps, DownSteps, Sweepers
        <3>3. downs' \in [SbPanes -> [Sweepers -> DownSteps]]
            BY <1>t, <1>2 DEF NewMapping, SbTypeOK, SbDisk, SbKeep, SpawnSteps, DownSteps, Sweepers
        <3> QED
            BY <1>t, <1>2, <3>1, <3>2, <3>3 DEF NewMapping, SbTypeOK, SbDisk, SbKeep, SpawnSteps,
               DownSteps, Sweepers
    <2>2. IdsKnown' /\ Quiet'
        BY <1>t, <1>2 DEF NewMapping, SbTypeOK, SbDisk, SbKeep, SpawnSteps, DownSteps, Sweepers, IdsKnown,
           Quiet, DaemonUp, NoSpawn, NoTeardown, NoPass
    <2>3. x \notin waived' => SbPaneInv(x)'
        <3> SUFFICES ASSUME x \notin waived' PROVE SbPaneInv(x)'
            OBVIOUS
        <3>1. SpawnAt(x) /\ KeptAt(x) /\ \A s \in Sweepers : DownsAt(x, s)
            BY <1>i, <1>2 DEF NewMapping, SbPaneInv
        <3>2. SpawnAt(x)'
            BY <1>t, <1>2, <3>1 DEF NewMapping, SbTypeOK, SbDisk, SbKeep, SpawnSteps, DownSteps,
               Sweepers, SpawnAt, DownsAt
        <3>3. KeptAt(x)'
            BY <1>t, <1>2, <3>1 DEF NewMapping, SbTypeOK, SbDisk, SbKeep, SpawnSteps, DownSteps,
               Sweepers, SpawnAt, KeptAt, DownsAt, Harvested
        <3>4. \A s \in Sweepers : DownsAt(x, s)'
            BY <1>t, <1>2, <3>1 DEF NewMapping, SbTypeOK, SbDisk, SbKeep, SpawnSteps, DownSteps,
               Sweepers, IdsKnown, SpawnAt, KeptAt, DownsAt, Harvested
        <3> QED
            BY <3>2, <3>3, <3>4 DEF SbPaneInv
    <2>4. \A y \in SbPanes \ {x} : Untouched(y)
        BY <1>t, <1>2 DEF NewMapping, SbTypeOK, SbDisk, SbKeep, SpawnSteps, DownSteps, Sweepers, Untouched
    <2> QED
        BY <2>1, <2>2, <2>3, <2>4, <1>f
<1>3. ASSUME NEW x \in SbPanes, prepareSandbox(x) PROVE SbInv'
    <2>0. /\ UNCHANGED <<container, boxes, downs, keep, created, written, due, waived, sbBoots>>
          /\ \/ /\ preps[x] = "dirs" /\ DiskNow(disk.reg, disk.alt, disk.dirs \cup {x}, disk.store, disk.repo, disk.wts)
                /\ preps' = [preps EXCEPT ![x] = "record"] /\ errors' = errors /\ entries' = entries
             \/ /\ preps[x] = "record" /\ preps' = [preps EXCEPT ![x] = "line"]
                /\ entries' = entries \cup {x}
                /\ \/ DiskNow(entries \cup {x}, disk.alt, disk.dirs, disk.store, disk.repo, disk.wts) /\ errors' = errors
                   \/ DiskSame /\ errors' = errors + 1
             \/ /\ preps[x] = "line" /\ DiskNow(disk.reg, disk.alt \cup {x}, disk.dirs, disk.store, disk.repo, disk.wts)
                /\ preps' = [preps EXCEPT ![x] = "rm"] /\ errors' = errors /\ entries' = entries
             \/ /\ preps[x] # "no" /\ DiskSame /\ preps' = [preps EXCEPT ![x] = "no"]
                /\ errors' = errors + 1 /\ entries' = entries
        <3>1. /\ UNCHANGED <<container, boxes, downs, keep, created, written, due, waived, sbBoots>>
              /\ \/ /\ preps[x] = "dirs" /\ disk' = MakeTree(x)
                    /\ preps' = [preps EXCEPT ![x] = "record"] /\ errors' = errors /\ entries' = entries
                 \/ /\ preps[x] = "record" /\ preps' = [preps EXCEPT ![x] = "line"]
                    /\ entries' = entries \cup {x}
                    /\ \/ disk' = [disk EXCEPT !.reg = entries \cup {x}] /\ errors' = errors
                       \/ disk' = disk /\ errors' = errors + 1
                 \/ /\ preps[x] = "line" /\ disk' = AddAlternate(x)
                    /\ preps' = [preps EXCEPT ![x] = "rm"] /\ errors' = errors /\ entries' = entries
                 \/ /\ preps[x] # "no" /\ disk' = disk /\ preps' = [preps EXCEPT ![x] = "no"]
                    /\ errors' = errors + 1 /\ entries' = entries
            BY <1>t, <1>3 DEF prepareSandbox, Make, put, saveRegistry, PrepNext, Works, Errs, SbTypeOK, SpawnSteps,
               DownSteps, Sweepers
        <3> QED
            BY <1>t, <3>1, DiskUpdates DEF SbTypeOK
    <2>1. SbTypeOK'
        <3>1. disk' \in SbDisk
            BY <1>t, <2>0 DEF DiskSame, DiskNow, SbTypeOK, SbDisk, SbKeep, SpawnSteps, DownSteps, Sweepers
        <3>2. errors' \in Nat /\ written' \in Nat /\ due' \subseteq SbPanes \X Nat
            BY <1>t, <2>0 DEF DiskSame, DiskNow, SbTypeOK, SbDisk, SbKeep, SpawnSteps, DownSteps, Sweepers
        <3>3. downs' \in [SbPanes -> [Sweepers -> DownSteps]]
            BY <1>t, <2>0 DEF DiskSame, DiskNow, SbTypeOK, SbDisk, SbKeep, SpawnSteps, DownSteps, Sweepers
        <3> QED
            BY <1>t, <2>0, <3>1, <3>2, <3>3 DEF DiskSame, DiskNow, SbTypeOK, SbDisk, SbKeep, SpawnSteps, DownSteps, Sweepers
    <2>2. IdsKnown' /\ Quiet'
        BY <1>t, <2>0 DEF DiskSame, DiskNow, SbTypeOK, SbDisk, SbKeep, SpawnSteps, DownSteps, Sweepers, IdsKnown,
           Quiet, DaemonUp, NoSpawn, NoTeardown, NoPass
    <2>3. x \notin waived' => SbPaneInv(x)'
        <3> SUFFICES ASSUME x \notin waived' PROVE SbPaneInv(x)'
            OBVIOUS
        <3>1. SpawnAt(x) /\ KeptAt(x) /\ \A s \in Sweepers : DownsAt(x, s)
            BY <1>i, <1>3 DEF prepareSandbox, Make, MakeTree, put, saveRegistry, AddAlternate, PrepNext,
               Works, Errs, SbPaneInv
        <3>2. SpawnAt(x)'
            BY <1>t, <2>0, <3>1 DEF DiskSame, DiskNow, SbTypeOK, SbDisk, SbKeep, SpawnSteps, DownSteps, Sweepers,
               SpawnAt, DownsAt
        <3>3. KeptAt(x)'
            BY <1>t, <2>0, <3>1 DEF DiskSame, DiskNow, SbTypeOK, SbDisk, SbKeep, SpawnSteps, DownSteps, Sweepers,
               SpawnAt, KeptAt, DownsAt, Harvested
        <3>4. \A s \in Sweepers : DownsAt(x, s)'
            BY <1>t, <2>0, <3>1 DEF DiskSame, DiskNow, SbTypeOK, SbDisk, SbKeep, SpawnSteps, DownSteps, Sweepers,
               IdsKnown, SpawnAt, KeptAt, DownsAt, Harvested
        <3> QED
            BY <3>2, <3>3, <3>4 DEF SbPaneInv
    <2>4. \A y \in SbPanes \ {x} : Untouched(y)
        BY <1>t, <2>0 DEF DiskSame, DiskNow, SbTypeOK, SbDisk, SbKeep, SpawnSteps, DownSteps, Sweepers, Untouched
    <2> QED
        BY <2>1, <2>2, <2>3, <2>4, <1>f
<1>4. ASSUME NEW x \in SbPanes, PreRunRemove(x) PROVE SbInv'
    <2>1. SbTypeOK'
        <3>1. disk' \in SbDisk
            BY <1>t, <1>4 DEF PreRunRemove, WithoutContainer, Works, Errs, SbTypeOK, SbDisk, SbKeep,
               SpawnSteps, DownSteps, Sweepers
        <3>2. errors' \in Nat /\ written' \in Nat /\ due' \subseteq SbPanes \X Nat
            BY <1>t, <1>4 DEF PreRunRemove, WithoutContainer, Works, Errs, SbTypeOK, SbDisk, SbKeep,
               SpawnSteps, DownSteps, Sweepers
        <3>3. downs' \in [SbPanes -> [Sweepers -> DownSteps]]
            BY <1>t, <1>4 DEF PreRunRemove, WithoutContainer, Works, Errs, SbTypeOK, SbDisk, SbKeep,
               SpawnSteps, DownSteps, Sweepers
        <3> QED
            BY <1>t, <1>4, <3>1, <3>2, <3>3 DEF PreRunRemove, WithoutContainer, Works, Errs,
               SbTypeOK, SbDisk, SbKeep, SpawnSteps, DownSteps, Sweepers
    <2>2. IdsKnown' /\ Quiet'
        BY <1>t, <1>4 DEF PreRunRemove, WithoutContainer, Works, Errs, SbTypeOK, SbDisk, SbKeep, SpawnSteps,
           DownSteps, Sweepers, IdsKnown, Quiet, DaemonUp, NoSpawn, NoTeardown, NoPass
    <2>3. x \notin waived' => SbPaneInv(x)'
        <3> SUFFICES ASSUME x \notin waived' PROVE SbPaneInv(x)'
            OBVIOUS
        <3>1. SpawnAt(x) /\ KeptAt(x) /\ \A s \in Sweepers : DownsAt(x, s)
            BY <1>i, <1>4 DEF PreRunRemove, WithoutContainer, Works, Errs, SbPaneInv
        <3>2. SpawnAt(x)'
            BY <1>t, <1>4, <3>1 DEF PreRunRemove, WithoutContainer, Works, Errs, SbTypeOK,
               SbDisk, SpawnSteps, DownSteps, Sweepers, SpawnAt, DownsAt
        <3>3. KeptAt(x)'
            BY <1>t, <1>4, <3>1 DEF PreRunRemove, WithoutContainer, Works, Errs, SbTypeOK,
               SbDisk, SpawnSteps, DownSteps, Sweepers, SpawnAt, KeptAt, DownsAt, Harvested
        <3>4. \A s \in Sweepers : DownsAt(x, s)'
            BY <1>t, <1>4, <3>1 DEF PreRunRemove, WithoutContainer, Works, Errs, SbTypeOK,
               SbDisk, SpawnSteps, DownSteps, Sweepers, IdsKnown, SpawnAt, KeptAt, DownsAt,
               Harvested
        <3> QED
            BY <3>2, <3>3, <3>4 DEF SbPaneInv
    <2>4. \A y \in SbPanes \ {x} : Untouched(y)
        BY <1>t, <1>4 DEF PreRunRemove, WithoutContainer, Works, Errs, SbTypeOK, SbDisk, SbKeep, SpawnSteps,
           DownSteps, Sweepers, Untouched
    <2> QED
        BY <2>1, <2>2, <2>3, <2>4, <1>f
<1>5. ASSUME NEW x \in SbPanes, RunArgs(x) PROVE SbInv'
    <2>1. SbTypeOK'
        <3>1. disk' \in SbDisk
            BY <1>t, <1>5 DEF RunArgs, Sources, SbTypeOK, SbDisk, SbKeep, SpawnSteps, DownSteps, Sweepers
        <3>2. errors' \in Nat /\ written' \in Nat /\ due' \subseteq SbPanes \X Nat
            BY <1>t, <1>5 DEF RunArgs, Sources, SbTypeOK, SbDisk, SbKeep, SpawnSteps, DownSteps, Sweepers
        <3>3. downs' \in [SbPanes -> [Sweepers -> DownSteps]]
            BY <1>t, <1>5 DEF RunArgs, Sources, SbTypeOK, SbDisk, SbKeep, SpawnSteps, DownSteps, Sweepers
        <3> QED
            BY <1>t, <1>5, <3>1, <3>2, <3>3 DEF RunArgs, Sources, SbTypeOK, SbDisk, SbKeep, SpawnSteps,
               DownSteps, Sweepers
    <2>2. IdsKnown' /\ Quiet'
        BY <1>t, <1>5 DEF RunArgs, Sources, SbTypeOK, SbDisk, SbKeep, SpawnSteps, DownSteps, Sweepers,
           IdsKnown, Quiet, DaemonUp, NoSpawn, NoTeardown, NoPass
    <2>3. x \notin waived' => SbPaneInv(x)'
        <3> SUFFICES ASSUME x \notin waived' PROVE SbPaneInv(x)'
            OBVIOUS
        <3>1. SpawnAt(x) /\ KeptAt(x) /\ \A s \in Sweepers : DownsAt(x, s)
            BY <1>i, <1>5 DEF RunArgs, Sources, SbPaneInv
        <3>2. SpawnAt(x)'
            BY <1>t, <1>5, <3>1 DEF RunArgs, Sources, SbTypeOK, SbDisk, SbKeep, SpawnSteps, DownSteps,
               Sweepers, SpawnAt, DownsAt
        <3>3. KeptAt(x)'
            BY <1>t, <1>5, <3>1 DEF RunArgs, Sources, SbTypeOK, SbDisk, SbKeep, SpawnSteps, DownSteps,
               Sweepers, SpawnAt, KeptAt, DownsAt, Harvested
        <3>4. \A s \in Sweepers : DownsAt(x, s)'
            BY <1>t, <1>5, <3>1 DEF RunArgs, Sources, SbTypeOK, SbDisk, SbKeep, SpawnSteps, DownSteps,
               Sweepers, IdsKnown, SpawnAt, KeptAt, DownsAt, Harvested
        <3> QED
            BY <3>2, <3>3, <3>4 DEF SbPaneInv
    <2>4. \A y \in SbPanes \ {x} : Untouched(y)
        BY <1>t, <1>5 DEF RunArgs, Sources, SbTypeOK, SbDisk, SbKeep, SpawnSteps, DownSteps, Sweepers, Untouched
    <2> QED
        BY <2>1, <2>2, <2>3, <2>4, <1>f
<1>6. ASSUME NEW x \in SbPanes, AgentCommits(x) PROVE SbInv'
    <2>0. /\ container[x] = "up" /\ written' = written + 1
          /\ DiskNow(disk.reg, disk.alt, disk.dirs, [disk.store EXCEPT ![x] = IF x \in disk.dirs THEN disk.store[x] \cup {written + 1} ELSE disk.store[x]], disk.repo, disk.wts)
          /\ due' = IF DaemonUp /\ x \in boxes THEN due \cup {<<x, written + 1>>} ELSE due
          /\ UNCHANGED <<container, boxes, preps, downs, keep, entries, created, waived, sbBoots, errors>>
        <3>1. /\ container[x] = "up" /\ written' = written + 1
              /\ disk' = [disk EXCEPT !.store[x] = IF x \in disk.dirs THEN @ \cup {written + 1} ELSE @]
              /\ due' = IF DaemonUp /\ x \in boxes THEN due \cup {<<x, written + 1>>} ELSE due
              /\ UNCHANGED <<container, boxes, preps, downs, keep, entries, created, waived, sbBoots, errors>>
            BY <1>t, <1>6 DEF AgentCommits, SbTypeOK, SpawnSteps, DownSteps, Sweepers
        <3> QED
            BY <1>t, <3>1, DiskUpdates DEF SbTypeOK
    <2>1. SbTypeOK'
        <3>1. disk' \in SbDisk
            BY <1>t, <2>0 DEF DiskSame, DiskNow, SbTypeOK, SbDisk, SbKeep, SpawnSteps, DownSteps, Sweepers
        <3>2. errors' \in Nat /\ written' \in Nat /\ due' \subseteq SbPanes \X Nat
            BY <1>t, <2>0 DEF DiskSame, DiskNow, SbTypeOK, SbDisk, SbKeep, SpawnSteps, DownSteps, Sweepers
        <3>3. downs' \in [SbPanes -> [Sweepers -> DownSteps]]
            BY <1>t, <2>0 DEF DiskSame, DiskNow, SbTypeOK, SbDisk, SbKeep, SpawnSteps, DownSteps, Sweepers
        <3> QED
            BY <1>t, <2>0, <3>1, <3>2, <3>3 DEF DiskSame, DiskNow, SbTypeOK, SbDisk, SbKeep, SpawnSteps, DownSteps, Sweepers
    <2>2. IdsKnown' /\ Quiet'
        BY <1>t, <2>0 DEF DiskSame, DiskNow, SbTypeOK, SbDisk, SbKeep, SpawnSteps, DownSteps, Sweepers, IdsKnown,
           Quiet, DaemonUp, NoSpawn, NoTeardown, NoPass
    <2>3. x \notin waived' => SbPaneInv(x)'
        <3> SUFFICES ASSUME x \notin waived' PROVE SbPaneInv(x)'
            OBVIOUS
        <3>1. SpawnAt(x) /\ KeptAt(x) /\ \A s \in Sweepers : DownsAt(x, s)
            BY <1>i, <1>6 DEF AgentCommits, SbPaneInv
        <3>2. SpawnAt(x)'
            BY <1>t, <2>0, <3>1 DEF DiskSame, DiskNow, SbTypeOK, SbDisk, SbKeep, SpawnSteps, DownSteps, Sweepers,
               SpawnAt, DownsAt
        <3>3. KeptAt(x)'
            BY <1>t, <2>0, <3>1 DEF DiskSame, DiskNow, SbTypeOK, SbDisk, SbKeep, SpawnSteps, DownSteps, Sweepers,
               SpawnAt, KeptAt, DownsAt, Harvested
        <3>4. \A s \in Sweepers : DownsAt(x, s)'
            BY <1>t, <2>0, <3>1 DEF DiskSame, DiskNow, SbTypeOK, SbDisk, SbKeep, SpawnSteps, DownSteps, Sweepers,
               IdsKnown, SpawnAt, KeptAt, DownsAt, Harvested
        <3> QED
            BY <3>2, <3>3, <3>4 DEF SbPaneInv
    <2>4. \A y \in SbPanes \ {x} : Untouched(y)
        BY <1>t, <2>0 DEF DiskSame, DiskNow, SbTypeOK, SbDisk, SbKeep, SpawnSteps, DownSteps, Sweepers, Untouched
    <2> QED
        BY <2>1, <2>2, <2>3, <2>4, <1>f
<1>7. ASSUME NEW x \in SbPanes, AgentExits(x) PROVE SbInv'
    <2>1. SbTypeOK'
        <3>1. disk' \in SbDisk
            BY <1>t, <1>7 DEF AgentExits, SbTypeOK, SbDisk, SbKeep, SpawnSteps, DownSteps, Sweepers
        <3>2. errors' \in Nat /\ written' \in Nat /\ due' \subseteq SbPanes \X Nat
            BY <1>t, <1>7 DEF AgentExits, SbTypeOK, SbDisk, SbKeep, SpawnSteps, DownSteps, Sweepers
        <3>3. downs' \in [SbPanes -> [Sweepers -> DownSteps]]
            BY <1>t, <1>7 DEF AgentExits, SbTypeOK, SbDisk, SbKeep, SpawnSteps, DownSteps, Sweepers
        <3> QED
            BY <1>t, <1>7, <3>1, <3>2, <3>3 DEF AgentExits, SbTypeOK, SbDisk, SbKeep, SpawnSteps,
               DownSteps, Sweepers
    <2>2. IdsKnown' /\ Quiet'
        BY <1>t, <1>7 DEF AgentExits, SbTypeOK, SbDisk, SbKeep, SpawnSteps, DownSteps, Sweepers, IdsKnown,
           Quiet, DaemonUp, NoSpawn, NoTeardown, NoPass
    <2>3. x \notin waived' => SbPaneInv(x)'
        <3> SUFFICES ASSUME x \notin waived' PROVE SbPaneInv(x)'
            OBVIOUS
        <3>1. SpawnAt(x) /\ KeptAt(x) /\ \A s \in Sweepers : DownsAt(x, s)
            BY <1>i, <1>7 DEF AgentExits, SbPaneInv
        <3>2. SpawnAt(x)'
            BY <1>t, <1>7, <3>1 DEF AgentExits, SbTypeOK, SbDisk, SbKeep, SpawnSteps, DownSteps,
               Sweepers, SpawnAt, DownsAt
        <3>3. KeptAt(x)'
            BY <1>t, <1>7, <3>1 DEF AgentExits, SbTypeOK, SbDisk, SbKeep, SpawnSteps, DownSteps,
               Sweepers, SpawnAt, KeptAt, DownsAt, Harvested
        <3>4. \A s \in Sweepers : DownsAt(x, s)'
            BY <1>t, <1>7, <3>1 DEF AgentExits, SbTypeOK, SbDisk, SbKeep, SpawnSteps, DownSteps,
               Sweepers, IdsKnown, SpawnAt, KeptAt, DownsAt, Harvested
        <3> QED
            BY <3>2, <3>3, <3>4 DEF SbPaneInv
    <2>4. \A y \in SbPanes \ {x} : Untouched(y)
        BY <1>t, <1>7 DEF AgentExits, SbTypeOK, SbDisk, SbKeep, SpawnSteps, DownSteps, Sweepers, Untouched
    <2> QED
        BY <2>1, <2>2, <2>3, <2>4, <1>f
<1>8. ASSUME NEW x \in SbPanes, harvestLoop(x) PROVE SbInv'
    <2>1. SbTypeOK'
        <3>1. disk' \in SbDisk
            BY <1>t, <1>8 DEF harvestLoop, harvestSandbox, HarvestObjects, CopyOnce, SbTypeOK,
               SbDisk, SpawnSteps, DownSteps, Sweepers
        <3>2. errors' \in Nat /\ written' \in Nat /\ due' \subseteq SbPanes \X Nat
            BY <1>t, <1>8 DEF harvestLoop, harvestSandbox, HarvestObjects, CopyOnce, SbTypeOK,
               SbDisk, SpawnSteps, DownSteps, Sweepers
        <3>3. downs' \in [SbPanes -> [Sweepers -> DownSteps]]
            BY <1>t, <1>8 DEF harvestLoop, harvestSandbox, HarvestObjects, CopyOnce, SbTypeOK,
               SbDisk, SpawnSteps, DownSteps, Sweepers
        <3> QED
            BY <1>t, <1>8, <3>1, <3>2, <3>3 DEF harvestLoop, harvestSandbox, HarvestObjects,
               CopyOnce, SbTypeOK, SbDisk, SbKeep, SpawnSteps, DownSteps, Sweepers
    <2>2. IdsKnown' /\ Quiet'
        BY <1>t, <1>8 DEF harvestLoop, harvestSandbox, HarvestObjects, CopyOnce, SbTypeOK, SbDisk, SbKeep,
           SpawnSteps, DownSteps, Sweepers, IdsKnown, Quiet, DaemonUp, NoSpawn, NoTeardown, NoPass
    <2>3. x \notin waived' => SbPaneInv(x)'
        <3> SUFFICES ASSUME x \notin waived' PROVE SbPaneInv(x)'
            OBVIOUS
        <3>1. SpawnAt(x) /\ KeptAt(x) /\ \A s \in Sweepers : DownsAt(x, s)
            BY <1>i, <1>8 DEF harvestLoop, harvestSandbox, HarvestObjects, CopyOnce, SbPaneInv
        <3>2. SpawnAt(x)'
            BY <1>t, <1>8, <3>1 DEF harvestLoop, harvestSandbox, HarvestObjects, CopyOnce,
               SbTypeOK, SbDisk, SbKeep, SpawnSteps, DownSteps, Sweepers, SpawnAt, DownsAt
        <3>3. KeptAt(x)'
            BY <1>t, <1>8, <3>1 DEF harvestLoop, harvestSandbox, HarvestObjects, CopyOnce,
               SbTypeOK, SbDisk, SbKeep, SpawnSteps, DownSteps, Sweepers, SpawnAt, KeptAt, DownsAt,
               Harvested
        <3>4. \A s \in Sweepers : DownsAt(x, s)'
            BY <1>t, <1>8, <3>1 DEF harvestLoop, harvestSandbox, HarvestObjects, CopyOnce,
               SbTypeOK, SbDisk, SbKeep, SpawnSteps, DownSteps, Sweepers, IdsKnown, SpawnAt, KeptAt,
               DownsAt, Harvested
        <3> QED
            BY <3>2, <3>3, <3>4 DEF SbPaneInv
    <2>4. \A y \in SbPanes \ {x} : Untouched(y)
        BY <1>t, <1>8 DEF harvestLoop, harvestSandbox, HarvestObjects, CopyOnce, SbTypeOK, SbDisk, SbKeep,
           SpawnSteps, DownSteps, Sweepers, Untouched
    <2> QED
        BY <2>1, <2>2, <2>3, <2>4, <1>f
<1>9. ASSUME NEW x \in SbPanes, closePane(x) PROVE SbInv'
    <2>1. SbTypeOK'
        <3>1. disk' \in SbDisk
            BY <1>t, <1>9 DEF closePane, SbTypeOK, SbDisk, SbKeep, SpawnSteps, DownSteps, Sweepers
        <3>2. errors' \in Nat /\ written' \in Nat /\ due' \subseteq SbPanes \X Nat
            BY <1>t, <1>9 DEF closePane, SbTypeOK, SbDisk, SbKeep, SpawnSteps, DownSteps, Sweepers
        <3>3. downs' \in [SbPanes -> [Sweepers -> DownSteps]]
            BY <1>t, <1>9 DEF closePane, SbTypeOK, SbDisk, SbKeep, SpawnSteps, DownSteps, Sweepers
        <3> QED
            BY <1>t, <1>9, <3>1, <3>2, <3>3 DEF closePane, SbTypeOK, SbDisk, SbKeep, SpawnSteps, DownSteps, Sweepers
    <2>2. IdsKnown' /\ Quiet'
        BY <1>t, <1>9 DEF closePane, SbTypeOK, SbDisk, SbKeep, SpawnSteps, DownSteps, Sweepers, IdsKnown,
           Quiet, DaemonUp, NoSpawn, NoTeardown, NoPass
    <2>3. x \notin waived' => SbPaneInv(x)'
        <3> SUFFICES ASSUME x \notin waived' PROVE SbPaneInv(x)'
            OBVIOUS
        <3>1. SpawnAt(x) /\ KeptAt(x) /\ \A s \in Sweepers : DownsAt(x, s)
            BY <1>i, <1>9 DEF closePane, SbPaneInv
        <3>2. SpawnAt(x)'
            BY <1>t, <1>9, <3>1 DEF closePane, SbTypeOK, SbDisk, SbKeep, SpawnSteps, DownSteps,
               Sweepers, SpawnAt, DownsAt
        <3>3. KeptAt(x)'
            BY <1>t, <1>9, <3>1 DEF closePane, SbTypeOK, SbDisk, SbKeep, SpawnSteps, DownSteps,
               Sweepers, SpawnAt, KeptAt, DownsAt, Harvested
        <3>4. \A s \in Sweepers : DownsAt(x, s)'
            BY <1>t, <1>9, <3>1 DEF closePane, SbTypeOK, SbDisk, SbKeep, SpawnSteps, DownSteps,
               Sweepers, IdsKnown, SpawnAt, KeptAt, DownsAt, Harvested
        <3> QED
            BY <3>2, <3>3, <3>4 DEF SbPaneInv
    <2>4. \A y \in SbPanes \ {x} : Untouched(y)
        BY <1>t, <1>9 DEF closePane, SbTypeOK, SbDisk, SbKeep, SpawnSteps, DownSteps, Sweepers, Untouched
    <2> QED
        BY <2>1, <2>2, <2>3, <2>4, <1>f
<1>10. ASSUME NEW x \in SbPanes, NEW b \in Sweepers, sandboxMappingFor(x, b) PROVE SbInv'
    <2>1. SbTypeOK'
        <3>1. disk' \in SbDisk
            BY <1>t, <1>10 DEF sandboxMappingFor, DownAt, SbTypeOK, SbDisk, SbKeep, SpawnSteps, DownSteps, Sweepers
        <3>2. errors' \in Nat /\ written' \in Nat /\ due' \subseteq SbPanes \X Nat
            BY <1>t, <1>10 DEF sandboxMappingFor, DownAt, SbTypeOK, SbDisk, SbKeep, SpawnSteps, DownSteps, Sweepers
        <3>3. downs' \in [SbPanes -> [Sweepers -> DownSteps]]
            BY <1>t, <1>10 DEF sandboxMappingFor, DownAt, SbTypeOK, SbDisk, SbKeep, SpawnSteps, DownSteps, Sweepers
        <3> QED
            BY <1>t, <1>10, <3>1, <3>2, <3>3 DEF sandboxMappingFor, DownAt, SbTypeOK, SbDisk, SbKeep,
               SpawnSteps, DownSteps, Sweepers
    <2>2. IdsKnown' /\ Quiet'
        BY <1>t, <1>10 DEF sandboxMappingFor, DownAt, SbTypeOK, SbDisk, SbKeep, SpawnSteps, DownSteps,
           Sweepers, IdsKnown, Quiet, DaemonUp, NoSpawn, NoTeardown, NoPass
    <2>3. x \notin waived' => SbPaneInv(x)'
        <3> SUFFICES ASSUME x \notin waived' PROVE SbPaneInv(x)'
            OBVIOUS
        <3>1. SpawnAt(x) /\ KeptAt(x) /\ \A s \in Sweepers : DownsAt(x, s)
            BY <1>i, <1>10 DEF sandboxMappingFor, DownAt, SbPaneInv
        <3>2. SpawnAt(x)'
            BY <1>t, <1>10, <3>1 DEF sandboxMappingFor, DownAt, SbTypeOK, SbDisk, SbKeep, SpawnSteps,
               DownSteps, Sweepers, SpawnAt, DownsAt
        <3>3. KeptAt(x)'
            BY <1>t, <1>10, <3>1 DEF sandboxMappingFor, DownAt, SbTypeOK, SbDisk, SbKeep, SpawnSteps,
               DownSteps, Sweepers, SpawnAt, KeptAt, DownsAt, Harvested
        <3>4. \A s \in Sweepers : DownsAt(x, s)'
            BY <1>t, <1>10, <3>1 DEF sandboxMappingFor, DownAt, SbTypeOK, SbDisk, SbKeep, SpawnSteps,
               DownSteps, Sweepers, IdsKnown, SpawnAt, KeptAt, DownsAt, Harvested
        <3> QED
            BY <3>2, <3>3, <3>4 DEF SbPaneInv
    <2>4. \A y \in SbPanes \ {x} : Untouched(y)
        BY <1>t, <1>10 DEF sandboxMappingFor, DownAt, SbTypeOK, SbDisk, SbKeep, SpawnSteps, DownSteps,
           Sweepers, Untouched
    <2> QED
        BY <2>1, <2>2, <2>3, <2>4, <1>f
<1>11. ASSUME NEW x \in SbPanes, NEW b \in Sweepers, RemoveUnrecorded(x, b) PROVE SbInv'
    <2>1. SbTypeOK'
        <3>1. disk' \in SbDisk
            BY <1>t, <1>11 DEF RemoveUnrecorded, DownAt, WithoutContainer, Works, Errs,
               SbTypeOK, SbDisk, SbKeep, SpawnSteps, DownSteps, Sweepers
        <3>2. errors' \in Nat /\ written' \in Nat /\ due' \subseteq SbPanes \X Nat
            BY <1>t, <1>11 DEF RemoveUnrecorded, DownAt, WithoutContainer, Works, Errs,
               SbTypeOK, SbDisk, SbKeep, SpawnSteps, DownSteps, Sweepers
        <3>3. downs' \in [SbPanes -> [Sweepers -> DownSteps]]
            BY <1>t, <1>11 DEF RemoveUnrecorded, DownAt, WithoutContainer, Works, Errs,
               SbTypeOK, SbDisk, SbKeep, SpawnSteps, DownSteps, Sweepers
        <3> QED
            BY <1>t, <1>11, <3>1, <3>2, <3>3 DEF RemoveUnrecorded, DownAt, WithoutContainer,
               Works, Errs, SbTypeOK, SbDisk, SbKeep, SpawnSteps, DownSteps, Sweepers
    <2>2. IdsKnown' /\ Quiet'
        BY <1>t, <1>11 DEF RemoveUnrecorded, DownAt, WithoutContainer, Works, Errs, SbTypeOK,
           SbDisk, SpawnSteps, DownSteps, Sweepers, IdsKnown, Quiet, DaemonUp, NoSpawn, NoTeardown,
           NoPass
    <2>3. x \notin waived' => SbPaneInv(x)'
        <3> SUFFICES ASSUME x \notin waived' PROVE SbPaneInv(x)'
            OBVIOUS
        <3>1. SpawnAt(x) /\ KeptAt(x) /\ \A s \in Sweepers : DownsAt(x, s)
            BY <1>i, <1>11 DEF RemoveUnrecorded, DownAt, WithoutContainer, Works, Errs, SbPaneInv
        <3>2. SpawnAt(x)'
            BY <1>t, <1>11, <3>1 DEF RemoveUnrecorded, DownAt, WithoutContainer, Works, Errs,
               SbTypeOK, SbDisk, SbKeep, SpawnSteps, DownSteps, Sweepers, SpawnAt, DownsAt
        <3>3. KeptAt(x)'
            BY <1>t, <1>11, <3>1 DEF RemoveUnrecorded, DownAt, WithoutContainer, Works, Errs,
               SbTypeOK, SbDisk, SbKeep, SpawnSteps, DownSteps, Sweepers, SpawnAt, KeptAt, DownsAt,
               Harvested
        <3>4. \A s \in Sweepers : DownsAt(x, s)'
            BY <1>t, <1>11, <3>1 DEF RemoveUnrecorded, DownAt, WithoutContainer, Works, Errs,
               SbTypeOK, SbDisk, SbKeep, SpawnSteps, DownSteps, Sweepers, IdsKnown, SpawnAt, KeptAt,
               DownsAt, Harvested
        <3> QED
            BY <3>2, <3>3, <3>4 DEF SbPaneInv
    <2>4. \A y \in SbPanes \ {x} : Untouched(y)
        BY <1>t, <1>11 DEF RemoveUnrecorded, DownAt, WithoutContainer, Works, Errs, SbTypeOK,
           SbDisk, SpawnSteps, DownSteps, Sweepers, Untouched
    <2> QED
        BY <2>1, <2>2, <2>3, <2>4, <1>f
<1>12. ASSUME NEW x \in SbPanes, NEW b \in Sweepers, FinalHarvest(x, b) PROVE SbInv'
    <2>0. /\ downs[x][b] = "harvest" /\ downs' = [downs EXCEPT ![x][b] = "remove"]
          /\ UNCHANGED <<container, boxes, preps, keep, entries, created, written, due, sbBoots>>
          /\ \/ /\ DiskNow(disk.reg, disk.alt, disk.dirs, disk.store, disk.repo \cup disk.store[x], disk.wts)
                /\ waived' = waived /\ errors' = errors
             \/ DiskSame /\ waived' = waived \cup {x} /\ errors' = errors + 1
        <3>1. /\ downs[x][b] = "harvest" /\ downs' = [downs EXCEPT ![x][b] = "remove"]
              /\ UNCHANGED <<container, boxes, preps, keep, entries, created, written, due, sbBoots>>
              /\ \/ /\ disk' = HarvestObjects(disk, x)
                    /\ waived' = waived /\ errors' = errors
                 \/ disk' = disk /\ waived' = waived \cup {x} /\ errors' = errors + 1
            BY <1>t, <1>12 DEF FinalHarvest, DownStep, DownAt, DownNext, Works, Errs, SbTypeOK,
               SpawnSteps, DownSteps, Sweepers
        <3> QED
            BY <1>t, <3>1, DiskUpdates DEF SbTypeOK
    <2>1. SbTypeOK'
        <3>1. disk' \in SbDisk
            BY <1>t, <2>0 DEF DiskSame, DiskNow, SbTypeOK, SbDisk, SbKeep, SpawnSteps, DownSteps, Sweepers
        <3>2. errors' \in Nat /\ written' \in Nat /\ due' \subseteq SbPanes \X Nat
            BY <1>t, <2>0 DEF DiskSame, DiskNow, SbTypeOK, SbDisk, SbKeep, SpawnSteps, DownSteps, Sweepers
        <3>3. downs' \in [SbPanes -> [Sweepers -> DownSteps]]
            BY <1>t, <2>0 DEF DiskSame, DiskNow, SbTypeOK, SbDisk, SbKeep, SpawnSteps, DownSteps, Sweepers
        <3> QED
            BY <1>t, <2>0, <3>1, <3>2, <3>3 DEF DiskSame, DiskNow, SbTypeOK, SbDisk, SbKeep, SpawnSteps, DownSteps, Sweepers
    <2>2. IdsKnown' /\ Quiet'
        BY <1>t, <2>0 DEF DiskSame, DiskNow, SbTypeOK, SbDisk, SbKeep, SpawnSteps, DownSteps, Sweepers, IdsKnown,
           Quiet, DaemonUp, NoSpawn, NoTeardown, NoPass
    <2>3. x \notin waived' => SbPaneInv(x)'
        <3> SUFFICES ASSUME x \notin waived' PROVE SbPaneInv(x)'
            OBVIOUS
        <3>1. SpawnAt(x) /\ KeptAt(x) /\ \A s \in Sweepers : DownsAt(x, s)
            BY <1>i, <1>12 DEF FinalHarvest, DownStep, DownAt, DownNext, HarvestObjects,
               CopyOnce, Works, Errs, SbPaneInv
        <3>2. SpawnAt(x)'
            BY <1>t, <2>0, <3>1 DEF DiskSame, DiskNow, SbTypeOK, SbDisk, SbKeep, SpawnSteps, DownSteps, Sweepers,
               SpawnAt, DownsAt
        <3>3. KeptAt(x)'
            BY <1>t, <2>0, <3>1 DEF DiskSame, DiskNow, SbTypeOK, SbDisk, SbKeep, SpawnSteps, DownSteps, Sweepers,
               SpawnAt, KeptAt, DownsAt, Harvested
        <3>4. \A s \in Sweepers : DownsAt(x, s)'
            BY <1>t, <2>0, <3>1 DEF DiskSame, DiskNow, SbTypeOK, SbDisk, SbKeep, SpawnSteps, DownSteps, Sweepers,
               IdsKnown, SpawnAt, KeptAt, DownsAt, Harvested
        <3> QED
            BY <3>2, <3>3, <3>4 DEF SbPaneInv
    <2>4. \A y \in SbPanes \ {x} : Untouched(y)
        BY <1>t, <2>0 DEF DiskSame, DiskNow, SbTypeOK, SbDisk, SbKeep, SpawnSteps, DownSteps, Sweepers, Untouched
    <2> QED
        BY <2>1, <2>2, <2>3, <2>4, <1>f
<1>13. ASSUME NEW x \in SbPanes, NEW b \in Sweepers, RemoveContainer(x, b) PROVE SbInv'
    <2>0. /\ downs[x][b] = "remove"
          /\ UNCHANGED <<disk, boxes, preps, keep, entries, created, written, due, waived, sbBoots>>
          /\ \/ /\ container' = [container EXCEPT ![x] = "none"] /\ errors' = errors
                /\ downs' = [downs EXCEPT ![x][b] = "line"]
             \/ container' = container /\ errors' = errors + 1 /\ downs' = [downs EXCEPT ![x][b] = "held"]
        <3>1. /\ downs[x][b] = "remove"
              /\ UNCHANGED <<disk, boxes, preps, keep, entries, created, written, due, waived, sbBoots>>
              /\ \/ /\ container' = [container EXCEPT ![x] = "none"] /\ errors' = errors
                    /\ downs' = [downs EXCEPT ![x][b] = "line"]
                 \/ container' = container /\ errors' = errors + 1 /\ downs' = [downs EXCEPT ![x][b] = "held"]
            BY <1>t, <1>13 DEF RemoveContainer, DownStep, DownAt, DownNext, WithoutContainer,
               Works, Errs, SbTypeOK, SpawnSteps, DownSteps, Sweepers
        <3> QED
            BY <1>t, <3>1, DiskUpdates DEF SbTypeOK
    <2>1. SbTypeOK'
        <3>1. disk' \in SbDisk
            BY <1>t, <2>0 DEF DiskSame, DiskNow, SbTypeOK, SbDisk, SbKeep, SpawnSteps, DownSteps, Sweepers
        <3>2. errors' \in Nat /\ written' \in Nat /\ due' \subseteq SbPanes \X Nat
            BY <1>t, <2>0 DEF DiskSame, DiskNow, SbTypeOK, SbDisk, SbKeep, SpawnSteps, DownSteps, Sweepers
        <3>3. downs' \in [SbPanes -> [Sweepers -> DownSteps]]
            BY <1>t, <2>0 DEF DiskSame, DiskNow, SbTypeOK, SbDisk, SbKeep, SpawnSteps, DownSteps, Sweepers
        <3> QED
            BY <1>t, <2>0, <3>1, <3>2, <3>3 DEF DiskSame, DiskNow, SbTypeOK, SbDisk, SbKeep, SpawnSteps, DownSteps, Sweepers
    <2>2. IdsKnown' /\ Quiet'
        BY <1>t, <2>0 DEF DiskSame, DiskNow, SbTypeOK, SbDisk, SbKeep, SpawnSteps, DownSteps, Sweepers, IdsKnown,
           Quiet, DaemonUp, NoSpawn, NoTeardown, NoPass
    <2>3. x \notin waived' => SbPaneInv(x)'
        <3> SUFFICES ASSUME x \notin waived' PROVE SbPaneInv(x)'
            OBVIOUS
        <3>1. SpawnAt(x) /\ KeptAt(x) /\ \A s \in Sweepers : DownsAt(x, s)
            BY <1>i, <1>13 DEF RemoveContainer, DownStep, DownAt, DownNext, WithoutContainer,
               Works, Errs, SbPaneInv
        <3>2. SpawnAt(x)'
            BY <1>t, <2>0, <3>1 DEF DiskSame, DiskNow, SbTypeOK, SbDisk, SbKeep, SpawnSteps, DownSteps, Sweepers,
               SpawnAt, DownsAt
        <3>3. KeptAt(x)'
            BY <1>t, <2>0, <3>1 DEF DiskSame, DiskNow, SbTypeOK, SbDisk, SbKeep, SpawnSteps, DownSteps, Sweepers,
               SpawnAt, KeptAt, DownsAt, Harvested
        <3>4. \A s \in Sweepers : DownsAt(x, s)'
            BY <1>t, <2>0, <3>1 DEF DiskSame, DiskNow, SbTypeOK, SbDisk, SbKeep, SpawnSteps, DownSteps, Sweepers,
               IdsKnown, SpawnAt, KeptAt, DownsAt, Harvested
        <3> QED
            BY <3>2, <3>3, <3>4 DEF SbPaneInv
    <2>4. \A y \in SbPanes \ {x} : Untouched(y)
        BY <1>t, <2>0 DEF DiskSame, DiskNow, SbTypeOK, SbDisk, SbKeep, SpawnSteps, DownSteps, Sweepers, Untouched
    <2> QED
        BY <2>1, <2>2, <2>3, <2>4, <1>f
<1>14. ASSUME NEW x \in SbPanes, NEW b \in Sweepers, RemoveAlternate(x, b) PROVE SbInv'
    <2>0. /\ downs[x][b] = "line" /\ downs' = [downs EXCEPT ![x][b] = "dirs"]
          /\ UNCHANGED <<container, boxes, preps, keep, entries, created, written, due, sbBoots>>
          /\ \/ /\ DiskNow(disk.reg, disk.alt \ {x}, disk.dirs, disk.store, disk.repo, disk.wts)
                /\ waived' = waived /\ errors' = errors
             \/ DiskSame /\ waived' = waived \cup {x} /\ errors' = errors + 1
        <3>1. /\ downs[x][b] = "line" /\ downs' = [downs EXCEPT ![x][b] = "dirs"]
              /\ UNCHANGED <<container, boxes, preps, keep, entries, created, written, due, sbBoots>>
              /\ \/ /\ disk' = RemoveLine(disk, x)
                    /\ waived' = waived /\ errors' = errors
                 \/ disk' = disk /\ waived' = waived \cup {x} /\ errors' = errors + 1
            BY <1>t, <1>14 DEF RemoveAlternate, DownStep, DownAt, DownNext, Works, Errs,
               SbTypeOK, SpawnSteps, DownSteps, Sweepers
        <3> QED
            BY <1>t, <3>1, DiskUpdates DEF SbTypeOK
    <2>1. SbTypeOK'
        <3>1. disk' \in SbDisk
            BY <1>t, <2>0 DEF DiskSame, DiskNow, SbTypeOK, SbDisk, SbKeep, SpawnSteps, DownSteps, Sweepers
        <3>2. errors' \in Nat /\ written' \in Nat /\ due' \subseteq SbPanes \X Nat
            BY <1>t, <2>0 DEF DiskSame, DiskNow, SbTypeOK, SbDisk, SbKeep, SpawnSteps, DownSteps, Sweepers
        <3>3. downs' \in [SbPanes -> [Sweepers -> DownSteps]]
            BY <1>t, <2>0 DEF DiskSame, DiskNow, SbTypeOK, SbDisk, SbKeep, SpawnSteps, DownSteps, Sweepers
        <3> QED
            BY <1>t, <2>0, <3>1, <3>2, <3>3 DEF DiskSame, DiskNow, SbTypeOK, SbDisk, SbKeep, SpawnSteps, DownSteps, Sweepers
    <2>2. IdsKnown' /\ Quiet'
        BY <1>t, <2>0 DEF DiskSame, DiskNow, SbTypeOK, SbDisk, SbKeep, SpawnSteps, DownSteps, Sweepers, IdsKnown,
           Quiet, DaemonUp, NoSpawn, NoTeardown, NoPass
    <2>3. x \notin waived' => SbPaneInv(x)'
        <3> SUFFICES ASSUME x \notin waived' PROVE SbPaneInv(x)'
            OBVIOUS
        <3>1. SpawnAt(x) /\ KeptAt(x) /\ \A s \in Sweepers : DownsAt(x, s)
            BY <1>i, <1>14 DEF RemoveAlternate, DownStep, DownAt, DownNext, RemoveLine, Works,
               Errs, SbPaneInv
        <3>2. SpawnAt(x)'
            BY <1>t, <2>0, <3>1 DEF DiskSame, DiskNow, SbTypeOK, SbDisk, SbKeep, SpawnSteps, DownSteps, Sweepers,
               SpawnAt, DownsAt
        <3>3. KeptAt(x)'
            BY <1>t, <2>0, <3>1 DEF DiskSame, DiskNow, SbTypeOK, SbDisk, SbKeep, SpawnSteps, DownSteps, Sweepers,
               SpawnAt, KeptAt, DownsAt, Harvested
        <3>4. \A s \in Sweepers : DownsAt(x, s)'
            BY <1>t, <2>0, <3>1 DEF DiskSame, DiskNow, SbTypeOK, SbDisk, SbKeep, SpawnSteps, DownSteps, Sweepers,
               IdsKnown, SpawnAt, KeptAt, DownsAt, Harvested
        <3> QED
            BY <3>2, <3>3, <3>4 DEF SbPaneInv
    <2>4. \A y \in SbPanes \ {x} : Untouched(y)
        BY <1>t, <2>0 DEF DiskSame, DiskNow, SbTypeOK, SbDisk, SbKeep, SpawnSteps, DownSteps, Sweepers, Untouched
    <2> QED
        BY <2>1, <2>2, <2>3, <2>4, <1>f
<1>15. ASSUME NEW x \in SbPanes, NEW b \in Sweepers, RemoveTree(x, b) PROVE SbInv'
    <2>0. /\ UNCHANGED <<container, boxes, preps, keep, created, written, due, waived, sbBoots>>
          /\ \/ /\ downs[x][b] = "dirs" /\ downs' = [downs EXCEPT ![x][b] = "drop"] /\ entries' = entries
                /\ \/ DiskNow(disk.reg, disk.alt, disk.dirs \ {x}, [disk.store EXCEPT ![x] = {}], disk.repo, disk.wts) /\ errors' = errors
                   \/ DiskSame /\ errors' = errors + 1
             \/ /\ downs[x][b] = "drop" /\ downs' = [downs EXCEPT ![x][b] = "end"]
                /\ entries' = entries \ {x}
                /\ \/ DiskNow(entries \ {x}, disk.alt, disk.dirs, disk.store, disk.repo, disk.wts) /\ errors' = errors
                   \/ DiskSame /\ errors' = errors + 1
        <3>1. /\ UNCHANGED <<container, boxes, preps, keep, created, written, due, waived, sbBoots>>
              /\ \/ /\ downs[x][b] = "dirs" /\ downs' = [downs EXCEPT ![x][b] = "drop"] /\ entries' = entries
                    /\ \/ disk' = WithoutTree(x) /\ errors' = errors
                       \/ disk' = disk /\ errors' = errors + 1
                 \/ /\ downs[x][b] = "drop" /\ downs' = [downs EXCEPT ![x][b] = "end"]
                    /\ entries' = entries \ {x}
                    /\ \/ disk' = [disk EXCEPT !.reg = entries \ {x}] /\ errors' = errors
                       \/ disk' = disk /\ errors' = errors + 1
            <4>1. CASE downs[x][b] = "dirs"
                BY <1>15, <4>1 DEF RemoveTree, DownStep, DownAt, DownNext, Works, Errs
            <4>2. CASE downs[x][b] = "drop"
                BY <1>15, <4>2 DEF RemoveTree, DownStep, DownAt, DownNext, drop, saveRegistry, Works, Errs
            <4> QED
                BY <1>15, <4>1, <4>2 DEF RemoveTree
        <3> QED
            BY <1>t, <3>1, DiskUpdates DEF SbTypeOK
    <2>1. SbTypeOK'
        <3>1. disk' \in SbDisk
            BY <1>t, <2>0 DEF DiskSame, DiskNow, SbTypeOK, SbDisk, SbKeep, SpawnSteps, DownSteps, Sweepers
        <3>2. errors' \in Nat /\ written' \in Nat /\ due' \subseteq SbPanes \X Nat
            BY <1>t, <2>0 DEF DiskSame, DiskNow, SbTypeOK, SbDisk, SbKeep, SpawnSteps, DownSteps, Sweepers
        <3>3. downs' \in [SbPanes -> [Sweepers -> DownSteps]]
            BY <1>t, <2>0 DEF DiskSame, DiskNow, SbTypeOK, SbDisk, SbKeep, SpawnSteps, DownSteps, Sweepers
        <3> QED
            BY <1>t, <2>0, <3>1, <3>2, <3>3 DEF DiskSame, DiskNow, SbTypeOK, SbDisk, SbKeep, SpawnSteps, DownSteps, Sweepers
    <2>2. IdsKnown' /\ Quiet'
        BY <1>t, <2>0 DEF DiskSame, DiskNow, SbTypeOK, SbDisk, SbKeep, SpawnSteps, DownSteps, Sweepers, IdsKnown,
           Quiet, DaemonUp, NoSpawn, NoTeardown, NoPass
    <2>3. x \notin waived' => SbPaneInv(x)'
        <3> SUFFICES ASSUME x \notin waived' PROVE SbPaneInv(x)'
            OBVIOUS
        <3>1. SpawnAt(x) /\ KeptAt(x) /\ \A s \in Sweepers : DownsAt(x, s)
            BY <1>i, <1>15 DEF RemoveTree, SbPaneInv
        <3>2. SpawnAt(x)'
            BY <1>t, <2>0, <3>1 DEF DiskSame, DiskNow, SbTypeOK, SbDisk, SbKeep, SpawnSteps, DownSteps, Sweepers,
               SpawnAt, DownsAt
        <3>3. KeptAt(x)'
            BY <1>t, <2>0, <3>1 DEF DiskSame, DiskNow, SbTypeOK, SbDisk, SbKeep, SpawnSteps, DownSteps, Sweepers,
               SpawnAt, KeptAt, DownsAt, Harvested
        <3>4. \A s \in Sweepers : DownsAt(x, s)'
            BY <1>t, <2>0, <3>1 DEF DiskSame, DiskNow, SbTypeOK, SbDisk, SbKeep, SpawnSteps, DownSteps, Sweepers,
               IdsKnown, SpawnAt, KeptAt, DownsAt, Harvested
        <3> QED
            BY <3>2, <3>3, <3>4 DEF SbPaneInv
    <2>4. \A y \in SbPanes \ {x} : Untouched(y)
        BY <1>t, <2>0 DEF DiskSame, DiskNow, SbTypeOK, SbDisk, SbKeep, SpawnSteps, DownSteps, Sweepers, Untouched
    <2> QED
        BY <2>1, <2>2, <2>3, <2>4, <1>f
<1>16. ASSUME NEW x \in SbPanes, NEW b \in Sweepers, AfterTeardown(x, b) PROVE SbInv'
    <2>0. /\ downs[x][b] \in {"end", "held"} /\ downs' = [downs EXCEPT ![x][b] = "no"]
          /\ UNCHANGED <<container, boxes, preps, keep, entries, created, written, due, waived, sbBoots, errors>>
          /\ \/ DiskSame
             \/ downs[x][b] = "end" /\ DiskNow(disk.reg, disk.alt, disk.dirs, disk.store, disk.repo, disk.wts \ {x})
        <3>1. /\ downs[x][b] \in {"end", "held"} /\ downs' = [downs EXCEPT ![x][b] = "no"]
              /\ UNCHANGED <<container, boxes, preps, keep, entries, created, written, due, waived, sbBoots, errors>>
              /\ \/ disk' = disk
                 \/ downs[x][b] = "end" /\ disk' = [disk EXCEPT !.wts = @ \ {x}]
            BY <1>t, <1>16 DEF AfterTeardown, DownAt, SbTypeOK, SpawnSteps, DownSteps, Sweepers
        <3> QED
            BY <1>t, <3>1, DiskUpdates DEF SbTypeOK
    <2>1. SbTypeOK'
        <3>1. disk' \in SbDisk
            BY <1>t, <2>0 DEF DiskSame, DiskNow, SbTypeOK, SbDisk, SbKeep, SpawnSteps, DownSteps, Sweepers
        <3>2. errors' \in Nat /\ written' \in Nat /\ due' \subseteq SbPanes \X Nat
            BY <1>t, <2>0 DEF DiskSame, DiskNow, SbTypeOK, SbDisk, SbKeep, SpawnSteps, DownSteps, Sweepers
        <3>3. downs' \in [SbPanes -> [Sweepers -> DownSteps]]
            BY <1>t, <2>0 DEF DiskSame, DiskNow, SbTypeOK, SbDisk, SbKeep, SpawnSteps, DownSteps, Sweepers
        <3> QED
            BY <1>t, <2>0, <3>1, <3>2, <3>3 DEF DiskSame, DiskNow, SbTypeOK, SbDisk, SbKeep, SpawnSteps, DownSteps, Sweepers
    <2>2. IdsKnown' /\ Quiet'
        BY <1>t, <2>0 DEF DiskSame, DiskNow, SbTypeOK, SbDisk, SbKeep, SpawnSteps, DownSteps, Sweepers, IdsKnown,
           Quiet, DaemonUp, NoSpawn, NoTeardown, NoPass
    <2>3. x \notin waived' => SbPaneInv(x)'
        <3> SUFFICES ASSUME x \notin waived' PROVE SbPaneInv(x)'
            OBVIOUS
        <3>1. SpawnAt(x) /\ KeptAt(x) /\ \A s \in Sweepers : DownsAt(x, s)
            BY <1>i, <1>16 DEF AfterTeardown, DownAt, SbPaneInv
        <3>2. SpawnAt(x)'
            BY <1>t, <2>0, <3>1 DEF DiskSame, DiskNow, SbTypeOK, SbDisk, SbKeep, SpawnSteps, DownSteps, Sweepers,
               SpawnAt, DownsAt
        <3>3. KeptAt(x)'
            BY <1>t, <2>0, <3>1 DEF DiskSame, DiskNow, SbTypeOK, SbDisk, SbKeep, SpawnSteps, DownSteps, Sweepers,
               SpawnAt, KeptAt, DownsAt, Harvested
        <3>4. \A s \in Sweepers : DownsAt(x, s)'
            BY <1>t, <2>0, <3>1 DEF DiskSame, DiskNow, SbTypeOK, SbDisk, SbKeep, SpawnSteps, DownSteps, Sweepers,
               IdsKnown, SpawnAt, KeptAt, DownsAt, Harvested
        <3> QED
            BY <3>2, <3>3, <3>4 DEF SbPaneInv
    <2>4. \A y \in SbPanes \ {x} : Untouched(y)
        BY <1>t, <2>0 DEF DiskSame, DiskNow, SbTypeOK, SbDisk, SbKeep, SpawnSteps, DownSteps, Sweepers, Untouched
    <2> QED
        BY <2>1, <2>2, <2>3, <2>4, <1>f
<1>17. CASE snapshotBoxes
    <2>1. SbTypeOK'
        <3>1. disk' \in SbDisk /\ errors' \in Nat
            BY <1>t, <1>17 DEF snapshotBoxes, SbTypeOK, SbDisk, SbKeep, SpawnSteps, DownSteps, Sweepers
        <3>2. keep' \in SbKeep
            BY <1>t, <1>17 DEF snapshotBoxes, SbTypeOK, SbDisk, SbKeep, SpawnSteps, DownSteps, Sweepers, NoPass
        <3> QED
            BY <1>t, <1>17, <3>1, <3>2 DEF snapshotBoxes, SbTypeOK, SbDisk, SbKeep, SpawnSteps,
               DownSteps, Sweepers, NoSpawn, NoTeardown
    <2>2. IdsKnown' /\ Quiet'
        BY <1>t, <1>17 DEF snapshotBoxes, SbTypeOK, SbDisk, SbKeep, SpawnSteps, DownSteps, Sweepers,
           IdsKnown, Quiet, DaemonUp, NoSpawn, NoTeardown, NoPass
    <2>3. \A x \in SbPanes : x \notin waived' => SbPaneInv(x)'
        BY <1>t, <1>i, <1>17 DEF snapshotBoxes, SbTypeOK, SbDisk, SbKeep, SpawnSteps, DownSteps, Sweepers,
           IdsKnown, Quiet, DaemonUp, NoSpawn, NoTeardown, NoPass, SbPaneInv, SpawnAt, KeptAt,
           DownsAt, Harvested
    <2> QED
        BY <2>1, <2>2, <2>3 DEF SbInv
<1>18. CASE DaemonDies
    <2>1. SbTypeOK'
        <3>1. disk' \in SbDisk /\ errors' \in Nat
            BY <1>t, <1>18 DEF DaemonDies, AllGone, SbTypeOK, SbDisk, SbKeep, SpawnSteps, DownSteps, Sweepers
        <3>2. keep' \in SbKeep
            BY <1>t, <1>18 DEF DaemonDies, AllGone, SbTypeOK, SbDisk, SbKeep, SpawnSteps, DownSteps,
               Sweepers, NoPass
        <3> QED
            BY <1>t, <1>18, <3>1, <3>2 DEF DaemonDies, AllGone, SbTypeOK, SbDisk, SbKeep, SpawnSteps,
               DownSteps, Sweepers, NoSpawn, NoTeardown
    <2>2. IdsKnown' /\ Quiet'
        BY <1>t, <1>18 DEF DaemonDies, AllGone, SbTypeOK, SbDisk, SbKeep, SpawnSteps, DownSteps, Sweepers,
           IdsKnown, Quiet, DaemonUp, NoSpawn, NoTeardown, NoPass
    <2>3. \A x \in SbPanes : x \notin waived' => SbPaneInv(x)'
        BY <1>t, <1>i, <1>18 DEF DaemonDies, AllGone, SbTypeOK, SbDisk, SbKeep, SpawnSteps, DownSteps,
           Sweepers, IdsKnown, Quiet, DaemonUp, NoSpawn, NoTeardown, NoPass, SbPaneInv, SpawnAt,
           KeptAt, DownsAt, Harvested
    <2> QED
        BY <2>1, <2>2, <2>3 DEF SbInv
<1>19. CASE StopSandboxes
    <2>1. SbTypeOK'
        <3>1. disk' \in SbDisk /\ errors' \in Nat
            <4> DEFINE new == disk.repo \cup UNION {disk.store[x] : x \in boxes \cap entries}
            <4>1. new \in SUBSET Nat
                BY <1>t DEF SbTypeOK, SbDisk, SbKeep
            <4>2. disk' = [disk EXCEPT !.saved = boxes, !.repo = new] /\ errors' = errors
                BY <1>19 DEF StopSandboxes, CopyOnce
            <4> HIDE DEF new
            <4> QED
                BY <1>t, <4>1, <4>2 DEF SbTypeOK, SbDisk, SbKeep
        <3>2. keep' \in SbKeep
            BY <1>t, <1>19 DEF StopSandboxes, AllGone, CopyOnce, killSandboxContainers,
               ContainerKilled, SbTypeOK, SbDisk, SbKeep, SpawnSteps, DownSteps, Sweepers, NoPass
        <3>3. container' \in [SbPanes -> {"none", "up", "exited"}]
            BY <1>t, <1>19 DEF StopSandboxes, killSandboxContainers, ContainerKilled, SbTypeOK
        <3>4. boxes' = {} /\ preps' \in [SbPanes -> SpawnSteps] /\ downs' \in [SbPanes -> [Sweepers -> DownSteps]]
            BY <1>19 DEF StopSandboxes, AllGone, NoSpawn, NoTeardown, SpawnSteps, DownSteps
        <3>5. entries' \subseteq SbPanes /\ waived' \subseteq SbPanes
            BY <1>t, <1>19 DEF StopSandboxes, AllGone, SbTypeOK, SbDisk
        <3>6. UNCHANGED <<created, written, due, sbBoots>>
            BY <1>19 DEF StopSandboxes
        <3> QED
            BY <1>t, <3>1, <3>2, <3>3, <3>4, <3>5, <3>6 DEF SbTypeOK
    <2>2. IdsKnown' /\ Quiet'
        BY <1>t, <1>19 DEF StopSandboxes, AllGone, CopyOnce, killSandboxContainers, ContainerKilled,
           SbTypeOK, SbDisk, SbKeep, SpawnSteps, DownSteps, Sweepers, IdsKnown, Quiet, DaemonUp, NoSpawn,
           NoTeardown, NoPass
    <2>3. \A x \in SbPanes : x \notin waived' => SbPaneInv(x)'
        BY <1>t, <1>i, <1>19 DEF StopSandboxes, AllGone, CopyOnce, killSandboxContainers,
           ContainerKilled, SbTypeOK, SbDisk, SbKeep, SpawnSteps, DownSteps, Sweepers, IdsKnown, Quiet,
           DaemonUp, NoSpawn, NoTeardown, NoPass, SbPaneInv, SpawnAt, KeptAt, DownsAt, Harvested
    <2> QED
        BY <2>1, <2>2, <2>3 DEF SbInv
<1>20. CASE DaemonStarts
    <2>1. SbTypeOK'
        <3>1. disk' \in SbDisk /\ errors' \in Nat
            BY <1>t, <1>20 DEF DaemonStarts, Works, Errs, SbTypeOK, SbDisk, SbKeep, SpawnSteps, DownSteps, Sweepers
        <3>2. keep' \in SbKeep
            BY <1>t, <1>20 DEF DaemonStarts, Works, Errs, SbTypeOK, SbDisk, SbKeep, SpawnSteps, DownSteps, Sweepers, NoPass
        <3> QED
            BY <1>t, <1>20, <3>1, <3>2 DEF DaemonStarts, Works, Errs, SbTypeOK, SbDisk, SbKeep, SpawnSteps,
               DownSteps, Sweepers, NoSpawn, NoTeardown
    <2>2. IdsKnown' /\ Quiet'
        BY <1>t, <1>20 DEF DaemonStarts, Works, Errs, SbTypeOK, SbDisk, SbKeep, SpawnSteps, DownSteps, Sweepers,
           IdsKnown, Quiet, DaemonUp, NoSpawn, NoTeardown, NoPass
    <2>3. \A x \in SbPanes : x \notin waived' => SbPaneInv(x)'
        BY <1>t, <1>i, <1>20 DEF DaemonStarts, Works, Errs, SbTypeOK, SbDisk, SbKeep, SpawnSteps, DownSteps, Sweepers,
           IdsKnown, Quiet, DaemonUp, NoSpawn, NoTeardown, NoPass, SbPaneInv, SpawnAt, KeptAt,
           DownsAt, Harvested
    <2> QED
        BY <2>1, <2>2, <2>3 DEF SbInv
<1>21. CASE repairSandboxAlternates
    <2>1. SbTypeOK'
        <3>1. disk' \in SbDisk /\ errors' \in Nat
            BY <1>t, <1>21 DEF repairSandboxAlternates, Prune, Works, Errs, SbTypeOK, SbDisk, SbKeep, SpawnSteps,
               DownSteps, Sweepers
        <3>2. keep' \in SbKeep
            BY <1>t, <1>21 DEF repairSandboxAlternates, Prune, Works, Errs, SbTypeOK, SbDisk, SbKeep, SpawnSteps,
               DownSteps, Sweepers, NoPass
        <3> QED
            BY <1>t, <1>21, <3>1, <3>2 DEF repairSandboxAlternates, Prune, Works, Errs, SbTypeOK, SbDisk, SbKeep,
               SpawnSteps, DownSteps, Sweepers, NoSpawn, NoTeardown
    <2>2. IdsKnown' /\ Quiet'
        BY <1>t, <1>21 DEF repairSandboxAlternates, Prune, Works, Errs, SbTypeOK, SbDisk, SbKeep, SpawnSteps, DownSteps,
           Sweepers, IdsKnown, Quiet, DaemonUp, NoSpawn, NoTeardown, NoPass
    <2>3. \A x \in SbPanes : x \notin waived' => SbPaneInv(x)'
        <3>1. /\ UNCHANGED <<container, boxes, preps, downs, entries, due, waived>>
              /\ disk'.reg = disk.reg /\ disk'.dirs = disk.dirs /\ disk'.store = disk.store
              /\ disk'.repo = disk.repo /\ disk'.wts = disk.wts
            BY <1>t, <1>21 DEF repairSandboxAlternates, Prune, SbTypeOK, SbDisk
        <3>2. disk'.alt \subseteq disk.alt /\ disk.alt \cap disk.dirs \subseteq disk'.alt
            BY <1>t, <1>21 DEF repairSandboxAlternates, Prune, SbTypeOK, SbDisk
        <3> SUFFICES ASSUME NEW x \in SbPanes, x \notin waived PROVE SbPaneInv(x)'
            BY <3>1
        <3>3. SpawnAt(x) /\ KeptAt(x) /\ \A b \in Sweepers : DownsAt(x, b)
            BY <1>i DEF SbPaneInv
        <3>4. x \in disk'.alt <=> x \in disk.alt
            BY <3>2, <3>3 DEF KeptAt
        <3>5. SpawnAt(x)'
            BY <3>1, <3>3, <3>4 DEF SpawnAt
        <3>6. KeptAt(x)'
            BY <3>1, <3>3, <3>4 DEF KeptAt
        <3>7. \A b \in Sweepers : DownsAt(x, b)'
            BY <3>1, <3>3, <3>4 DEF DownsAt, Harvested
        <3> QED
            BY <3>5, <3>6, <3>7 DEF SbPaneInv
    <2> QED
        BY <2>1, <2>2, <2>3 DEF SbInv
<1>22. CASE sandboxStartupHousekeeping
    <2>1. SbTypeOK'
        <3>1. disk' \in SbDisk /\ errors' \in Nat
            BY <1>t, <1>22 DEF sandboxStartupHousekeeping, SbTypeOK, SbDisk, SbKeep, SpawnSteps, DownSteps, Sweepers
        <3>2. keep' \in SbKeep
            BY <1>t, <1>22 DEF sandboxStartupHousekeeping, SbTypeOK, SbDisk, SbKeep, SpawnSteps,
               DownSteps, Sweepers, NoPass
        <3> QED
            BY <1>t, <1>22, <3>1, <3>2 DEF sandboxStartupHousekeeping, SbTypeOK, SbDisk, SbKeep,
               SpawnSteps, DownSteps, Sweepers, NoSpawn, NoTeardown
    <2>2. IdsKnown' /\ Quiet'
        BY <1>t, <1>22 DEF sandboxStartupHousekeeping, SbTypeOK, SbDisk, SbKeep, SpawnSteps, DownSteps,
           Sweepers, IdsKnown, Quiet, DaemonUp, NoSpawn, NoTeardown, NoPass
    <2>3. \A x \in SbPanes : x \notin waived' => SbPaneInv(x)'
        BY <1>t, <1>i, <1>22 DEF sandboxStartupHousekeeping, SbTypeOK, SbDisk, SbKeep, SpawnSteps,
           DownSteps, Sweepers, IdsKnown, Quiet, DaemonUp, NoSpawn, NoTeardown, NoPass, SbPaneInv,
           SpawnAt, KeptAt, DownsAt, Harvested
    <2> QED
        BY <2>1, <2>2, <2>3 DEF SbInv
<1>23. CASE ListPaneIDs
    <2>1. SbTypeOK'
        <3>1. disk' \in SbDisk /\ errors' \in Nat
            BY <1>t, <1>23 DEF ListPaneIDs, Works, Errs, SbTypeOK, SbDisk, SbKeep, SpawnSteps, DownSteps, Sweepers
        <3>2. keep' \in SbKeep
            <4> DEFINE orphans == {x \in SbPanes : container[x] # "none"} \ keep.live
            <4>1. orphans \in SUBSET SbPanes
                OBVIOUS
            <4>2. \/ keep' = [keep EXCEPT !.at = "reap", !.live = {}, !.ids = orphans]
                  \/ keep' = [NoPass EXCEPT !.at = "done"]
                BY <1>23 DEF ListPaneIDs
            <4> HIDE DEF orphans
            <4> QED
                BY <1>t, <4>1, <4>2 DEF SbTypeOK, NoPass, SbKeep
        <3> QED
            BY <1>t, <1>23, <3>1, <3>2 DEF ListPaneIDs, Works, Errs, SbTypeOK, SbDisk, SbKeep,
               SpawnSteps, DownSteps, Sweepers, NoSpawn, NoTeardown
    <2>2. IdsKnown' /\ Quiet'
        BY <1>t, <1>23 DEF ListPaneIDs, Works, Errs, SbTypeOK, SbDisk, SbKeep, SpawnSteps, DownSteps,
           Sweepers, IdsKnown, Quiet, DaemonUp, NoSpawn, NoTeardown, NoPass
    <2>3. \A x \in SbPanes : x \notin waived' => SbPaneInv(x)'
        BY <1>t, <1>i, <1>23 DEF ListPaneIDs, Works, Errs, SbTypeOK, SbDisk, SbKeep, SpawnSteps, DownSteps,
           Sweepers, IdsKnown, Quiet, DaemonUp, NoSpawn, NoTeardown, NoPass, SbPaneInv, SpawnAt,
           KeptAt, DownsAt, Harvested
    <2> QED
        BY <2>1, <2>2, <2>3 DEF SbInv
<1>24. CASE sweepSandboxContainers
    <2>1. CASE keep.ids = {}
        BY <1>t, <1>i, <1>24, <2>1 DEF sweepSandboxContainers, DownAt, WithoutContainer, Works,
           Errs, SbTypeOK, SbDisk, SbKeep, SpawnSteps, DownSteps, Sweepers, IdsKnown, Quiet, DaemonUp,
           NoPass, SbInv, SbPaneInv, SpawnAt, KeptAt, DownsAt, Harvested
    <2>2. CASE keep.ids # {}
        <3>1. PICK x \in keep.ids :
                 /\ keep' = [keep EXCEPT !.ids = @ \ {x}]
                 /\ DownAt(x, "sweep", "look")
                 /\ waived' = IF x \in boxes \/ preps[x] # "no" THEN waived \cup {x} ELSE waived
                 /\ \/ container' = WithoutContainer(x) /\ Works
                    \/ Errs /\ UNCHANGED container
            BY <1>24, <2>2 DEF sweepSandboxContainers
        <3>2. /\ UNCHANGED <<disk, boxes, preps, entries, created, written, due, sbBoots>>
              /\ keep.at = "reap" /\ x \in SbPanes
            BY <1>t, <1>24, <3>1 DEF sweepSandboxContainers, SbTypeOK, SbKeep
        <3>3. SbTypeOK'
            <4>1. errors' \in Nat /\ container' \in [SbPanes -> {"none", "up", "exited"}]
                BY <1>t, <3>1, <3>2 DEF WithoutContainer, Works, Errs, SbTypeOK, SbDisk, SbKeep,
                   SpawnSteps, DownSteps, Sweepers
            <4>2. keep' \in SbKeep
                BY <1>t, <3>1, <3>2 DEF SbTypeOK, SbDisk, SbKeep, SpawnSteps, DownSteps, Sweepers
            <4> QED
                BY <1>t, <3>1, <3>2, <4>1, <4>2 DEF DownAt, SbTypeOK, SbDisk, SbKeep, SpawnSteps,
                   DownSteps, Sweepers
        <3>4. IdsKnown' /\ Quiet'
            BY <1>t, <3>1, <3>2 DEF SbTypeOK, SbDisk, SbKeep, SpawnSteps, DownSteps, Sweepers, IdsKnown,
               Quiet, DaemonUp
        <3>5. x \notin waived' => SbPaneInv(x)'
            BY <1>t, <1>i, <3>1, <3>2 DEF DownAt, WithoutContainer, SbTypeOK, SbDisk, SbKeep,
               SpawnSteps, DownSteps, Sweepers, SbPaneInv, SpawnAt, KeptAt, DownsAt, Harvested
        <3>6. \A y \in SbPanes \ {x} : Untouched(y)
            BY <1>t, <3>1, <3>2 DEF DownAt, WithoutContainer, SbTypeOK, SbDisk, SbKeep, SpawnSteps,
               DownSteps, Sweepers, Untouched
        <3> QED
            BY <3>2, <3>3, <3>4, <3>5, <3>6, <1>f
    <2> QED
        BY <2>1, <2>2
<1>25. CASE UNCHANGED sbVars
    BY <1>t, <1>i, <1>25 DEF sbVars, SbInv, SbTypeOK, IdsKnown, Quiet, DaemonUp, SbPaneInv, SpawnAt,
       KeptAt, DownsAt, Harvested
<1> QED
    BY <1>1, <1>2, <1>3, <1>4, <1>5, <1>6, <1>7, <1>8, <1>9, <1>10, <1>11, <1>12, <1>13, <1>14, <1>15,
       <1>16, <1>17, <1>18, <1>19, <1>20, <1>21, <1>22, <1>23, <1>24, <1>25 DEF SbNext, teardownSandbox

\* However spawns, agents, closes, sweeps, failing docker calls and kills of the
\* daemon interleave, an object written in a pane of the session can be read from
\* the repository, the repository links no store that is gone or unrecorded, and
\* neither tree nor worktree is deleted under a running agent, for any number of
\* panes, objects, starts and errors; excepted are the five races SandboxKept names.
THEOREM SandboxIsKept == SbSpec => []SandboxKept
<1>1. SbInit => SbInv
    <2> SUFFICES ASSUME SbInit PROVE SbInv
        OBVIOUS
    <2>1. SbTypeOK
        <3>1. disk \in SbDisk
            BY DEF SbInit, SbDisk
        <3>2. keep \in SbKeep
            BY DEF SbInit, NoPass, SbKeep
        <3> QED
            BY <3>1, <3>2 DEF SbInit, SbTypeOK, SpawnSteps, DownSteps, NoSpawn, NoTeardown
    <2>2. IdsKnown /\ Quiet
        BY DEF SbInit, IdsKnown, Quiet, DaemonUp, NoPass
    <2>3. \A x \in SbPanes : SbPaneInv(x)
        BY DEF SbInit, NoSpawn, NoTeardown, SbPaneInv, SpawnAt, KeptAt, DownsAt, Harvested
    <2> QED
        BY <2>1, <2>2, <2>3 DEF SbInv
<1>2. SbInv => SandboxKept
    <2> SUFFICES ASSUME SbInv PROVE SandboxKept
        OBVIOUS
    <2>1. \A x \in SbPanes : x \notin waived => KeptAt(x)
        BY DEF SbInv, SbPaneInv
    <2>2. due \subseteq SbPanes \X Nat /\ disk.alt \subseteq SbPanes
        BY DEF SbInv, SbTypeOK, SbDisk, SbKeep
    <2>3. ObjectsReadable
        BY <2>1, <2>2 DEF KeptAt, ObjectsReadable
    <2>4. LinksWhole /\ NothingUnderAgent
        BY <2>1, <2>2 DEF KeptAt, LinksWhole, NothingUnderAgent
    <2> QED
        BY <2>3, <2>4 DEF SandboxKept
<1> QED
    BY <1>1, <1>2, SandboxStep, PTL DEF SbSpec

-----------------------------------------------------------------------------
(* The MCP bridge: its pool of connections, the pending maps, the dials      *)

\* The types of the bridges, their entries and the requests.
AskIds == [k : Calls, n : Nat]
BridgeRec == [open : BOOLEAN, up : BOOLEAN, dead : BOOLEAN, old : BOOLEAN,
              pend : SUBSET AskIds, sent : SUBSET AskIds]
AskRec == [k : Calls, n : Nat, c : Nat, st : {"made", "sent", "answer", "error"}, closed : BOOLEAN]
\* A goroutine that holds the dial.
Dialer(x) == g[x].pc \in {"dial", "publish"}

\* A list of daemons that exist.
Targets(s) == s # <<>> /\ s \in Seq(Nat) /\ \A i \in 1 .. Len(s) : s[i] \in 1 .. Len(br)

\* Type correctness, component by component.
BridgesTyped == br \in Seq(BridgeRec) /\ Len(br) >= 1
AsksTyped ==
    /\ asks \subseteq AskRec /\ nAsks \in [Calls -> Nat]
    /\ \A a \in asks : a.c \in 1 .. Len(br) /\ a.n <= nAsks[a.k]
GoodRoutine(x, r) ==
    /\ DOMAIN r = DOMAIN Idle
    /\ x \in Background => r.by = "none"
    /\ x \in Calls /\ r.pc \in {"work", "watch", "await", "again"} => Targets(r.todo)
    /\ r.pc \in {"dial", "publish"} => r.conn \in 0 .. Len(br)
RoutinesTyped == DOMAIN g = Routines /\ \A x \in Routines : GoodRoutine(x, g[x])
HostTyped ==
    /\ DOMAIN hostc = {"bridge", "err", "recent", "dialing", "retry"}
    /\ hostc.bridge \in 0 .. Len(br)
BridgeTypes == BridgesTyped /\ AsksTyped /\ RoutinesTyped /\ HostTyped

\* A request is known by its caller and number; an entry is awaited by its
\* request, and a request that is yet to be sent has its entry.
PendingAwaited ==
    /\ \A a, b \in asks : a.k = b.k /\ a.n = b.n => a = b
    /\ \A c \in 1 .. Len(br) : \A id \in br[c].pend :
         \E a \in asks : Id(a) = id /\ a.c = c /\ a.st \in {"made", "sent"} /\ ~a.closed
    /\ \A a \in asks : a.st = "made" /\ ~br[a.c].dead => Id(a) \in br[a.c].pend

\* One goroutine dials, while no bridge is published; what is open is
\* published or in its hands.
DialsOnce ==
    /\ hostc.dialing => /\ hostc.bridge = NoBridge
                        /\ \E x \in Routines : Dialer(x)
    /\ \A x \in Routines : Dialer(x) => hostc.dialing
    /\ \A x, y \in Routines : Dialer(x) /\ Dialer(y) => x = y
    /\ \A x \in Routines : g[x].pc = "wait" => hostc.dialing
    /\ \A c \in 2 .. Len(br) : br[c].open =>
         hostc.bridge = c \/ \E x \in Routines : Dialer(x) /\ g[x].conn = c
    /\ hostc.retry <=> g["retry"].pc # "idle"

\* The inductive invariant.
BridgeInv == BridgeTypes /\ PendingAwaited /\ DialsOnce

\* What is proved inductive says what the run checks.
LEMMA BridgeInvImplies == BridgeInv => BridgesTended
  <1> SUFFICES ASSUME BridgeInv PROVE BridgesTended
    OBVIOUS
  <1>1. DOMAIN br = 1 .. Len(br) /\ Len(br) \in Nat
    BY LenProperties DEF BridgeInv, BridgeTypes, BridgesTyped
  <1> DEFINE D == {x \in Routines : g[x].pc \in {"dial", "publish"}}
  <1>2. Cardinality(D) = (IF hostc.dialing THEN 1 ELSE 0)
    <2>1. CASE hostc.dialing
      <3>1. PICK x \in Routines : Dialer(x)
        BY <2>1 DEF BridgeInv, DialsOnce
      <3>2. D = {x}
        BY <3>1 DEF BridgeInv, DialsOnce, Dialer
      <3> QED BY <2>1, <3>2, FS_Singleton
    <2>2. CASE ~hostc.dialing
      <3>1. D = {}
        BY <2>2 DEF BridgeInv, DialsOnce, Dialer
      <3> QED BY <2>2, <3>1, FS_EmptySet
    <2> QED BY <2>1, <2>2
  <1>3. \A c \in DOMAIN br \ {LocalBridge} : br[c].open =>
         \/ hostc.bridge = c
         \/ \E x \in Routines : g[x].pc \in {"dial", "publish"} /\ g[x].conn = c
    BY <1>1 DEF BridgeInv, DialsOnce, Dialer, LocalBridge
  <1> QED BY <1>1, <1>2, <1>3 DEF BridgesTended, BridgeInv, PendingAwaited, DialsOnce
-----------------------------------------------------------------------------
\* What the helpers on the bridges return.
LEMMA BridgeExcept ==
    ASSUME NEW bs \in Seq(BridgeRec), NEW c \in 1 .. Len(bs), NEW r \in BridgeRec
    PROVE  /\ [bs EXCEPT ![c] = r] \in Seq(BridgeRec)
           /\ Len([bs EXCEPT ![c] = r]) = Len(bs)
           /\ [bs EXCEPT ![c] = r][c] = r
           /\ \A d \in 1 .. Len(bs) : d # c => [bs EXCEPT ![c] = r][d] = bs[d]
  OBVIOUS

\* A function on a sequence's domain is a sequence as long.
LEMMA BridgeMap ==
    ASSUME NEW bs \in Seq(BridgeRec), NEW ds, DOMAIN ds = 1 .. Len(bs),
           ds = [c \in 1 .. Len(bs) |-> ds[c]], \A c \in 1 .. Len(bs) : ds[c] \in BridgeRec
    PROVE  ds \in Seq(BridgeRec) /\ Len(ds) = Len(bs)
  <1>1. Len(bs) \in Nat
    OBVIOUS
  <1>2. ds \in [1 .. Len(bs) -> BridgeRec]
    OBVIOUS
  <1> QED BY <1>1, <1>2, SeqDef, LenProperties

\* One entry goes.
LEMMA ForgetFacts ==
    ASSUME NEW bs \in Seq(BridgeRec), NEW a \in AskRec, a.c \in 1 .. Len(bs)
    PROVE  /\ Forget(bs, a) \in Seq(BridgeRec) /\ Len(Forget(bs, a)) = Len(bs)
           /\ Forget(bs, a)[a.c].pend = bs[a.c].pend \ {Id(a)}
           /\ Forget(bs, a)[a.c].dead = bs[a.c].dead
           /\ Forget(bs, a)[a.c].open = bs[a.c].open
           /\ \A d \in 1 .. Len(bs) : d # a.c => Forget(bs, a)[d] = bs[d]
  <1> DEFINE r == [bs[a.c] EXCEPT !.pend = @ \ {Id(a)}]
  <1>0. bs[a.c] \in BridgeRec
    OBVIOUS
  <1>1. r \in BridgeRec /\ r.pend = bs[a.c].pend \ {Id(a)}
    BY <1>0 DEF BridgeRec
  <1>3. (r.dead = bs[a.c].dead) /\ (r.open = bs[a.c].open)
    BY <1>0 DEF BridgeRec
  <1>2. Forget(bs, a) = [bs EXCEPT ![a.c] = r]
    BY DEF Forget
  <1> HIDE DEF r
  <1> QED BY <1>1, <1>2, <1>3, BridgeExcept

\* The entries that new requests make on a bridge.
Entries(as, c) == {[k |-> a.k, n |-> a.n] : a \in {b \in as : b.c = c}}

\* A bridge with the entries of new requests.
LEMMA RegisteredRec ==
    ASSUME NEW bs \in Seq(BridgeRec), NEW as \in SUBSET AskRec, NEW c \in 1 .. Len(bs)
    PROVE  /\ Registered(bs, as)[c] \in BridgeRec
           /\ Registered(bs, as)[c].pend = bs[c].pend \cup Entries(as, c)
  <1>1. bs[c] \in BridgeRec /\ c \in DOMAIN bs
    OBVIOUS
  <1>2. Registered(bs, as)[c] = [bs[c] EXCEPT !.pend = @ \cup Entries(as, c)]
    BY <1>1 DEF Registered, Entries
  <1>3. Entries(as, c) \subseteq AskIds
    <2>1. \A a \in as : [k |-> a.k, n |-> a.n] \in AskIds
      BY DEF AskRec, AskIds
    <2> QED BY <2>1 DEF Entries
  <1> QED BY <1>1, <1>2, <1>3 DEF BridgeRec

\* Its flags stay.
LEMMA RegisteredFlags ==
    ASSUME NEW bs \in Seq(BridgeRec), NEW as \in SUBSET AskRec, NEW c \in 1 .. Len(bs)
    PROVE  Registered(bs, as)[c].dead = bs[c].dead /\ Registered(bs, as)[c].open = bs[c].open
  BY DEF Registered, BridgeRec

\* The bridges with the entries of new requests.
LEMMA RegisteredSeq ==
    ASSUME NEW bs \in Seq(BridgeRec), NEW as \in SUBSET AskRec
    PROVE  Registered(bs, as) \in Seq(BridgeRec) /\ Len(Registered(bs, as)) = Len(bs)
  <1> DEFINE ds == Registered(bs, as)
  <1>1. DOMAIN bs = 1 .. Len(bs)
    OBVIOUS
  <1>2. DOMAIN ds = 1 .. Len(bs) /\ ds = [c \in 1 .. Len(bs) |-> ds[c]]
    BY <1>1 DEF Registered
  <1>3. \A c \in 1 .. Len(bs) : ds[c] \in BridgeRec
    BY RegisteredRec
  <1> HIDE DEF ds
  <1>4. ds \in Seq(BridgeRec) /\ Len(ds) = Len(bs)
    BY <1>2, <1>3, BridgeMap
  <1> QED BY <1>4 DEF ds

\* One connection is closed.
LEMMA ReleasedFacts ==
    ASSUME NEW bs \in Seq(BridgeRec), NEW c \in 0 .. Len(bs)
    PROVE  /\ Released(bs, c) \in Seq(BridgeRec) /\ Len(Released(bs, c)) = Len(bs)
           /\ \A d \in 1 .. Len(bs) :
                /\ Released(bs, c)[d].pend = bs[d].pend
                /\ Released(bs, c)[d].dead = bs[d].dead
                /\ d # c => Released(bs, c)[d].open = bs[d].open
                /\ d = c => ~Released(bs, c)[d].open
  <1>1. CASE c = 0
    BY <1>1 DEF Released, NoBridge
  <1>2. CASE c # 0
    <2> DEFINE r == [bs[c] EXCEPT !.open = FALSE]
    <2>0. bs[c] \in BridgeRec /\ c \in 1 .. Len(bs)
      BY <1>2
    <2>1. r \in BridgeRec /\ r.pend = bs[c].pend
      BY <2>0 DEF BridgeRec
    <2>2. (r.dead = bs[c].dead) /\ ~r.open
      BY <2>0 DEF BridgeRec
    <2>3. Released(bs, c) = [bs EXCEPT ![c] = r]
      BY <1>2 DEF Released, NoBridge
    <2> HIDE DEF r
    <2> QED BY <2>0, <2>1, <2>2, <2>3, BridgeExcept
  <1> QED BY <1>1, <1>2

\* The next daemon of a list exists, and so do the others.
LEMMA TailTargets ==
    ASSUME NEW s, Targets(s)
    PROVE  Head(s) \in 1 .. Len(br) /\ (Len(s) # 1 => Targets(Tail(s)))
  <1>1. s \in Seq(Nat) /\ s # <<>> /\ Len(s) \in Nat \ {0} /\ Head(s) = s[1]
    BY DEF Targets
  <1>2. CASE Len(s) # 1
    <2>1. /\ Tail(s) \in Seq(Nat) /\ Len(Tail(s)) = Len(s) - 1
          /\ \A i \in 1 .. Len(s) - 1 : Tail(s)[i] = s[i + 1]
      BY <1>1
    <2>2. Tail(s) # <<>>
      <3>1. Len(Tail(s)) # 0
        BY <1>1, <1>2, <2>1
      <3>2. Len(<<>>) = 0
        OBVIOUS
      <3> QED BY <3>1, <3>2, Zenon
    <2> QED BY <1>1, <2>1, <2>2 DEF Targets
  <1> QED BY <1>1, <1>2 DEF Targets

\* The connected daemons exist.
LEMMA ConnectedTargets == BridgesTyped /\ HostTyped => Targets(connected) /\ Targets(<<LocalBridge>>)
  <1> SUFFICES ASSUME BridgesTyped, HostTyped PROVE Targets(connected) /\ Targets(<<LocalBridge>>)
    OBVIOUS
  <1>1. Len(br) \in Nat /\ Len(br) >= 1
    BY DEF BridgesTyped
  <1>2. Targets(<<LocalBridge>>)
    BY <1>1 DEF Targets, LocalBridge
  <1>3. CASE LiveBridge(hostc)
    <2>1. connected = <<LocalBridge>> \o <<hostc.bridge>> /\ hostc.bridge \in 1 .. Len(br)
      BY <1>1, <1>3 DEF connected, LiveBridge, NoBridge, HostTyped
    <2>2. PICK s, t : s = <<LocalBridge>> /\ t = <<hostc.bridge>>
      OBVIOUS
    <2>3. s \in Seq(Nat) /\ t \in Seq(Nat) /\ Len(s) = 1 /\ Len(t) = 1
          /\ s[1] \in 1 .. Len(br) /\ t[1] \in 1 .. Len(br)
      BY <1>1, <2>1, <2>2 DEF LocalBridge
    <2>4. /\ s \o t \in Seq(Nat) /\ Len(s \o t) = 2
          /\ \A i \in 1 .. 2 : (s \o t)[i] = IF i <= 1 THEN s[i] ELSE t[i - 1]
      <3>1. /\ s \o t \in Seq(Nat) /\ Len(s \o t) = Len(s) + Len(t)
            /\ \A i \in 1 .. Len(s) + Len(t) : (s \o t)[i] = IF i <= Len(s) THEN s[i] ELSE t[i - Len(s)]
        BY <2>3, ConcatProperties, SMTT(40)
      <3> QED BY <2>3, <3>1
    <2>5. s \o t # <<>> /\ \A i \in 1 .. 2 : (s \o t)[i] \in 1 .. Len(br)
      BY <2>3, <2>4
    <2>6. Targets(s \o t)
      BY <2>4, <2>5 DEF Targets
    <2> QED BY <1>2, <2>1, <2>2, <2>6
  <1>4. CASE ~LiveBridge(hostc)
    <2>1. connected = <<LocalBridge>>
      BY <1>4 DEF connected, LocalBridge
    <2> QED BY <1>2, <2>1
  <1> QED BY <1>3, <1>4
-----------------------------------------------------------------------------
(* The pending maps. *)

\* Requests and entries stay.
LEMMA PendingKept ==
    ASSUME BridgesTyped, AsksTyped, PendingAwaited, asks' = asks,
           Len(br') \in Nat, Len(br') >= Len(br),
           \A c \in 1 .. Len(br) : br'[c].pend = br[c].pend /\ (br'[c].dead = br[c].dead),
           \A c \in Len(br) + 1 .. Len(br') : br'[c].pend = {}
    PROVE  PendingAwaited'
  <1>0. Len(br) \in Nat
    BY DEF BridgesTyped
  <1>1. (\A a, b \in asks : a.k = b.k /\ a.n = b.n => a = b)'
    BY DEF PendingAwaited
  <1>2. ASSUME NEW c \in 1 .. Len(br'), NEW id \in br'[c].pend
        PROVE  \E a \in asks' : Id(a) = id /\ a.c = c /\ a.st \in {"made", "sent"} /\ ~a.closed
    BY <1>0, <1>2 DEF PendingAwaited
  <1>3. ASSUME NEW a \in asks', a.st = "made", ~br'[a.c].dead PROVE Id(a) \in br'[a.c].pend
    BY <1>3 DEF PendingAwaited, AsksTyped
  <1> QED BY <1>1, <1>2, <1>3 DEF PendingAwaited, Id

\* New requests enter under new numbers.
LEMMA AsksAdded ==
    ASSUME BridgesTyped, AsksTyped, PendingAwaited,
           NEW k \in Calls, NEW m \in Nat, NEW as \in SUBSET AskRec, m >= nAsks[k],
           \A a \in as : /\ a.k = k /\ a.c \in 1 .. Len(br) /\ a.n > nAsks[k] /\ a.n <= m
                         /\ a.st = "made" /\ ~a.closed,
           \A a, b \in as : a.n = b.n => a = b,
           asks' = asks \cup as, br' = Registered(br, as), nAsks' = [nAsks EXCEPT ![k] = m]
    PROVE  /\ BridgesTyped' /\ AsksTyped' /\ PendingAwaited' /\ Len(br') = Len(br)
           /\ \A c \in 1 .. Len(br) : br'[c].open = br[c].open
  <1>1. /\ br' \in Seq(BridgeRec) /\ Len(br') = Len(br)
        /\ \A c \in 1 .. Len(br) :
             /\ br'[c].pend = br[c].pend \cup Entries(as, c)
             /\ br'[c].dead = br[c].dead
             /\ br'[c].open = br[c].open
    <2>1. br \in Seq(BridgeRec)
      BY DEF BridgesTyped
    <2>2. br' \in Seq(BridgeRec) /\ Len(br') = Len(br)
      BY <2>1, RegisteredSeq
    <2>3. \A c \in 1 .. Len(br) : br'[c].pend = br[c].pend \cup Entries(as, c)
      BY <2>1, RegisteredRec
    <2>4. \A c \in 1 .. Len(br) : br'[c].dead = br[c].dead
      BY <2>1, RegisteredFlags
    <2>5. \A c \in 1 .. Len(br) : br'[c].open = br[c].open
      BY <2>1, RegisteredFlags
    <2> QED BY <2>2, <2>3, <2>4, <2>5
  <1>2. \A a \in asks : a \in AskRec /\ a.c \in 1 .. Len(br) /\ a.n <= nAsks[a.k] /\ a.k \in Calls /\ a.n \in Nat
    BY DEF AsksTyped, AskRec
  <1>3. \A a \in as : a.n \in Nat
    BY DEF AskRec
  <1>4. nAsks \in [Calls -> Nat] /\ nAsks' \in [Calls -> Nat] /\ nAsks'[k] = m
        /\ \A j \in Calls : nAsks'[j] >= nAsks[j]
    BY DEF AsksTyped
  <1>5. BridgesTyped'
    BY <1>1 DEF BridgesTyped
  <1>6. AsksTyped'
    <2>1. ASSUME NEW a \in asks' PROVE a.c \in 1 .. Len(br) /\ a.n <= nAsks'[a.k]
      <3>1. CASE a \in asks
        <4>1. nAsks[a.k] \in Nat /\ nAsks'[a.k] \in Nat /\ nAsks'[a.k] >= nAsks[a.k]
          BY <1>2, <1>4, <3>1
        <4> QED BY <1>2, <3>1, <4>1
      <3>2. CASE a \in as
        BY <1>4, <3>2
      <3> QED BY <3>1, <3>2
    <2>2. asks' \subseteq AskRec
      BY <1>2
    <2> QED BY <1>1, <1>4, <2>1, <2>2 DEF AsksTyped
  <1>7. ASSUME NEW a \in asks', NEW b \in asks', a.k = b.k, a.n = b.n PROVE a = b
    <2>1. CASE a \in asks /\ b \in asks
      BY <1>7, <2>1 DEF PendingAwaited
    <2>2. CASE a \in as /\ b \in as
      BY <1>7, <2>2
    <2>3. ASSUME NEW e \in asks, NEW f \in as, e.k = f.k, e.n = f.n PROVE FALSE
      <3>1. e.k = k /\ f.n > nAsks[k] /\ nAsks[k] \in Nat /\ f.n \in Nat
        BY <1>3, <1>4, <2>3
      <3>2. e.n <= nAsks[k]
        BY <1>2, <3>1
      <3> QED BY <2>3, <3>1, <3>2
    <2> QED BY <1>7, <2>1, <2>2, <2>3
  <1>8. ASSUME NEW c \in 1 .. Len(br'), NEW id \in br'[c].pend
        PROVE  \E a \in asks' : Id(a) = id /\ a.c = c /\ a.st \in {"made", "sent"} /\ ~a.closed
    <2>1. CASE id \in br[c].pend
      <3>1. c \in 1 .. Len(br)
        BY <1>1
      <3>2. \E a \in asks : Id(a) = id /\ a.c = c /\ a.st \in {"made", "sent"} /\ ~a.closed
        BY <2>1, <3>1, Zenon DEF PendingAwaited
      <3> QED BY <3>2
    <2>2. CASE id \in Entries(as, c)
      <3>1. PICK a \in as : a.c = c /\ id = Id(a)
        BY <2>2 DEF Entries, Id
      <3> QED BY <3>1
    <2> QED BY <1>1, <1>8, <2>1, <2>2
  <1>9. ASSUME NEW a \in asks', a.st = "made", ~br'[a.c].dead PROVE Id(a) \in br'[a.c].pend
    <2>1. CASE a \in asks
      <3>1. a.c \in 1 .. Len(br)
        BY <1>2, <2>1
      <3>2. br'[a.c].dead = br[a.c].dead /\ br[a.c].pend \subseteq br'[a.c].pend
        BY <1>1, <3>1
      <3>3. Id(a) \in br[a.c].pend
        BY <1>9, <2>1, <3>2 DEF PendingAwaited
      <3> QED BY <3>2, <3>3
    <2>2. CASE a \in as
      <3>1. Id(a) \in Entries(as, a.c)
        BY <2>2 DEF Entries, Id
      <3> QED BY <1>1, <2>2, <3>1
    <2> QED BY <2>1, <2>2
  <1>10. PendingAwaited'
    BY <1>7, <1>8, <1>9 DEF PendingAwaited, Id
  <1> QED BY <1>1, <1>5, <1>6, <1>10

\* An answered request is dropped by its caller.
LEMMA AskDropped ==
    ASSUME BridgesTyped, AsksTyped, PendingAwaited, NEW a \in asks, a.st \in {"answer", "error"},
           asks' = asks \ {a}, br' = br, nAsks' = nAsks
    PROVE  BridgesTyped' /\ AsksTyped' /\ PendingAwaited'
  <1>1. BridgesTyped' /\ AsksTyped'
    BY DEF BridgesTyped, AsksTyped
  <1>2. ASSUME NEW c \in 1 .. Len(br), NEW id \in br[c].pend
        PROVE  \E b \in asks' : Id(b) = id /\ b.c = c /\ b.st \in {"made", "sent"} /\ ~b.closed
    BY <1>2 DEF PendingAwaited
  <1> QED BY <1>1, <1>2 DEF PendingAwaited, Id

\* One request changes state, and its entry may go with it.
LEMMA AskMoved ==
    ASSUME BridgesTyped, AsksTyped, PendingAwaited, NEW a \in asks, NEW b \in AskRec,
           b.k = a.k, b.n = a.n, b.c = a.c, asks' = (asks \ {a}) \cup {b}, nAsks' = nAsks,
           br' \in Seq(BridgeRec), Len(br') = Len(br),
           \A c \in 1 .. Len(br) : (br'[c].dead = br[c].dead) /\ (c # a.c => br'[c].pend = br[c].pend),
           \/ br'[a.c].pend = br[a.c].pend \ {Id(a)} /\ b.st # "made"
           \/ br'[a.c].pend = br[a.c].pend /\ b.st = "sent" /\ ~b.closed
           \/ br'[a.c].pend = br[a.c].pend /\ b.st # "made" /\ Id(a) \notin br[a.c].pend
    PROVE  BridgesTyped' /\ AsksTyped' /\ PendingAwaited'
  <1>1. /\ a.c \in 1 .. Len(br) /\ a.n <= nAsks[a.k] /\ Len(br) \in Nat
        /\ \A e \in asks : e \in AskRec /\ e.c \in 1 .. Len(br) /\ e.n <= nAsks[e.k]
    BY DEF AsksTyped, BridgesTyped
  <1>2. BridgesTyped' /\ AsksTyped'
    BY <1>1 DEF BridgesTyped, AsksTyped
  <1>3. \A e \in asks : Id(e) = Id(a) <=> e = a
    BY DEF PendingAwaited, Id
  <1>4. Id(b) = Id(a)
    BY DEF Id
  <1>5. ASSUME NEW d \in asks', NEW e \in asks', d.k = e.k, d.n = e.n PROVE d = e
    <2>1. CASE d \in asks \ {a} /\ e \in asks \ {a}
      BY <1>5, <2>1 DEF PendingAwaited
    <2>2. ASSUME NEW f \in asks, f.k = b.k, f.n = b.n PROVE f = a
      BY <2>2 DEF PendingAwaited
    <2> QED BY <1>5, <2>1, <2>2
  <1>6. ASSUME NEW c \in 1 .. Len(br), NEW id \in br'[c].pend
        PROVE  \E e \in asks' : Id(e) = id /\ e.c = c /\ e.st \in {"made", "sent"} /\ ~e.closed
    <2>1. id \in br[c].pend
      BY <1>6
    <2>2. PICK e \in asks : Id(e) = id /\ e.c = c /\ e.st \in {"made", "sent"} /\ ~e.closed
      BY <2>1 DEF PendingAwaited
    <2>3. CASE e # a
      BY <2>2, <2>3
    <2>4. CASE e = a
      <3>1. c = a.c /\ id = Id(a)
        BY <2>2, <2>4
      <3>2. br'[a.c].pend = br[a.c].pend /\ b.st = "sent" /\ ~b.closed
        BY <1>6, <2>1, <3>1
      <3> QED BY <1>4, <3>1, <3>2
    <2> QED BY <2>3, <2>4
  <1>7. ASSUME NEW e \in asks', e.st = "made", ~br'[e.c].dead PROVE Id(e) \in br'[e.c].pend
    <2>1. e # b
      BY <1>7
    <2>2. e \in asks /\ e # a /\ Id(e) # Id(a)
      BY <1>3, <2>1
    <2>3. e.c \in 1 .. Len(br) /\ Id(e) \in br[e.c].pend
      BY <1>1, <1>7, <2>2 DEF PendingAwaited
    <2> QED BY <2>2, <2>3
  <1>8. Len(br') = Len(br)
    OBVIOUS
  <1>9. PendingAwaited'
    <2> HIDE DEF Id
    <2> QED BY <1>5, <1>6, <1>7, <1>8 DEF PendingAwaited
  <1> QED BY <1>2, <1>9
-----------------------------------------------------------------------------
(* The goroutines. *)

\* A step of one goroutine that neither dials nor begins to; it may start the
\* retry, when none runs.
Moved(x) ==
    /\ DOMAIN g' = Routines
    /\ GoodRoutine(x, g'[x])
    /\ g'[x].pc \notin {"dial", "publish"}
    /\ g'[x].pc = "wait" => hostc.dialing
    /\ \A y \in Routines : y # x =>
         \/ g'[y] = g[y]
         \/ y = "retry" /\ ~hostc.retry /\ g'[y] = [Idle EXCEPT !.pc = "connect"]
    /\ DOMAIN hostc' = DOMAIN hostc
    /\ hostc'.bridge = hostc.bridge /\ hostc'.dialing = hostc.dialing
    /\ hostc'.retry <=> g'["retry"].pc # "idle"

\* Such a step keeps the dial and the connections.
LEMMA MovedStep ==
    ASSUME BridgeTypes, DialsOnce, NEW x \in Routines, ~Dialer(x), Moved(x), Len(br') = Len(br),
           \A c \in 1 .. Len(br) : br'[c].open => br[c].open
    PROVE  RoutinesTyped' /\ HostTyped' /\ DialsOnce'
  <1> DEFINE fresh == [Idle EXCEPT !.pc = "connect"]
  <1>0. Len(br) \in Nat
    BY DEF BridgeTypes, BridgesTyped
  <1>1. \A y \in Routines : GoodRoutine(y, g[y])
    BY DEF BridgeTypes, RoutinesTyped
  <1>2. fresh.pc = "connect" /\ fresh.by = "none" /\ DOMAIN fresh = DOMAIN Idle
    BY DEF Idle
  <1>3. \A y : GoodRoutine(y, fresh)
    BY <1>2 DEF GoodRoutine
  <1> HIDE DEF fresh
  <1>4. \A y \in Routines : GoodRoutine(y, g'[y])
    BY <1>1, <1>3 DEF Moved, fresh
  <1>5. \A y, r : GoodRoutine(y, r) => GoodRoutine(y, r)'
    BY DEF GoodRoutine, Targets
  <1>6. RoutinesTyped'
    BY <1>4, <1>5 DEF RoutinesTyped, Moved
  <1>7. HostTyped'
    BY DEF BridgeTypes, HostTyped, Moved
  <1>8. "retry" \in Routines
    BY DEF Routines, Background
  <1>9. ~hostc.retry => ~Dialer("retry")
    BY <1>8 DEF DialsOnce, Dialer
  <1>10. ~Dialer(x)'
    BY DEF Moved, Dialer
  <1>11. ASSUME NEW y \in Routines
         PROVE  Dialer(y)' <=> Dialer(y)
    <2>1. CASE y = x
      BY <1>10, <2>1
    <2>2. CASE y # x /\ g'[y] = g[y]
      BY <2>2 DEF Dialer
    <2>3. CASE y = "retry" /\ ~hostc.retry /\ g'[y] = fresh
      BY <1>2, <1>9, <2>3 DEF Dialer
    <2> QED BY <2>1, <2>2, <2>3 DEF Moved, fresh
  <1>12. ASSUME NEW y \in Routines, Dialer(y)
         PROVE  g'[y] = g[y]
    BY <1>9, <1>12 DEF Moved
  <1>13. ASSUME NEW y \in Routines, g'[y].pc = "wait"
         PROVE  hostc.dialing
    <2>1. CASE y = x
      BY <1>13, <2>1 DEF Moved
    <2>2. CASE y # x /\ g'[y] = g[y]
      BY <1>13, <2>2 DEF DialsOnce
    <2>3. CASE g'[y] = fresh
      BY <1>2, <1>13, <2>3
    <2> QED BY <2>1, <2>2, <2>3 DEF Moved, fresh
  <1>14. hostc'.bridge = hostc.bridge /\ hostc'.dialing = hostc.dialing /\ (hostc'.retry <=> g'["retry"].pc # "idle")
    BY DEF Moved
  <1>15. (\A c \in 2 .. Len(br) : br[c].open => hostc.bridge = c \/ \E y \in Routines : Dialer(y) /\ g[y].conn = c)'
    <2> SUFFICES ASSUME NEW c \in 2 .. Len(br'), br'[c].open
                 PROVE  hostc'.bridge = c \/ \E y \in Routines : Dialer(y)' /\ g'[y].conn = c
      OBVIOUS
    <2>1. c \in 2 .. Len(br) /\ br[c].open
      BY <1>0
    <2> QED BY <1>11, <1>12, <1>14, <2>1 DEF DialsOnce
  <1>16. DialsOnce'
    <2>1. (hostc.dialing => hostc.bridge = NoBridge /\ \E y \in Routines : Dialer(y))'
      BY <1>11, <1>14 DEF DialsOnce
    <2>2. \A y \in Routines : Dialer(y)' => hostc'.dialing
      BY <1>11, <1>14 DEF DialsOnce
    <2>3. \A y, z \in Routines : Dialer(y)' /\ Dialer(z)' => y = z
      BY <1>11 DEF DialsOnce
    <2>4. \A y \in Routines : g'[y].pc = "wait" => hostc'.dialing
      BY <1>13, <1>14
    <2> QED BY <1>14, <1>15, <2>1, <2>2, <2>3, <2>4 DEF DialsOnce
  <1> QED BY <1>6, <1>7, <1>16

\* The retry is started when it is due.
LEMMA ConnectedMoves ==
    ASSUME HostTyped, DialsOnce, NEW x \in Routines, x # "retry", NEW gs, DOMAIN gs = Routines,
           \A y \in Routines : y # x => gs[y] = g[y],
           GoodRoutine(x, gs[x]), gs[x].pc \notin {"dial", "publish"}, gs[x].pc # "wait",
           ConnectedThen(gs)
    PROVE  Moved(x)
  <1>1. "retry" \in Routines
    BY DEF Routines, Background
  <1>2. hostc.retry <=> g["retry"].pc # "idle"
    BY DEF DialsOnce
  <1>3. CASE g' = gs /\ hostc' = hostc
    <2>1. gs["retry"].pc # "idle" <=> g["retry"].pc # "idle"
      BY <1>1
    <2>2. \A y \in Routines : y # x => g'[y] = g[y]
      BY <1>3
    <2>3. hostc'.retry <=> g'["retry"].pc # "idle"
      BY <1>2, <1>3, <2>1
    <2>4. DOMAIN g' = Routines /\ g'[x] = gs[x] /\ hostc' = hostc
      BY <1>3
    <2>5. GoodRoutine(x, g'[x]) /\ g'[x].pc \notin {"dial", "publish"} /\ g'[x].pc # "wait"
      BY <2>4 DEF GoodRoutine, Targets
    <2> QED BY <2>2, <2>3, <2>4, <2>5, Zenon DEF Moved
  <1>4. CASE ~(g' = gs /\ hostc' = hostc)
    <2> DEFINE fresh == [Idle EXCEPT !.pc = "connect"]
    <2>1. RetryDue(hostc) /\ g' = [gs EXCEPT !["retry"] = fresh] /\ hostc' = [hostc EXCEPT !.retry = TRUE]
      BY <1>4 DEF ConnectedThen
    <2>2. ~hostc.retry
      BY <2>1 DEF RetryDue
    <2>3. fresh.pc = "connect"
      BY DEF Idle
    <2> HIDE DEF fresh
    <2>6. /\ DOMAIN g' = Routines /\ g'["retry"] = fresh
          /\ \A y \in Routines : y # "retry" => g'[y] = gs[y]
      BY <1>1, <2>1
    <2>4. g'[x] = gs[x]
      BY <2>6
    <2>7. ASSUME NEW y \in Routines, y # x PROVE g'[y] = g[y] \/ (y = "retry" /\ g'[y] = fresh)
      BY <2>6, <2>7
    <2>8. GoodRoutine(x, g'[x]) /\ g'[x].pc \notin {"dial", "publish"} /\ g'[x].pc # "wait"
      BY <2>4 DEF GoodRoutine, Targets
    <2>5. /\ DOMAIN hostc' = DOMAIN hostc /\ hostc'.bridge = hostc.bridge
          /\ hostc'.dialing = hostc.dialing /\ hostc'.retry
      BY <2>1 DEF HostTyped
    <2> QED BY <2>2, <2>3, <2>5, <2>6, <2>7, <2>8 DEF Moved, fresh
  <1> QED BY <1>3, <1>4

\* One goroutine's record changes and nothing of the host does.
LEMMA AloneMoves ==
    ASSUME HostTyped, RoutinesTyped, DialsOnce, NEW x \in Routines, NEW r, g' = [g EXCEPT ![x] = r], hostc' = hostc,
           GoodRoutine(x, r), r.pc \notin {"dial", "publish"}, r.pc = "wait" => hostc.dialing,
           x = "retry" => (hostc.retry <=> r.pc # "idle")
    PROVE  Moved(x)
  <1>1. DOMAIN g = Routines
    BY DEF RoutinesTyped
  <1>2. DOMAIN g' = Routines /\ g'[x] = r /\ \A y \in Routines : y # x => g'[y] = g[y]
    BY <1>1
  <1>3. "retry" \in Routines
    BY DEF Routines, Background
  <1>4. hostc'.retry <=> g'["retry"].pc # "idle"
    BY <1>2, <1>3 DEF DialsOnce
  <1>5. \A y \in Routines : y # x =>
         \/ g'[y] = g[y]
         \/ y = "retry" /\ ~hostc.retry /\ g'[y] = [Idle EXCEPT !.pc = "connect"]
    BY <1>2
  <1>6. DOMAIN hostc' = DOMAIN hostc /\ hostc'.bridge = hostc.bridge /\ hostc'.dialing = hostc.dialing
    OBVIOUS
  <1>7. GoodRoutine(x, g'[x]) /\ g'[x].pc \notin {"dial", "publish"} /\ (g'[x].pc = "wait" => hostc.dialing)
    BY <1>2 DEF GoodRoutine, Targets
  <1> QED BY <1>2, <1>4, <1>5, <1>6, <1>7, Zenon DEF Moved

\* A goroutine that returned.
LEMMA IdleIsGood == ASSUME NEW x PROVE GoodRoutine(x, Idle) /\ Idle.pc = "idle"
  BY DEF GoodRoutine, Idle

\* A label without a list of daemons or a dial.
LEMMA LabelIsGood ==
    ASSUME NEW x \in Routines, GoodRoutine(x, g[x]),
           NEW pc \in {"connect", "wait", "grab", "clear", "idle", "all", "nil"}, NEW r, r = [g[x] EXCEPT !.pc = pc]
    PROVE  GoodRoutine(x, r) /\ r.pc = pc
  BY DEF GoodRoutine, Idle

\* A failed connect.
LEMMA FailsMoves ==
    ASSUME BridgeTypes, DialsOnce, NEW x \in Routines, ~Dialer(x), g["retry"].pc # "idle" \/ x # "retry",
           ConnectFails(x)
    PROVE  Moved(x)
  <1>0. HostTyped /\ RoutinesTyped /\ GoodRoutine(x, g[x]) /\ DOMAIN g = Routines /\ Targets(connected)
    BY ConnectedTargets DEF BridgeTypes, RoutinesTyped
  <1>1. CASE g[x].by = "narrow" /\ g[x].left = 0
    <2> DEFINE r == [g[x] EXCEPT !.pc = "work", !.todo = connected, !.fan = TRUE]
               gs == [g EXCEPT ![x] = r]
    <2>1. ConnectedThen(gs)
      BY <1>1 DEF ConnectFails
    <2>2. x # "retry"
      BY <1>0, <1>1 DEF GoodRoutine, Background
    <2>3. DOMAIN r = DOMAIN Idle /\ r.pc = "work" /\ r.todo = connected /\ r.by = g[x].by
      BY <1>0 DEF GoodRoutine, Idle
    <2>4. GoodRoutine(x, r)
      BY <1>0, <2>3 DEF GoodRoutine, Targets
    <2> HIDE DEF r
    <2>5. DOMAIN gs = Routines /\ gs[x] = r /\ \A y \in Routines : y # x => gs[y] = g[y]
      BY <1>0
    <2>6. GoodRoutine(x, gs[x]) /\ gs[x].pc = "work"
      BY <2>3, <2>4, <2>5 DEF GoodRoutine, Targets
    <2> HIDE DEF gs
    <2> QED BY <1>0, <2>1, <2>2, <2>5, <2>6, ConnectedMoves
  <1>2. CASE ~(g[x].by = "narrow" /\ g[x].left = 0) /\ x = "retry"
    <2>1. PICK r : r = [g[x] EXCEPT !.pc = "clear"]
      OBVIOUS
    <2>2. g' = [g EXCEPT ![x] = r] /\ hostc' = hostc
      BY <1>2, <2>1 DEF ConnectFails
    <2>3. GoodRoutine(x, r) /\ r.pc = "clear"
      BY <1>0, <2>1, LabelIsGood
    <2>4. hostc.retry
      BY <1>2 DEF DialsOnce
    <2> QED BY <1>0, <2>2, <2>3, <2>4, AloneMoves
  <1>3. CASE ~(g[x].by = "narrow" /\ g[x].left = 0) /\ x # "retry"
    <2>1. g' = [g EXCEPT ![x] = Idle] /\ hostc' = hostc
      BY <1>3 DEF ConnectFails, Return
    <2> QED BY <1>0, <1>3, <2>1, IdleIsGood, AloneMoves
  <1> QED BY <1>1, <1>2, <1>3

\* A connect that found a live bridge.
LEMMA OKMoves ==
    ASSUME BridgeTypes, DialsOnce, NEW x \in Routines, ~Dialer(x), g["retry"].pc # "idle" \/ x # "retry",
           ConnectOK(x), hostc' = hostc
    PROVE  Moved(x)
  <1>0. HostTyped /\ RoutinesTyped /\ GoodRoutine(x, g[x])
    BY DEF BridgeTypes, RoutinesTyped
  <1>1. PICK r : r = [g[x] EXCEPT !.pc = AfterConnect(x)]
    OBVIOUS
  <1>2. AfterConnect(x) \in {"grab", "clear", "idle"} /\ (x = "retry" => AfterConnect(x) = "clear")
    BY BridgeAssumption DEF AfterConnect, Background
  <1>3. GoodRoutine(x, r) /\ r.pc = AfterConnect(x)
    BY <1>0, <1>1, <1>2, LabelIsGood
  <1>4. g' = [g EXCEPT ![x] = r]
    BY <1>1 DEF ConnectOK, Step
  <1>5. x = "retry" => hostc.retry
    BY DEF DialsOnce
  <1> QED BY <1>0, <1>2, <1>3, <1>4, <1>5, AloneMoves

\* What a dial's beginning, its answer and its outcome do to the host.
LEMMA ConnectStep ==
    ASSUME BridgeTypes, DialsOnce, NEW x \in Routines, Connect(x)
    PROVE  RoutinesTyped' /\ HostTyped' /\ DialsOnce'
  <1>0. /\ HostTyped /\ RoutinesTyped /\ GoodRoutine(x, g[x]) /\ g[x].pc = "connect" /\ ~Dialer(x)
        /\ g["retry"].pc # "idle" \/ x # "retry"
        /\ br' = br /\ Len(br) \in Nat /\ DOMAIN g = Routines
    BY DEF BridgeTypes, BridgesTyped, RoutinesTyped, Connect, Dialer
  <1>m. ASSUME Moved(x) PROVE RoutinesTyped' /\ HostTyped' /\ DialsOnce'
    BY <1>0, <1>m, MovedStep
  <1>1. CASE LiveBridge(hostc)
    <2>1. ConnectOK(x) /\ hostc' = hostc
      BY <1>1 DEF Connect
    <2> QED BY <1>0, <1>m, <2>1, OKMoves
  <1>2. CASE ~LiveBridge(hostc) /\ hostc.dialing
    <2>1. PICK r : r = [g[x] EXCEPT !.pc = "wait"]
      OBVIOUS
    <2>2. g' = [g EXCEPT ![x] = r] /\ hostc' = hostc
      BY <1>2, <2>1 DEF Connect
    <2>3. GoodRoutine(x, r) /\ r.pc = "wait"
      BY <1>0, <2>1, LabelIsGood
    <2>4. x = "retry" => hostc.retry
      BY <1>0 DEF DialsOnce
    <2>5. Moved(x)
      BY <1>0, <1>2, <2>2, <2>3, <2>4, AloneMoves
    <2> QED BY <1>m, <2>5
  <1>3. CASE ~LiveBridge(hostc) /\ ~hostc.dialing
    <2> DEFINE dropped == IF hostc.bridge = NoBridge THEN hostc
                          ELSE [hostc EXCEPT !.bridge = NoBridge, !.err = TRUE, !.recent = FALSE]
               r == [g[x] EXCEPT !.pc = "dial", !.conn = hostc.bridge]
    <2>1. CASE x # "initial" /\ dropped.err /\ dropped.recent
      <3>1. ConnectFails(x)
        BY <1>3, <2>1 DEF Connect
      <3> QED BY <1>0, <1>m, <3>1, FailsMoves
    <2>2. CASE ~(x # "initial" /\ dropped.err /\ dropped.recent)
      <3>1. g' = [g EXCEPT ![x] = r] /\ hostc' = [dropped EXCEPT !.recent = TRUE, !.dialing = TRUE]
        BY <1>3, <2>2 DEF Connect
      <3>2. /\ DOMAIN hostc' = DOMAIN hostc /\ hostc'.bridge = NoBridge /\ hostc'.dialing
            /\ hostc'.retry = hostc.retry
        BY <1>0, <3>1 DEF HostTyped, NoBridge
      <3>3. DOMAIN r = DOMAIN Idle /\ r.pc = "dial" /\ r.conn = hostc.bridge /\ r.by = g[x].by
        BY <1>0 DEF GoodRoutine, Idle
      <3>4. GoodRoutine(x, r)
        BY <1>0, <3>3 DEF GoodRoutine, HostTyped
      <3> HIDE DEF r
      <3>5. DOMAIN g' = Routines /\ g'[x] = r /\ \A y \in Routines : y # x => g'[y] = g[y]
        BY <1>0, <3>1
      <3>6. RoutinesTyped'
        <4>1. \A y \in Routines : GoodRoutine(y, g'[y])
          BY <1>0, <3>4, <3>5 DEF GoodRoutine, Targets, RoutinesTyped
        <4>2. \A y, e : GoodRoutine(y, e) => GoodRoutine(y, e)'
          BY <1>0 DEF GoodRoutine, Targets
        <4> QED BY <3>5, <4>1, <4>2 DEF RoutinesTyped
      <3>7. HostTyped'
        BY <1>0, <3>2 DEF HostTyped, NoBridge
      <3>8. \A y \in Routines : Dialer(y)' <=> y = x
        BY <1>3, <3>3, <3>5 DEF DialsOnce, Dialer
      <3>9. ASSUME NEW c \in 2 .. Len(br'), br'[c].open
            PROVE  \E y \in Routines : Dialer(y)' /\ g'[y].conn = c
        <4>1. hostc.bridge = c
          BY <1>0, <1>3, <3>9 DEF DialsOnce
        <4> QED BY <3>3, <3>5, <3>8, <4>1
      <3>10. hostc'.retry <=> g'["retry"].pc # "idle"
        <4>1. "retry" \in Routines
          BY DEF Routines, Background
        <4>2. g'["retry"].pc # "idle" <=> g["retry"].pc # "idle"
          BY <1>0, <3>3, <3>5, <4>1
        <4>3. hostc.retry <=> g["retry"].pc # "idle"
          BY DEF DialsOnce
        <4> QED BY <3>2, <4>2, <4>3
      <3>11. DialsOnce'
        BY <3>2, <3>8, <3>9, <3>10 DEF DialsOnce
      <3> QED BY <3>6, <3>7, <3>11
    <2> QED BY <2>1, <2>2
  <1> QED BY <1>1, <1>2, <1>3

\* The dial closes what was dropped and holds what it made.
LEMMA DialStep ==
    ASSUME BridgeInv, NEW x \in Routines, BridgeDial(x)
    PROVE  BridgeInv'
  <1> DEFINE closed == Released(br, g[x].conn)
  <1>0. /\ HostTyped /\ RoutinesTyped /\ BridgesTyped /\ AsksTyped /\ PendingAwaited /\ DialsOnce
        /\ br \in Seq(BridgeRec) /\ Len(br) \in Nat /\ DOMAIN g = Routines /\ GoodRoutine(x, g[x])
        /\ g[x].pc = "dial" /\ Dialer(x) /\ UNCHANGED <<hostc, asks, nAsks>>
    BY DEF BridgeInv, BridgeTypes, BridgesTyped, RoutinesTyped, BridgeDial, Dialer
  <1>1. hostc.dialing /\ hostc.bridge = NoBridge /\ g[x].conn \in 0 .. Len(br)
    BY <1>0 DEF DialsOnce, GoodRoutine
  <1>2. closed \in Seq(BridgeRec) /\ Len(closed) = Len(br)
    BY <1>0, <1>1, ReleasedFacts
  <1>3. \A c \in 1 .. Len(br) : closed[c].pend = br[c].pend
    BY <1>0, <1>1, ReleasedFacts
  <1>4. \A c \in 1 .. Len(br) : closed[c].dead = br[c].dead
    BY <1>0, <1>1, ReleasedFacts
  <1>o. \A c \in 1 .. Len(br) : c # g[x].conn => closed[c].open = br[c].open
    BY <1>0, <1>1, ReleasedFacts
  <1>5. \A c \in 2 .. Len(br) : ~closed[c].open
    <2> TAKE c \in 2 .. Len(br)
    <2>1. CASE c = g[x].conn
      BY <1>0, <1>1, <2>1, ReleasedFacts
    <2>2. CASE c # g[x].conn
      <3>1. closed[c].open = br[c].open
        BY <1>0, <1>o, <2>2
      <3>2. ~br[c].open
        BY <1>0, <1>1, <2>2 DEF DialsOnce, NoBridge
      <3> QED BY <3>1, <3>2
    <2> QED BY <2>1, <2>2
  <1> HIDE DEF closed
  <1>6. ASSUME NEW conn \in Nat, NEW r, r = [g[x] EXCEPT !.pc = "publish", !.conn = conn],
               g' = [g EXCEPT ![x] = r], conn <= Len(br'), Len(br') \in Nat, Len(br') >= Len(br),
               br' \in Seq(BridgeRec),
               \A c \in 1 .. Len(br) : br'[c].pend = br[c].pend /\ br'[c].dead = br[c].dead,
               \A c \in Len(br) + 1 .. Len(br') : br'[c].pend = {} /\ c = conn,
               \A c \in 2 .. Len(br) : ~br'[c].open
        PROVE  BridgeInv'
    <2>1. PendingAwaited'
      BY <1>0, <1>6, PendingKept
    <2>2. BridgesTyped'
      BY <1>0, <1>6 DEF BridgesTyped
    <2>3. AsksTyped'
      BY <1>0, <1>6 DEF AsksTyped
    <2>4. DOMAIN r = DOMAIN Idle /\ r.pc = "publish" /\ r.conn = conn /\ r.by = g[x].by
      BY <1>0, <1>6 DEF GoodRoutine, Idle
    <2>5. DOMAIN g' = Routines /\ g'[x] = r /\ \A y \in Routines : y # x => g'[y] = g[y]
      BY <1>0, <1>6
    <2>6. RoutinesTyped'
      <3>2. ASSUME NEW y \in Routines PROVE GoodRoutine(y, g[y])'
        <4>1. CASE y = x
          BY <1>0, <1>6, <2>4, <2>5, <4>1 DEF GoodRoutine
        <4>2. CASE y # x
          <5>1. GoodRoutine(y, g[y])
            BY <1>0 DEF RoutinesTyped
          <5>2. g'[y] = g[y]
            BY <2>5, <4>2
          <5> QED BY <1>0, <1>6, <5>1, <5>2 DEF GoodRoutine, Targets
        <4> QED BY <4>1, <4>2
      <3> QED BY <2>5, <3>2 DEF RoutinesTyped
    <2>7. HostTyped'
      BY <1>0, <1>6 DEF HostTyped
    <2>8. \A y \in Routines : Dialer(y)' <=> Dialer(y)
      BY <1>0, <2>4, <2>5 DEF Dialer
    <2>9. \A y \in Routines : g'[y].pc = "wait" => g[y].pc = "wait"
      BY <2>4, <2>5
    <2>10. hostc'.retry <=> g'["retry"].pc # "idle"
      <3>1. "retry" \in Routines
        BY DEF Routines, Background
      <3>2. g'["retry"].pc # "idle" <=> g["retry"].pc # "idle"
        BY <1>0, <2>4, <2>5, <3>1
      <3> QED BY <1>0, <3>2 DEF DialsOnce
    <2>11. ASSUME NEW c \in 2 .. Len(br'), br'[c].open PROVE Dialer(x)' /\ g'[x].conn = c
      BY <1>0, <1>6, <2>4, <2>5, <2>8, <2>11
    <2>12. DialsOnce'
      BY <1>0, <2>8, <2>9, <2>10, <2>11 DEF DialsOnce
    <2> QED BY <2>1, <2>2, <2>3, <2>6, <2>7, <2>12 DEF BridgeInv, BridgeTypes
  <1>7. CASE br' = closed /\ g' = [g EXCEPT ![x].pc = "publish", ![x].conn = NoBridge]
    <2>1. PICK r : r = [g[x] EXCEPT !.pc = "publish", !.conn = 0]
      OBVIOUS
    <2>2. g' = [g EXCEPT ![x] = r]
      BY <1>7, <2>1 DEF NoBridge
    <2>3. /\ br' \in Seq(BridgeRec) /\ Len(br') = Len(br) /\ 0 <= Len(br')
          /\ \A c \in 1 .. Len(br) : br'[c].pend = br[c].pend /\ br'[c].dead = br[c].dead
          /\ \A c \in 2 .. Len(br) : ~br'[c].open
      BY <1>0, <1>2, <1>3, <1>4, <1>5, <1>7
    <2>4. \A c \in Len(br) + 1 .. Len(br') : br'[c].pend = {} /\ c = 0
      BY <1>0, <2>3
    <2>5. Len(br') \in Nat /\ Len(br') >= Len(br) /\ 0 \in Nat
      BY <1>0, <2>3
    <2> QED BY <1>6, <2>1, <2>2, <2>3, <2>4, <2>5
  <1>8. ASSUME NEW old \in BOOLEAN, br' = Append(closed, [Bridge0 EXCEPT !.old = old]),
               g' = [g EXCEPT ![x].pc = "publish", ![x].conn = Len(br) + 1]
        PROVE  BridgeInv'
    <2>1. PICK r : r = [g[x] EXCEPT !.pc = "publish", !.conn = Len(br) + 1]
      OBVIOUS
    <2>2. g' = [g EXCEPT ![x] = r]
      BY <1>8, <2>1
    <2> DEFINE new == [Bridge0 EXCEPT !.old = old]
    <2>3. new \in BridgeRec /\ new.pend = {}
      BY DEF Bridge0, BridgeRec
    <2> HIDE DEF new
    <2>4. /\ br' \in Seq(BridgeRec) /\ Len(br') = Len(br) + 1 /\ br'[Len(br) + 1] = new
          /\ \A c \in 1 .. Len(br) : br'[c] = closed[c]
      BY <1>0, <1>2, <1>8, <2>3 DEF new
    <2>5. /\ \A c \in 1 .. Len(br) : br'[c].pend = br[c].pend
          /\ \A c \in 2 .. Len(br) : ~br'[c].open
      BY <1>0, <1>3, <1>5, <2>4
    <2>6. \A c \in 1 .. Len(br) : br'[c].dead = br[c].dead
      BY <1>0, <1>4, <2>4
    <2>7. \A c \in Len(br) + 1 .. Len(br') : br'[c].pend = {} /\ c = Len(br) + 1
      BY <1>0, <2>3, <2>4
    <2>8. Len(br') \in Nat /\ Len(br') >= Len(br) /\ Len(br) + 1 \in Nat /\ Len(br) + 1 <= Len(br')
      BY <1>0, <2>4
    <2> QED BY <1>6, <2>1, <2>2, <2>4, <2>5, <2>6, <2>7, <2>8
  <1> QED BY <1>7, <1>8 DEF BridgeDial, closed

\* The outcome is published and wakes those who wait.
LEMMA PublishStep ==
    ASSUME BridgeTypes, DialsOnce, NEW x \in Routines, Publish(x)
    PROVE  RoutinesTyped' /\ HostTyped' /\ DialsOnce'
  <1> DEFINE ok == g[x].conn # NoBridge
             pc == IF ok THEN AfterConnect(x)
                   ELSE IF x = "retry" THEN "clear"
                   ELSE IF g[x].by = "narrow" /\ g[x].left = 0 THEN "all" ELSE "idle"
             r == IF pc = "idle" THEN Idle ELSE [g[x] EXCEPT !.pc = pc, !.conn = NoBridge]
  <1>0. /\ HostTyped /\ RoutinesTyped /\ DOMAIN g = Routines /\ GoodRoutine(x, g[x])
        /\ g[x].pc = "publish" /\ Dialer(x) /\ br' = br /\ Len(br) \in Nat
    BY DEF BridgeTypes, BridgesTyped, RoutinesTyped, Publish, Dialer
  <1>1. hostc.dialing /\ hostc.bridge = NoBridge /\ g[x].conn \in 0 .. Len(br) /\ \A y \in Routines : Dialer(y) => y = x
    BY <1>0 DEF DialsOnce, GoodRoutine
  <1>2. g' = [y \in Routines |-> IF y # x THEN [g[y] EXCEPT !.pc = IF @ = "wait" THEN "woken" ELSE @] ELSE r]
    BY DEF Publish
  <1>3. hostc' = [hostc EXCEPT !.dialing = FALSE, !.err = ~ok, !.bridge = IF ok THEN g[x].conn ELSE @]
    BY DEF Publish
  <1>4. DOMAIN hostc' = DOMAIN hostc /\ ~hostc'.dialing /\ hostc'.bridge = g[x].conn /\ hostc'.retry = hostc.retry
    BY <1>0, <1>1, <1>3 DEF HostTyped
  <1>5. pc \in {"grab", "clear", "all", "idle"} /\ (x = "retry" => pc = "clear")
    BY BridgeAssumption DEF AfterConnect, Background
  <1> HIDE DEF pc
  <1>6. r.pc = pc /\ GoodRoutine(x, r)
    BY <1>0, <1>5 DEF GoodRoutine, Idle
  <1> HIDE DEF r
  <1>7. DOMAIN g' = Routines /\ g'[x] = r
    BY <1>2
  <1>8. ASSUME NEW y \in Routines, y # x
        PROVE  /\ DOMAIN g'[y] = DOMAIN g[y] /\ g'[y].by = g[y].by /\ g'[y].todo = g[y].todo /\ g'[y].conn = g[y].conn
               /\ g'[y].pc = IF g[y].pc = "wait" THEN "woken" ELSE g[y].pc
    <2>1. GoodRoutine(y, g[y])
      BY <1>0 DEF RoutinesTyped
    <2>2. g'[y] = [g[y] EXCEPT !.pc = IF @ = "wait" THEN "woken" ELSE @]
      BY <1>2, <1>8
    <2> QED BY <2>1, <2>2 DEF GoodRoutine, Idle
  <1>9. ASSUME NEW y \in Routines PROVE GoodRoutine(y, g'[y])
    <2>1. CASE y = x
      BY <1>6, <1>7, <2>1 DEF GoodRoutine, Targets
    <2>2. CASE y # x
      <3>1. GoodRoutine(y, g[y])
        BY <1>0 DEF RoutinesTyped
      <3> QED BY <1>8, <2>2, <3>1 DEF GoodRoutine, Targets
    <2> QED BY <2>1, <2>2
  <1>10. RoutinesTyped'
    <2>1. \A y, e : GoodRoutine(y, e) => GoodRoutine(y, e)'
      BY <1>0 DEF GoodRoutine, Targets
    <2> QED BY <1>7, <1>9, <2>1 DEF RoutinesTyped
  <1>11. HostTyped'
    BY <1>0, <1>1, <1>4 DEF HostTyped
  <1>12. ASSUME NEW y \in Routines PROVE ~Dialer(y)' /\ g'[y].pc # "wait"
    <2>1. CASE y = x
      BY <1>5, <1>6, <1>7, <2>1 DEF Dialer
    <2>2. CASE y # x
      BY <1>1, <1>8, <2>2 DEF Dialer
    <2> QED BY <2>1, <2>2
  <1>13. hostc'.retry <=> g'["retry"].pc # "idle"
    <2>1. "retry" \in Routines /\ (hostc.retry <=> g["retry"].pc # "idle")
      BY DEF Routines, Background, DialsOnce
    <2>2. g'["retry"].pc # "idle" <=> g["retry"].pc # "idle"
      <3>1. CASE x = "retry"
        BY <1>0, <1>5, <1>6, <1>7, <3>1
      <3>2. CASE x # "retry"
        BY <1>8, <2>1, <3>2
      <3> QED BY <3>1, <3>2
    <2> QED BY <1>4, <2>1, <2>2
  <1>14. ASSUME NEW c \in 2 .. Len(br'), br'[c].open PROVE hostc'.bridge = c
    <2>1. c \in 2 .. Len(br) /\ br[c].open
      BY <1>0, <1>14
    <2>2. \E y \in Routines : Dialer(y) /\ g[y].conn = c
      BY <1>1, <2>1 DEF DialsOnce, NoBridge
    <2> QED BY <1>1, <1>4, <2>2
  <1>15. DialsOnce'
    BY <1>4, <1>12, <1>13, <1>14 DEF DialsOnce
  <1> QED BY <1>10, <1>11, <1>15
-----------------------------------------------------------------------------
(* The handlers. *)

\* Requests, entries and bridges stay while a goroutine moves.
LEMMA StillStep ==
    ASSUME BridgeInv, NEW x \in Routines, ~Dialer(x), Moved(x), UNCHANGED <<br, asks, nAsks>>
    PROVE  BridgeInv'
  <1>1. BridgesTyped /\ AsksTyped /\ PendingAwaited /\ BridgeTypes /\ DialsOnce /\ Len(br) \in Nat
    BY DEF BridgeInv, BridgeTypes, BridgesTyped
  <1>2. BridgesTyped' /\ AsksTyped' /\ PendingAwaited'
    BY <1>1, PendingKept DEF BridgesTyped, AsksTyped
  <1>3. RoutinesTyped' /\ HostTyped' /\ DialsOnce'
    BY <1>1, MovedStep
  <1> QED BY <1>2, <1>3 DEF BridgeInv, BridgeTypes

\* Those who waited.
LEMMA OutcomeStep ==
    ASSUME BridgeInv, NEW x \in Routines, dialOutcome(x)
    PROVE  BridgeInv'
  <1>1. /\ BridgeTypes /\ DialsOnce /\ ~Dialer(x)
        /\ g["retry"].pc # "idle" \/ x # "retry"
        /\ UNCHANGED <<br, asks, nAsks>>
    BY DEF BridgeInv, dialOutcome, Dialer
  <1>2. Moved(x)
    BY <1>1, OKMoves, FailsMoves DEF dialOutcome
  <1> QED BY <1>1, <1>2, StillStep

\* Handlers are not the background goroutines.
LEMMA CallIsNoBackground == ASSUME NEW k \in Calls PROVE k \in Routines /\ k \notin Background /\ k # "retry"
  BY BridgeAssumption DEF Routines, Background

\* The steps of a handler, one by one.
LEMMA AllHostsMoves ==
    ASSUME BridgeInv, NEW k \in Calls, AllHosts(k)
    PROVE  BridgeInv'
  <1>0. /\ HostTyped /\ RoutinesTyped /\ DialsOnce /\ GoodRoutine(k, g[k]) /\ DOMAIN g = Routines /\ Targets(connected)
        /\ k \in Routines /\ k \notin Background /\ k # "retry" /\ ~Dialer(k)
    BY ConnectedTargets, CallIsNoBackground DEF BridgeInv, BridgeTypes, RoutinesTyped, AllHosts, Dialer
  <1> DEFINE r == [g[k] EXCEPT !.pc = "work", !.todo = connected, !.fan = TRUE]
             gs == [g EXCEPT ![k] = r]
  <1>1. ConnectedThen(gs) /\ UNCHANGED <<br, asks, nAsks>>
    BY DEF AllHosts
  <1>2. DOMAIN r = DOMAIN Idle /\ r.pc = "work" /\ r.todo = connected
    BY <1>0 DEF GoodRoutine, Idle
  <1> HIDE DEF r
  <1>3. DOMAIN gs = Routines /\ gs[k] = r /\ \A y \in Routines : y # k => gs[y] = g[y]
    BY <1>0
  <1>4. GoodRoutine(k, gs[k]) /\ gs[k].pc = "work"
    BY <1>0, <1>2, <1>3 DEF GoodRoutine, Targets
  <1> HIDE DEF gs
  <1>5. Moved(k)
    BY <1>0, <1>1, <1>3, <1>4, ConnectedMoves
  <1> QED BY <1>0, <1>1, <1>5, StillStep

\* bridgeFor's second look.
LEMMA GrabStep ==
    ASSUME BridgeInv, NEW k \in Calls, Grab(k)
    PROVE  BridgeInv'
  <1>0. /\ HostTyped /\ RoutinesTyped /\ DialsOnce /\ GoodRoutine(k, g[k]) /\ Len(br) \in Nat
        /\ k \in Routines /\ k \notin Background /\ k # "retry" /\ ~Dialer(k)
        /\ UNCHANGED <<hostc, br, asks, nAsks>>
    BY CallIsNoBackground DEF BridgeInv, BridgeTypes, BridgesTyped, RoutinesTyped, Grab, Dialer
  <1> DEFINE again == [g[k] EXCEPT !.pc = "connect", !.left = 1]
             found == [g[k] EXCEPT !.pc = IF hostc.bridge = NoBridge THEN "nil" ELSE "work", !.todo = <<hostc.bridge>>]
  <1>1. g' = [g EXCEPT ![k] = again] \/ g' = [g EXCEPT ![k] = found]
    BY DEF Grab
  <1>2. GoodRoutine(k, again) /\ again.pc = "connect"
    BY <1>0 DEF GoodRoutine, Idle
  <1>3. found.pc \in {"nil", "work"} /\ GoodRoutine(k, found)
    <2>1. /\ DOMAIN found = DOMAIN Idle /\ found.todo = <<hostc.bridge>>
          /\ found.pc = IF hostc.bridge = NoBridge THEN "nil" ELSE "work"
      BY <1>0 DEF GoodRoutine, Idle
    <2> HIDE DEF found
    <2>2. hostc.bridge # NoBridge => Targets(<<hostc.bridge>>)
      BY <1>0 DEF Targets, HostTyped, NoBridge
    <2> QED BY <1>0, <2>1, <2>2 DEF GoodRoutine, Targets
  <1> HIDE DEF again, found
  <1>4. Moved(k)
    BY <1>0, <1>1, <1>2, <1>3, AloneMoves
  <1> QED BY <1>0, <1>4, StillStep

\* The retry's flag goes with it.
LEMMA RetryEndsStep ==
    ASSUME BridgeInv, RetryEnds
    PROVE  BridgeInv'
  <1>0. /\ HostTyped /\ DOMAIN g = Routines /\ "retry" \in Routines /\ ~Dialer("retry")
        /\ UNCHANGED <<br, asks, nAsks>>
    BY DEF BridgeInv, BridgeTypes, RoutinesTyped, RetryEnds, Dialer, Routines, Background
  <1>1. g' = [g EXCEPT !["retry"] = Idle] /\ hostc' = [hostc EXCEPT !.retry = FALSE]
    BY DEF RetryEnds, Return
  <1>2. DOMAIN g' = Routines /\ g'["retry"] = Idle /\ \A y \in Routines : y # "retry" => g'[y] = g[y]
    BY <1>0, <1>1
  <1>3. DOMAIN hostc' = DOMAIN hostc /\ hostc'.bridge = hostc.bridge /\ hostc'.dialing = hostc.dialing /\ ~hostc'.retry
    BY <1>0, <1>1 DEF HostTyped
  <1>4. GoodRoutine("retry", g'["retry"]) /\ g'["retry"].pc = "idle"
    BY <1>2 DEF GoodRoutine, Idle
  <1>5. Moved("retry")
    BY <1>2, <1>3, <1>4 DEF Moved
  <1> QED BY <1>0, <1>5, StillStep

\* How the tools find their daemon.
LEMMA ToolWays == \A t \in McpTools : t.by \in {"status", "all", "narrow", "watch", "id", "host"}
  BY DEF McpTools, Tool, list_hosts, list_panes, list_tabs, list_projects, list_tasks, get_notifications,
         watch_notifications, dismiss_notifications, close_tui, set_active_pane, read_pane_output,
         get_pane_status, restart_pane, screenshot_pane, switch_tab, destroy_pane, get_memory_report,
         list_sessions, send_to_pane, send_keys, get_pane_memory, create_pane, create_pane_with, create_tab,
         create_project, update_project, destroy_project, switch_project, rename_tab, destroy_tab,
         rename_pane, list_plugins, delegate_task, get_task, wait_task

\* A tool call begins.
LEMMA CallStep ==
    ASSUME BridgeInv, NEW k \in Calls, NEW by \in {t.by : t \in McpTools}, NEW remote \in BOOLEAN,
           Call(k, by, remote)
    PROVE  BridgeInv'
  <1>0. /\ HostTyped /\ BridgesTyped /\ RoutinesTyped /\ DialsOnce /\ GoodRoutine(k, g[k]) /\ DOMAIN g = Routines
        /\ k \in Routines /\ k \notin Background /\ k # "retry" /\ ~Dialer(k) /\ g[k].pc = "idle"
        /\ UNCHANGED <<br, asks, nAsks>> /\ Targets(connected) /\ Targets(<<LocalBridge>>)
    BY CallIsNoBackground, ConnectedTargets DEF BridgeInv, BridgeTypes, RoutinesTyped, Call, Dialer
  <1> DEFINE toRemote == remote \/ (known /\ by \in {"id", "narrow", "watch"})
             way == IF by = "watch" \/ (by = "narrow" /\ toRemote /\ ~remote) THEN by ELSE "one"
             begun == [Idle EXCEPT !.by = way]
             toHost == [begun EXCEPT !.pc = "connect"]
             toAll(todo) == [begun EXCEPT !.pc = "work", !.fan = TRUE, !.todo = todo]
             toLocal == [begun EXCEPT !.pc = "work", !.todo = <<LocalBridge>>]
  <1>1. by \in {"status", "all", "narrow", "watch", "id", "host"}
    BY ToolWays
  <1>2. \/ ConnectedThen(g)
        \/ g' = [g EXCEPT ![k] = toHost] /\ hostc' = hostc
        \/ \E todo \in {connected, <<LocalBridge>>} : ConnectedThen([g EXCEPT ![k] = toAll(todo)])
        \/ g' = [g EXCEPT ![k] = toLocal] /\ hostc' = hostc
    <2>1. CASE by = "status"
      BY <2>1 DEF Call
    <2>2. CASE by # "status" /\ toRemote
      BY <2>2 DEF Call
    <2>3. CASE by \in {"all", "narrow", "watch"} /\ ~toRemote
      <3>1. \E todo \in {connected} \cup (IF by = "watch" THEN {<<LocalBridge>>} ELSE {}) :
              ConnectedThen([g EXCEPT ![k] = toAll(todo)])
        BY <2>3 DEF Call
      <3> QED BY <3>1
    <2>4. CASE by \in {"id", "host"} /\ ~toRemote
      BY <2>4 DEF Call
    <2> QED BY <1>1, <2>1, <2>2, <2>3, <2>4
  <1>3. GoodRoutine(k, toHost) /\ toHost.pc = "connect"
    BY <1>0 DEF GoodRoutine, Idle
  <1>4. GoodRoutine(k, toLocal) /\ toLocal.pc = "work"
    <2>1. DOMAIN toLocal = DOMAIN Idle /\ toLocal.pc = "work" /\ toLocal.todo = <<LocalBridge>>
      BY DEF Idle
    <2> QED BY <1>0, <2>1 DEF GoodRoutine, Targets
  <1>5. ASSUME NEW todo, Targets(todo) PROVE GoodRoutine(k, toAll(todo)) /\ toAll(todo).pc = "work"
    <2>1. DOMAIN toAll(todo) = DOMAIN Idle /\ toAll(todo).pc = "work" /\ toAll(todo).todo = todo
      BY DEF Idle
    <2> QED BY <1>0, <1>5, <2>1 DEF GoodRoutine, Targets
  <1> HIDE DEF toHost, toAll, toLocal
  <1>6. ASSUME ConnectedThen(g) PROVE Moved(k)
    BY <1>0, <1>6, ConnectedMoves
  <1>7. ASSUME NEW todo \in {connected, <<LocalBridge>>}, ConnectedThen([g EXCEPT ![k] = toAll(todo)])
        PROVE  Moved(k)
    <2> DEFINE r == toAll(todo)
               gs == [g EXCEPT ![k] = r]
    <2>1. Targets(todo)
      BY <1>0 DEF Targets
    <2>2. GoodRoutine(k, r) /\ r.pc = "work"
      BY <1>5, <2>1
    <2> HIDE DEF r
    <2>3. DOMAIN gs = Routines /\ gs[k] = r /\ \A y \in Routines : y # k => gs[y] = g[y]
      BY <1>0
    <2>4. GoodRoutine(k, gs[k]) /\ gs[k].pc = "work"
      BY <2>2, <2>3 DEF GoodRoutine, Targets
    <2>5. ConnectedThen(gs)
      BY <1>7 DEF r
    <2> HIDE DEF gs
    <2> QED BY <1>0, <2>3, <2>4, <2>5, ConnectedMoves
  <1>8. Moved(k)
    BY <1>0, <1>2, <1>3, <1>4, <1>6, <1>7, AloneMoves
  <1> QED BY <1>0, <1>8, StillStep

\* A goroutine moves while requests do.
LEMMA MovesWithAsks ==
    ASSUME BridgeInv, NEW x \in Routines, ~Dialer(x), Moved(x), BridgesTyped', AsksTyped', PendingAwaited',
           Len(br') = Len(br), \A c \in 1 .. Len(br) : br'[c].open => br[c].open
    PROVE  BridgeInv'
  <1>1. BridgeTypes /\ DialsOnce
    BY DEF BridgeInv
  <1>2. RoutinesTyped' /\ HostTyped' /\ DialsOnce'
    BY <1>1, MovedStep
  <1> QED BY <1>2 DEF BridgeInv, BridgeTypes

\* Requests move and no goroutine does.
LEMMA AsksAlone ==
    ASSUME BridgeInv, g' = g, DOMAIN hostc' = DOMAIN hostc, hostc'.bridge = hostc.bridge,
           hostc'.dialing = hostc.dialing, hostc'.retry = hostc.retry,
           BridgesTyped', AsksTyped', PendingAwaited',
           Len(br') = Len(br), \A c \in 1 .. Len(br) : br'[c].open => br[c].open
    PROVE  BridgeInv'
  <1>1. RoutinesTyped' /\ HostTyped'
    BY DEF BridgeInv, BridgeTypes, RoutinesTyped, GoodRoutine, Targets, HostTyped
  <1>2. \A y : Dialer(y)' <=> Dialer(y)
    BY DEF Dialer
  <1>3. Len(br) \in Nat
    BY DEF BridgeInv, BridgeTypes, BridgesTyped
  <1>4. ASSUME NEW c \in 2 .. Len(br'), br'[c].open
        PROVE  hostc'.bridge = c \/ \E y \in Routines : Dialer(y)' /\ g'[y].conn = c
    BY <1>2, <1>3, <1>4 DEF BridgeInv, DialsOnce
  <1>5. DialsOnce'
    BY <1>2, <1>4 DEF BridgeInv, DialsOnce
  <1> QED BY <1>1, <1>5 DEF BridgeInv, BridgeTypes

\* A handler goes on to its next daemon, or returns.
LEMMA NextIsGood ==
    ASSUME BridgeInv, NEW k \in Calls, g[k].pc \in {"work", "await"}, NEW tool, NEW r,
           r = NextTarget(k, tool) \/ r = Idle
    PROVE  GoodRoutine(k, r) /\ r.pc \in {"idle", "work"}
  <1>1. k \in Routines /\ k \notin Background /\ GoodRoutine(k, g[k]) /\ Targets(g[k].todo)
    BY CallIsNoBackground DEF BridgeInv, BridgeTypes, RoutinesTyped, GoodRoutine
  <1>2. CASE r = Idle
    BY <1>2 DEF GoodRoutine, Idle
  <1>3. CASE r # Idle
    <2>1. r = [g[k] EXCEPT !.todo = Tail(@), !.pc = "work", !.left = 0, !.tool = tool] /\ Len(g[k].todo) # 1
      BY <1>3 DEF NextTarget
    <2>2. DOMAIN r = DOMAIN Idle /\ r.pc = "work" /\ r.todo = Tail(g[k].todo)
      BY <1>1, <2>1 DEF GoodRoutine, Idle
    <2>3. Targets(Tail(g[k].todo))
      BY <1>1, <2>1, TailTargets
    <2> QED BY <1>1, <2>2, <2>3 DEF GoodRoutine, Targets
  <1> QED BY <1>2, <1>3

\* A daemon refuses.
LEMMA HostErrorMoves ==
    ASSUME BridgeInv, NEW k \in Calls, g[k].pc \in {"work", "await"}, NEW c, NEW tool, HostError(k, c, tool),
           hostc' = hostc
    PROVE  Moved(k)
  <1>1. PICK r : r = (IF Skips(k, c) THEN NextTarget(k, tool) ELSE Idle)
    OBVIOUS
  <1>2. g' = [g EXCEPT ![k] = r] /\ (r = NextTarget(k, tool) \/ r = Idle)
    BY <1>1 DEF HostError
  <1>3. GoodRoutine(k, r) /\ r.pc \in {"idle", "work"}
    BY <1>2, NextIsGood
  <1> QED BY <1>2, <1>3, CallIsNoBackground, AloneMoves DEF BridgeInv, BridgeTypes

\* A new request, and a handler that waits for it.
LEMMA AskMade ==
    ASSUME BridgeInv, NEW k \in Calls, NEW c \in 1 .. Len(br),
           asks' = asks \cup {Ask(k, nAsks[k] + 1, c)}, br' = Registered(br, {Ask(k, nAsks[k] + 1, c)}),
           nAsks' = [nAsks EXCEPT ![k] = nAsks[k] + 1]
    PROVE  /\ BridgesTyped' /\ AsksTyped' /\ PendingAwaited' /\ Len(br') = Len(br)
           /\ \A d \in 1 .. Len(br) : br'[d].open = br[d].open
  <1>0. BridgesTyped /\ AsksTyped /\ PendingAwaited
    BY DEF BridgeInv, BridgeTypes
  <1>1. nAsks[k] \in Nat /\ Len(br) \in Nat
    BY <1>0 DEF AsksTyped, BridgesTyped
  <1>2. PICK m, as : m = nAsks[k] + 1 /\ as = {Ask(k, nAsks[k] + 1, c)}
    OBVIOUS
  <1>3. m \in Nat /\ m >= nAsks[k]
    BY <1>1, <1>2
  <1>4. as \in SUBSET AskRec
    BY <1>1, <1>2 DEF Ask, AskRec
  <1>5. \A a \in as : /\ a.k = k /\ a.c \in 1 .. Len(br) /\ a.n > nAsks[k] /\ a.n <= m
                      /\ a.st = "made" /\ ~a.closed
    BY <1>1, <1>2 DEF Ask
  <1>6. \A a, b \in as : a.n = b.n => a = b
    BY <1>2
  <1>7. asks' = asks \cup as /\ br' = Registered(br, as) /\ nAsks' = [nAsks EXCEPT ![k] = m]
    BY <1>2
  <1> QED BY <1>0, <1>3, <1>4, <1>5, <1>6, <1>7, AsksAdded

\* The next daemon is asked.
LEMMA WorkStep ==
    ASSUME BridgeInv, NEW k \in Calls, Work(k)
    PROVE  BridgeInv'
  <1> DEFINE c == Head(g[k].todo)
  <1>0. /\ HostTyped /\ BridgesTyped /\ RoutinesTyped /\ AsksTyped /\ PendingAwaited /\ DialsOnce
        /\ GoodRoutine(k, g[k]) /\ Len(br) \in Nat
        /\ k \in Routines /\ k \notin Background /\ k # "retry" /\ ~Dialer(k) /\ g[k].pc = "work"
        /\ Targets(g[k].todo) /\ nAsks[k] \in Nat /\ hostc' = hostc
    BY CallIsNoBackground DEF BridgeInv, BridgeTypes, BridgesTyped, AsksTyped, RoutinesTyped, Work,
       Dialer, GoodRoutine
  <1>1. c \in 1 .. Len(br)
    BY <1>0, TailTargets
  <1>2. PICK tool \in MayRun(k) :
          \/ HostError(k, c, tool) /\ UNCHANGED <<br, asks, nAsks>>
          \/ LET as == {Ask(k, nAsks[k] + 1 + i - 1, g[k].todo[i]) : i \in DOMAIN g[k].todo}
             IN  /\ asks' = asks \cup as /\ br' = Registered(br, as)
                 /\ nAsks' = [nAsks EXCEPT ![k] = @ + Len(g[k].todo)]
                 /\ g' = [g EXCEPT ![k].pc = "watch", ![k].left = Len(g[k].todo)]
          \/ Return(k) /\ UNCHANGED <<br, asks, nAsks>>
          \/ /\ asks' = asks \cup {Ask(k, nAsks[k] + 1, c)} /\ br' = Registered(br, {Ask(k, nAsks[k] + 1, c)})
             /\ nAsks' = [nAsks EXCEPT ![k] = nAsks[k] + 1]
             /\ g' = [g EXCEPT ![k].pc = "await", ![k].left = tool.asks - 1, ![k].by = "one",
                               ![k].tool = Kept(k, tool)]
    BY Zenon DEF Work
  <1>3. CASE HostError(k, c, tool) /\ UNCHANGED <<br, asks, nAsks>>
    BY <1>0, <1>3, HostErrorMoves, StillStep
  <1>4. CASE Return(k) /\ UNCHANGED <<br, asks, nAsks>>
    <2>1. Moved(k)
      BY <1>0, <1>4, IdleIsGood, AloneMoves DEF Return
    <2> QED BY <1>0, <1>4, <2>1, StillStep
  <1>5. ASSUME NEW as, as = {Ask(k, nAsks[k] + 1 + i - 1, g[k].todo[i]) : i \in DOMAIN g[k].todo},
               asks' = asks \cup as, br' = Registered(br, as),
               nAsks' = [nAsks EXCEPT ![k] = @ + Len(g[k].todo)],
               g' = [g EXCEPT ![k].pc = "watch", ![k].left = Len(g[k].todo)]
        PROVE  BridgeInv'
    <2>1. PICK m : m = nAsks[k] + Len(g[k].todo)
      OBVIOUS
    <2>2. /\ DOMAIN g[k].todo = 1 .. Len(g[k].todo) /\ Len(g[k].todo) \in Nat
          /\ \A i \in 1 .. Len(g[k].todo) : g[k].todo[i] \in 1 .. Len(br)
      BY <1>0 DEF Targets
    <2>3. m \in Nat /\ m >= nAsks[k]
      BY <1>0, <2>1, <2>2
    <2>4. \A i \in 1 .. Len(g[k].todo) :
             LET a == Ask(k, nAsks[k] + 1 + i - 1, g[k].todo[i])
             IN  /\ a \in AskRec /\ a.k = k /\ a.c \in 1 .. Len(br) /\ a.n = nAsks[k] + i
                 /\ a.st = "made" /\ ~a.closed
      <3> SUFFICES ASSUME NEW i \in 1 .. Len(g[k].todo), NEW n, n = nAsks[k] + 1 + i - 1,
                          NEW d, d = g[k].todo[i], NEW a, a = Ask(k, n, d)
                   PROVE  /\ a \in AskRec /\ a.k = k /\ a.c \in 1 .. Len(br) /\ a.n = nAsks[k] + i
                          /\ a.st = "made" /\ ~a.closed
        OBVIOUS
      <3>1. k \in Calls /\ n \in Nat /\ n = nAsks[k] + i /\ d \in 1 .. Len(br) /\ d \in Nat
        BY <1>0, <2>2 DEF Routines
      <3> QED BY <3>1 DEF Ask, AskRec
    <2>5. \A a \in as : \E i \in 1 .. Len(g[k].todo) : a = Ask(k, nAsks[k] + 1 + i - 1, g[k].todo[i])
      BY <1>5, <2>2
    <2>6. as \in SUBSET AskRec
      BY <2>4, <2>5
    <2>7. \A a \in as : /\ a.k = k /\ a.c \in 1 .. Len(br) /\ a.n > nAsks[k] /\ a.n <= m
                        /\ a.st = "made" /\ ~a.closed
      <3> TAKE a \in as
      <3>1. PICK i \in 1 .. Len(g[k].todo) : a = Ask(k, nAsks[k] + 1 + i - 1, g[k].todo[i])
        BY <2>5
      <3>2. /\ a.k = k /\ a.c \in 1 .. Len(br) /\ a.n = nAsks[k] + i /\ a.st = "made" /\ ~a.closed
        BY <2>4, <3>1
      <3> QED BY <1>0, <2>1, <2>2, <3>2
    <2>8. \A a, b \in as : a.n = b.n => a = b
      <3> SUFFICES ASSUME NEW a \in as, NEW b \in as, a.n = b.n PROVE a = b
        OBVIOUS
      <3>1. PICK i \in 1 .. Len(g[k].todo) : a = Ask(k, nAsks[k] + 1 + i - 1, g[k].todo[i])
        BY <2>5
      <3>2. PICK j \in 1 .. Len(g[k].todo) : b = Ask(k, nAsks[k] + 1 + j - 1, g[k].todo[j])
        BY <2>5
      <3>3. a.n = nAsks[k] + i /\ b.n = nAsks[k] + j
        BY <2>4, <3>1, <3>2
      <3>4. i = j
        <4>1. nAsks[k] + i = nAsks[k] + j
          BY <3>3
        <4>2. nAsks[k] \in Int /\ i \in Int /\ j \in Int
          BY <1>0, <2>2
        <4> QED BY <4>1, <4>2
      <3> QED BY <3>1, <3>2, <3>4
    <2>9. nAsks' = [nAsks EXCEPT ![k] = m]
      BY <1>5, <2>1
    <2>10. /\ BridgesTyped' /\ AsksTyped' /\ PendingAwaited' /\ Len(br') = Len(br)
           /\ \A d \in 1 .. Len(br) : br'[d].open = br[d].open
      <3>1. asks' = asks \cup as /\ br' = Registered(br, as)
        BY <1>5
      <3> QED BY <1>0, <2>3, <2>6, <2>7, <2>8, <2>9, <3>1, AsksAdded
    <2>11. PICK r : r = [g[k] EXCEPT !.pc = "watch", !.left = Len(g[k].todo)]
      OBVIOUS
    <2>12. g' = [g EXCEPT ![k] = r]
      BY <1>5, <2>11
    <2>13. DOMAIN r = DOMAIN Idle /\ r.pc = "watch" /\ r.todo = g[k].todo
      BY <1>0, <2>11 DEF GoodRoutine, Idle
    <2>14. GoodRoutine(k, r)
      BY <1>0, <2>13 DEF GoodRoutine, Targets
    <2>15. Moved(k)
      BY <1>0, <2>12, <2>13, <2>14, AloneMoves
    <2> QED BY <1>0, <2>10, <2>15, MovesWithAsks
  <1>6. CASE /\ asks' = asks \cup {Ask(k, nAsks[k] + 1, c)} /\ br' = Registered(br, {Ask(k, nAsks[k] + 1, c)})
             /\ nAsks' = [nAsks EXCEPT ![k] = nAsks[k] + 1]
             /\ g' = [g EXCEPT ![k].pc = "await", ![k].left = tool.asks - 1, ![k].by = "one",
                               ![k].tool = Kept(k, tool)]
    <2>1. /\ BridgesTyped' /\ AsksTyped' /\ PendingAwaited' /\ Len(br') = Len(br)
          /\ \A d \in 1 .. Len(br) : br'[d].open = br[d].open
      BY <1>1, <1>6, AskMade
    <2>2. PICK r : r = [g[k] EXCEPT !.pc = "await", !.left = tool.asks - 1, !.by = "one", !.tool = Kept(k, tool)]
      OBVIOUS
    <2>3. g' = [g EXCEPT ![k] = r]
      BY <1>6, <2>2
    <2>4. DOMAIN r = DOMAIN Idle /\ r.pc = "await" /\ r.todo = g[k].todo
      BY <1>0, <2>2 DEF GoodRoutine, Idle
    <2>5. GoodRoutine(k, r)
      BY <1>0, <2>4 DEF GoodRoutine, Targets
    <2>6. Moved(k)
      BY <1>0, <2>3, <2>4, <2>5, AloneMoves
    <2> QED BY <1>0, <2>1, <2>6, MovesWithAsks
  <1> QED BY <1>2, <1>3, <1>4, <1>5, <1>6

\* The second round trip.
LEMMA AgainStep ==
    ASSUME BridgeInv, NEW k \in Calls, AskAgain(k)
    PROVE  BridgeInv'
  <1>0. /\ HostTyped /\ RoutinesTyped /\ DialsOnce /\ GoodRoutine(k, g[k])
        /\ k \in Routines /\ k \notin Background /\ k # "retry" /\ ~Dialer(k)
        /\ Targets(g[k].todo) /\ hostc' = hostc
    BY CallIsNoBackground DEF BridgeInv, BridgeTypes, RoutinesTyped, AskAgain, Dialer, GoodRoutine
  <1>1. Head(g[k].todo) \in 1 .. Len(br)
    BY <1>0, TailTargets
  <1>2. /\ asks' = asks \cup {Ask(k, nAsks[k] + 1, Head(g[k].todo))}
        /\ br' = Registered(br, {Ask(k, nAsks[k] + 1, Head(g[k].todo))})
        /\ nAsks' = [nAsks EXCEPT ![k] = nAsks[k] + 1]
    BY DEF AskAgain
  <1>3. /\ BridgesTyped' /\ AsksTyped' /\ PendingAwaited' /\ Len(br') = Len(br)
        /\ \A d \in 1 .. Len(br) : br'[d].open = br[d].open
    BY <1>1, <1>2, AskMade
  <1>4. PICK r : r = [g[k] EXCEPT !.pc = "await", !.left = 0]
    OBVIOUS
  <1>5. g' = [g EXCEPT ![k] = r]
    BY <1>4 DEF AskAgain
  <1>6. DOMAIN r = DOMAIN Idle /\ r.pc = "await" /\ r.todo = g[k].todo
    BY <1>0, <1>4 DEF GoodRoutine, Idle
  <1>7. GoodRoutine(k, r)
    BY <1>0, <1>6 DEF GoodRoutine, Targets
  <1>8. Moved(k)
    BY <1>0, <1>5, <1>6, <1>7, AloneMoves
  <1> QED BY <1>0, <1>3, <1>8, MovesWithAsks

\* An answer or an error reaches its handler.
LEMMA AnsweredStep ==
    ASSUME BridgeInv, NEW k \in Calls, AskEnds(k) \/ WatchResult(k)
    PROVE  BridgeInv'
  <1>0. /\ HostTyped /\ RoutinesTyped /\ BridgesTyped /\ AsksTyped /\ PendingAwaited /\ DialsOnce
        /\ GoodRoutine(k, g[k]) /\ k \in Routines /\ k \notin Background /\ k # "retry" /\ ~Dialer(k)
        /\ g[k].pc \in {"await", "watch"} /\ Targets(g[k].todo) /\ UNCHANGED <<hostc, br, nAsks>>
    BY CallIsNoBackground
       DEF BridgeInv, BridgeTypes, RoutinesTyped, AskEnds, WatchResult, Dialer, GoodRoutine
  <1>1. PICK a \in asks : a.st \in {"answer", "error"} /\ asks' = asks \ {a}
    BY DEF AskEnds, WatchResult
  <1>2. BridgesTyped' /\ AsksTyped' /\ PendingAwaited'
    BY <1>0, <1>1, AskDropped
  <1>4. CASE AskEnds(k)
    <2>0. g[k].pc = "await"
      BY <1>4 DEF AskEnds
    <2>1. \/ \E c, tool : HostError(k, c, tool)
          \/ g' = [g EXCEPT ![k] = IF g[k].left > 0 THEN [@ EXCEPT !.pc = "again"] ELSE NextTarget(k, g[k].tool)]
      BY <1>4 DEF AskEnds
    <2>2. ASSUME NEW c, NEW tool, HostError(k, c, tool) PROVE Moved(k)
      <3>2. hostc' = hostc
        BY <1>0
      <3> QED BY <2>0, <2>2, <3>2, HostErrorMoves
    <2>3. ASSUME g' = [g EXCEPT ![k] = IF g[k].left > 0 THEN [@ EXCEPT !.pc = "again"] ELSE NextTarget(k, g[k].tool)]
          PROVE  Moved(k)
      <3>1. PICK r : r = (IF g[k].left > 0 THEN [g[k] EXCEPT !.pc = "again"] ELSE NextTarget(k, g[k].tool))
        OBVIOUS
      <3>2. g' = [g EXCEPT ![k] = r]
        BY <2>3, <3>1
      <3>3. GoodRoutine(k, r) /\ r.pc \in {"again", "idle", "work"}
        <4>1. CASE g[k].left > 0
          <5>1. DOMAIN r = DOMAIN Idle /\ r.pc = "again" /\ r.todo = g[k].todo
            BY <1>0, <3>1, <4>1 DEF GoodRoutine, Idle
          <5> QED BY <1>0, <5>1 DEF GoodRoutine, Targets
        <4>2. CASE ~(g[k].left > 0)
          BY <2>0, <3>1, <4>2, NextIsGood
        <4> QED BY <4>1, <4>2
      <3>4. hostc' = hostc /\ r.pc \notin {"dial", "publish"} /\ r.pc # "wait"
        BY <1>0, <3>3
      <3> QED BY <1>0, <3>2, <3>3, <3>4, AloneMoves
    <2>4. Moved(k)
      BY <2>1, <2>2, <2>3
    <2> QED BY <1>0, <1>2, <2>4, MovesWithAsks
  <1>5. CASE WatchResult(k)
    <2>0. g[k].pc = "watch"
      BY <1>5 DEF WatchResult
    <2>4. \/ g' = [g EXCEPT ![k] = Idle]
          \/ g' = [g EXCEPT ![k] = [g[k] EXCEPT !.left = g[k].left - 1]]
      BY <1>5 DEF WatchResult, Return
    <2>1. PICK r : /\ r = Idle \/ r = [g[k] EXCEPT !.left = g[k].left - 1]
                   /\ g' = [g EXCEPT ![k] = r]
      BY <2>4
    <2>2. GoodRoutine(k, r) /\ r.pc \in {"idle", "watch"}
      <3>1. CASE r = Idle
        BY <3>1, IdleIsGood
      <3>2. CASE r = [g[k] EXCEPT !.left = g[k].left - 1]
        <4>1. DOMAIN r = DOMAIN Idle /\ r.pc = "watch" /\ r.todo = g[k].todo
          BY <1>0, <2>0, <3>2 DEF GoodRoutine, Idle
        <4> QED BY <1>0, <4>1 DEF GoodRoutine, Targets
      <3> QED BY <2>1, <3>1, <3>2
    <2>3. Moved(k)
      BY <1>0, <2>1, <2>2, AloneMoves
    <2> QED BY <1>0, <1>2, <2>3, MovesWithAsks
  <1> QED BY <1>4, <1>5
-----------------------------------------------------------------------------
(* The requests and the readers. *)

\* client.Send, or its failure.
LEMMA SendStep ==
    ASSUME BridgeInv, NEW a \in asks, SendAsk(a)
    PROVE  BridgeInv'
  <1>0. /\ BridgesTyped /\ AsksTyped /\ PendingAwaited /\ br \in Seq(BridgeRec) /\ Len(br) \in Nat
        /\ a \in AskRec /\ a.c \in 1 .. Len(br) /\ a.st = "made" /\ UNCHANGED <<g, hostc, nAsks>>
    BY DEF BridgeInv, BridgeTypes, BridgesTyped, AsksTyped, SendAsk
  <1>1. CASE br' = Forget(br, a) /\ Becomes(a, [a EXCEPT !.st = "error", !.closed = FALSE])
    <2>1. PICK b : b = [a EXCEPT !.st = "error", !.closed = FALSE]
      OBVIOUS
    <2>2. b \in AskRec /\ b.k = a.k /\ b.n = a.n /\ b.c = a.c /\ b.st = "error"
      BY <1>0, <2>1 DEF AskRec
    <2>3. /\ br' \in Seq(BridgeRec) /\ Len(br') = Len(br) /\ br'[a.c].pend = br[a.c].pend \ {Id(a)}
          /\ \A d \in 1 .. Len(br) : d # a.c => br'[d] = br[d]
      BY <1>0, <1>1, ForgetFacts
    <2>4. br'[a.c].dead = br[a.c].dead
      BY <1>0, <1>1, ForgetFacts
    <2>5. br'[a.c].open = br[a.c].open
      BY <1>0, <1>1, ForgetFacts
    <2>6. \A d \in 1 .. Len(br) : br'[d].dead = br[d].dead /\ (d # a.c => br'[d].pend = br[d].pend)
      BY <2>3, <2>4
    <2>7. \A d \in 1 .. Len(br) : br'[d].open = br[d].open
      BY <2>3, <2>5
    <2>8. asks' = (asks \ {a}) \cup {b}
      BY <1>1, <2>1 DEF Becomes
    <2>9. BridgesTyped' /\ AsksTyped' /\ PendingAwaited'
      BY <1>0, <2>2, <2>3, <2>6, <2>8, AskMoved
    <2> QED BY <1>0, <2>3, <2>7, <2>9, AsksAlone
  <1>2. CASE /\ br' = [br EXCEPT ![a.c].sent = @ \cup {Id(a)}]
             /\ Becomes(a, [a EXCEPT !.st = IF a.closed THEN "error" ELSE "sent", !.closed = FALSE])
    <2>1. PICK b : b = [a EXCEPT !.st = IF a.closed THEN "error" ELSE "sent", !.closed = FALSE]
      OBVIOUS
    <2>2. /\ b \in AskRec /\ b.k = a.k /\ b.n = a.n /\ b.c = a.c /\ ~b.closed
          /\ b.st = IF a.closed THEN "error" ELSE "sent"
      BY <1>0, <2>1 DEF AskRec
    <2> DEFINE q == [br[a.c] EXCEPT !.sent = @ \cup {Id(a)}]
    <2>3. br[a.c] \in BridgeRec /\ Id(a) \in AskIds
      BY <1>0 DEF AskRec, AskIds, Id
    <2>4. q \in BridgeRec /\ q.pend = br[a.c].pend
      BY <2>3 DEF BridgeRec
    <2>5. q.dead = br[a.c].dead /\ q.open = br[a.c].open
      BY <2>3 DEF BridgeRec
    <2>6. br' = [br EXCEPT ![a.c] = q]
      BY <1>2
    <2> HIDE DEF q
    <2>7. /\ br' \in Seq(BridgeRec) /\ Len(br') = Len(br) /\ br'[a.c] = q
          /\ \A d \in 1 .. Len(br) : d # a.c => br'[d] = br[d]
      BY <1>0, <2>4, <2>6, BridgeExcept
    <2>8. \A d \in 1 .. Len(br) : br'[d].pend = br[d].pend
      BY <2>4, <2>7
    <2>9. \A d \in 1 .. Len(br) : br'[d].dead = br[d].dead
      BY <2>5, <2>7
    <2>10. \A d \in 1 .. Len(br) : br'[d].open = br[d].open
      BY <2>5, <2>7
    <2>11. asks' = (asks \ {a}) \cup {b}
      BY <1>2, <2>1 DEF Becomes
    <2>12. a.closed => Id(a) \notin br[a.c].pend
      <3> SUFFICES ASSUME a.closed, Id(a) \in br[a.c].pend PROVE FALSE
        OBVIOUS
      <3>1. PICK e \in asks : Id(e) = Id(a) /\ ~e.closed
        BY <1>0 DEF PendingAwaited
      <3>2. e.k = a.k /\ e.n = a.n
        BY <3>1 DEF Id
      <3> QED BY <1>0, <3>1, <3>2 DEF PendingAwaited
    <2>13. \/ br'[a.c].pend = br[a.c].pend /\ b.st = "sent" /\ ~b.closed
           \/ br'[a.c].pend = br[a.c].pend /\ b.st # "made" /\ Id(a) \notin br[a.c].pend
      BY <1>0, <2>2, <2>8, <2>12
    <2>14. \A d \in 1 .. Len(br) : br'[d].dead = br[d].dead /\ (d # a.c => br'[d].pend = br[d].pend)
      BY <2>8, <2>9
    <2>15. BridgesTyped' /\ AsksTyped' /\ PendingAwaited'
      BY <1>0, <2>2, <2>7, <2>11, <2>13, <2>14, AskMoved
    <2> QED BY <1>0, <2>7, <2>10, <2>15, AsksAlone
  <1> QED BY <1>1, <1>2 DEF SendAsk

\* The timer's arm.
LEMMA TimeoutStep ==
    ASSUME BridgeInv, NEW a \in asks, AskTimesOut(a)
    PROVE  BridgeInv'
  <1>0. /\ BridgesTyped /\ AsksTyped /\ PendingAwaited /\ br \in Seq(BridgeRec) /\ Len(br) \in Nat
        /\ a \in AskRec /\ a.c \in 1 .. Len(br) /\ UNCHANGED <<g, hostc, nAsks>>
        /\ br' = Forget(br, a)
    BY DEF BridgeInv, BridgeTypes, BridgesTyped, AsksTyped, AskTimesOut
  <1>1. PICK b : b = [a EXCEPT !.st = "error"]
    OBVIOUS
  <1>2. b \in AskRec /\ b.k = a.k /\ b.n = a.n /\ b.c = a.c /\ b.st = "error"
    BY <1>0, <1>1 DEF AskRec
  <1>3. /\ br' \in Seq(BridgeRec) /\ Len(br') = Len(br) /\ br'[a.c].pend = br[a.c].pend \ {Id(a)}
        /\ \A d \in 1 .. Len(br) : d # a.c => br'[d] = br[d]
    BY <1>0, ForgetFacts
  <1>4. br'[a.c].dead = br[a.c].dead
    BY <1>0, ForgetFacts
  <1>5. br'[a.c].open = br[a.c].open
    BY <1>0, ForgetFacts
  <1>6. \A d \in 1 .. Len(br) : br'[d].dead = br[d].dead /\ (d # a.c => br'[d].pend = br[d].pend)
    BY <1>3, <1>4
  <1>7. \A d \in 1 .. Len(br) : br'[d].open = br[d].open
    BY <1>3, <1>5
  <1>8. asks' = (asks \ {a}) \cup {b}
    BY <1>1 DEF AskTimesOut, Becomes
  <1>9. BridgesTyped' /\ AsksTyped' /\ PendingAwaited'
    BY <1>0, <1>2, <1>3, <1>6, <1>8, AskMoved
  <1> QED BY <1>0, <1>3, <1>7, <1>9, AsksAlone

\* A request nobody reads any more.
LEMMA OrphanStep ==
    ASSUME BridgeInv, NEW a \in asks, OrphanEnds(a)
    PROVE  BridgeInv'
  <1>0. /\ BridgesTyped /\ AsksTyped /\ PendingAwaited /\ UNCHANGED <<g, hostc, br, nAsks>>
        /\ a.st \in {"answer", "error"} /\ asks' = asks \ {a}
    BY DEF BridgeInv, BridgeTypes, OrphanEnds
  <1>1. BridgesTyped' /\ AsksTyped' /\ PendingAwaited'
    BY <1>0, AskDropped
  <1> QED BY <1>0, <1>1, AsksAlone

\* An answer finds the request of its id.
LEMMA ReadAnswerStep ==
    ASSUME BridgeInv, NEW c \in DOMAIN br, NEW id \in br[c].sent, ReadAnswer(c, id)
    PROVE  BridgeInv'
  <1>0. /\ BridgesTyped /\ AsksTyped /\ PendingAwaited /\ br \in Seq(BridgeRec) /\ Len(br) \in Nat
        /\ c \in 1 .. Len(br) /\ UNCHANGED <<g, hostc, nAsks>>
    BY DEF BridgeInv, BridgeTypes, BridgesTyped, ReadAnswer
  <1> DEFINE mine == {a \in asks : Id(a) = id /\ a.c = c}
             q == [br[c] EXCEPT !.sent = @ \ {id}, !.pend = @ \ {id}]
  <1>1. br[c] \in BridgeRec
    BY <1>0
  <1>2. q \in BridgeRec /\ q.pend = br[c].pend \ {id}
    BY <1>1 DEF BridgeRec
  <1>3. q.dead = br[c].dead /\ q.open = br[c].open
    BY <1>1 DEF BridgeRec
  <1>4. br' = [br EXCEPT ![c] = q]
    BY DEF ReadAnswer
  <1> HIDE DEF q
  <1>5. /\ br' \in Seq(BridgeRec) /\ Len(br') = Len(br) /\ br'[c] = q
        /\ \A d \in 1 .. Len(br) : d # c => br'[d] = br[d]
    BY <1>0, <1>2, <1>4, BridgeExcept
  <1>6. \A d \in 1 .. Len(br) : br'[d].dead = br[d].dead
    BY <1>3, <1>5
  <1>7. \A d \in 1 .. Len(br) : br'[d].open = br[d].open
    BY <1>3, <1>5
  <1>8. /\ br'[c].pend = br[c].pend \ {id}
        /\ \A d \in 1 .. Len(br) : d # c => br'[d].pend = br[d].pend
    BY <1>2, <1>5
  <1>9. asks' = IF id \notin br[c].pend THEN asks
                ELSE (asks \ mine) \cup {[a EXCEPT !.st = "answer"] : a \in mine}
    BY DEF ReadAnswer
  <1>10. CASE id \notin br[c].pend
    <2>1. asks' = asks /\ br'[c].pend = br[c].pend
      BY <1>8, <1>9, <1>10
    <2>2. BridgesTyped' /\ AsksTyped'
      BY <1>0, <1>5, <2>1 DEF BridgesTyped, AsksTyped
    <2>3. \A d \in 1 .. Len(br) : br'[d].pend = br[d].pend /\ br'[d].dead = br[d].dead
      BY <1>6, <1>8, <2>1
    <2>4. PendingAwaited'
      BY <1>0, <1>5, <2>1, <2>3, PendingKept
    <2> QED BY <1>0, <1>5, <1>7, <2>2, <2>4, AsksAlone
  <1>11. CASE id \in br[c].pend
    <2>1. PICK a \in asks : Id(a) = id /\ a.c = c
      BY <1>0, <1>11 DEF PendingAwaited
    <2>2. mine = {a}
      <3>1. \A e \in asks : Id(e) = id => e.k = a.k /\ e.n = a.n
        BY <2>1 DEF Id
      <3> QED BY <1>0, <2>1, <3>1 DEF PendingAwaited
    <2>3. PICK b : b = [a EXCEPT !.st = "answer"]
      OBVIOUS
    <2>4. a \in AskRec
      BY <1>0 DEF AsksTyped
    <2>5. b \in AskRec /\ b.k = a.k /\ b.n = a.n /\ b.c = a.c /\ b.st # "made"
      BY <2>3, <2>4 DEF AskRec
    <2>6. asks' = (asks \ {a}) \cup {b}
      BY <1>9, <1>11, <2>2, <2>3
    <2>7. br'[a.c].pend = br[a.c].pend \ {Id(a)}
      BY <1>8, <2>1
    <2>8. \A d \in 1 .. Len(br) : br'[d].dead = br[d].dead /\ (d # a.c => br'[d].pend = br[d].pend)
      BY <1>6, <1>8, <2>1
    <2>9. BridgesTyped' /\ AsksTyped' /\ PendingAwaited'
      BY <1>0, <1>5, <2>5, <2>6, <2>7, <2>8, AskMoved
    <2> QED BY <1>0, <1>5, <1>7, <2>9, AsksAlone
  <1> QED BY <1>10, <1>11

\* A link breaks.
LEMMA CutStep ==
    ASSUME BridgeInv, NEW c, LinkCut(c)
    PROVE  BridgeInv'
  <1>0. /\ BridgesTyped /\ AsksTyped /\ PendingAwaited /\ br \in Seq(BridgeRec) /\ Len(br) \in Nat
        /\ c \in 1 .. Len(br) /\ UNCHANGED <<g, hostc, asks, nAsks>>
    BY DEF BridgeInv, BridgeTypes, BridgesTyped, LinkCut
  <1> DEFINE q == [br[c] EXCEPT !.up = FALSE]
  <1>1. br[c] \in BridgeRec
    BY <1>0
  <1>2. q \in BridgeRec /\ q.pend = br[c].pend
    BY <1>1 DEF BridgeRec
  <1>3. q.dead = br[c].dead /\ q.open = br[c].open
    BY <1>1 DEF BridgeRec
  <1>4. br' = [br EXCEPT ![c] = q]
    BY DEF LinkCut
  <1> HIDE DEF q
  <1>5. /\ br' \in Seq(BridgeRec) /\ Len(br') = Len(br) /\ br'[c] = q
        /\ \A d \in 1 .. Len(br) : d # c => br'[d] = br[d]
    BY <1>0, <1>2, <1>4, BridgeExcept
  <1>6. \A d \in 1 .. Len(br) : br'[d].pend = br[d].pend /\ br'[d].dead = br[d].dead
    BY <1>2, <1>3, <1>5
  <1>7. \A d \in 1 .. Len(br) : br'[d].open = br[d].open
    BY <1>3, <1>5
  <1>8. BridgesTyped' /\ AsksTyped'
    BY <1>0, <1>5 DEF BridgesTyped, AsksTyped
  <1>9. PendingAwaited'
    BY <1>0, <1>5, <1>6, PendingKept
  <1> QED BY <1>0, <1>5, <1>7, <1>8, <1>9, AsksAlone

\* The reader's end closes every channel in the map.
LEMMA ReadFailsStep ==
    ASSUME BridgeInv, NEW c, ReadFails(c)
    PROVE  BridgeInv'
  <1>0. /\ BridgesTyped /\ AsksTyped /\ PendingAwaited /\ br \in Seq(BridgeRec) /\ Len(br) \in Nat
        /\ c \in 1 .. Len(br) /\ UNCHANGED <<g, hostc, nAsks>>
    BY DEF BridgeInv, BridgeTypes, BridgesTyped, ReadFails
  <1> DEFINE q == [br[c] EXCEPT !.dead = TRUE, !.pend = {}, !.sent = {}]
             struck == {a \in asks : a.c = c /\ Id(a) \in br[c].pend}
             closedOf(a) == IF a.st = "made" THEN [a EXCEPT !.closed = TRUE] ELSE [a EXCEPT !.st = "error"]
  <1>1. br[c] \in BridgeRec
    BY <1>0
  <1>2. q \in BridgeRec /\ q.pend = {} /\ q.dead
    BY <1>1 DEF BridgeRec
  <1>3. q.open = br[c].open
    BY <1>1 DEF BridgeRec
  <1>4. br' = [br EXCEPT ![c] = q]
    BY DEF ReadFails
  <1> HIDE DEF q
  <1>5. /\ br' \in Seq(BridgeRec) /\ Len(br') = Len(br) /\ br'[c] = q
        /\ \A d \in 1 .. Len(br) : d # c => br'[d] = br[d]
    BY <1>0, <1>2, <1>4, BridgeExcept
  <1>6. \A d \in 1 .. Len(br) : br'[d].open = br[d].open
    BY <1>3, <1>5
  <1>7. asks' = (asks \ struck) \cup {closedOf(a) : a \in struck}
    BY DEF ReadFails
  <1>8. ASSUME NEW a \in asks
        PROVE  /\ closedOf(a) \in AskRec /\ closedOf(a).k = a.k /\ closedOf(a).n = a.n /\ closedOf(a).c = a.c
    <2>1. a \in AskRec
      BY <1>0 DEF AsksTyped
    <2> QED BY <2>1 DEF AskRec
  <1> HIDE DEF closedOf
  <1>9. \A e \in asks' : /\ e \in AskRec
                         /\ \E a \in asks : /\ e.k = a.k /\ e.n = a.n /\ e.c = a.c
                                            /\ (e = a /\ a \notin struck) \/ (e = closedOf(a) /\ a \in struck)
    <2> TAKE e \in asks'
    <2>1. CASE e \in asks /\ e \notin struck
      BY <1>0, <2>1 DEF AsksTyped
    <2>2. CASE \E a \in struck : e = closedOf(a)
      <3>1. PICK a \in struck : e = closedOf(a)
        BY <2>2
      <3> QED BY <1>8, <3>1
    <2> QED BY <1>7, <2>1, <2>2
  <1>10. \A a \in asks : a \notin struck => a \in asks'
    BY <1>7
  <1> HIDE DEF struck
  <1>11. AsksTyped'
    <2>1. asks' \subseteq AskRec
      BY <1>9
    <2>2. \A e \in asks' : e.c \in 1 .. Len(br) /\ e.n <= nAsks[e.k]
      BY <1>0, <1>9 DEF AsksTyped
    <2> QED BY <1>0, <1>5, <2>1, <2>2 DEF AsksTyped
  <1>12. BridgesTyped'
    BY <1>0, <1>5 DEF BridgesTyped
  <1>13. ASSUME NEW d \in asks', NEW e \in asks', d.k = e.k, d.n = e.n PROVE d = e
    <2>1. PICK a \in asks : a.k = d.k /\ a.n = d.n /\ ((d = a /\ a \notin struck) \/ (d = closedOf(a) /\ a \in struck))
      BY <1>9
    <2>2. PICK b \in asks : b.k = e.k /\ b.n = e.n /\ ((e = b /\ b \notin struck) \/ (e = closedOf(b) /\ b \in struck))
      BY <1>9
    <2>3. a = b
      BY <1>0, <1>13, <2>1, <2>2 DEF PendingAwaited
    <2> QED BY <2>1, <2>2, <2>3
  <1>14. ASSUME NEW d \in 1 .. Len(br), NEW id \in br'[d].pend
         PROVE  \E a \in asks' : Id(a) = id /\ a.c = d /\ a.st \in {"made", "sent"} /\ ~a.closed
    <2>1. d # c /\ id \in br[d].pend
      BY <1>2, <1>5, <1>14
    <2>2. PICK a \in asks : Id(a) = id /\ a.c = d /\ a.st \in {"made", "sent"} /\ ~a.closed
      BY <1>0, <2>1 DEF PendingAwaited
    <2>3. a \notin struck
      BY <2>1, <2>2 DEF struck
    <2> QED BY <1>10, <2>2, <2>3
  <1>15. ASSUME NEW e \in asks', e.st = "made", ~br'[e.c].dead PROVE Id(e) \in br'[e.c].pend
    <2>1. PICK a \in asks : e.c = a.c /\ ((e = a /\ a \notin struck) \/ (e = closedOf(a) /\ a \in struck))
      BY <1>9
    <2>2. e.c # c /\ e.c \in 1 .. Len(br)
      BY <1>0, <1>2, <1>5, <1>15, <2>1 DEF AsksTyped
    <2>3. a \notin struck
      BY <2>1, <2>2 DEF struck
    <2>4. e = a /\ br'[e.c] = br[e.c]
      BY <1>5, <2>1, <2>2, <2>3
    <2> QED BY <1>0, <1>15, <2>4 DEF PendingAwaited
  <1>16. PendingAwaited'
    BY <1>5, <1>13, <1>14, <1>15 DEF PendingAwaited, Id
  <1> QED BY <1>0, <1>5, <1>6, <1>11, <1>12, <1>16, AsksAlone

\* The backoff passes.
LEMMA BackoffStep ==
    ASSUME BridgeInv, BackoffPasses
    PROVE  BridgeInv'
  <1>0. /\ BridgesTyped /\ AsksTyped /\ PendingAwaited /\ UNCHANGED <<g, br, asks, nAsks>> /\ Len(br) \in Nat
        /\ hostc' = [hostc EXCEPT !.recent = FALSE] /\ HostTyped
    BY DEF BridgeInv, BridgeTypes, BridgesTyped, BackoffPasses
  <1>1. /\ DOMAIN hostc' = DOMAIN hostc /\ hostc'.bridge = hostc.bridge /\ hostc'.dialing = hostc.dialing
        /\ hostc'.retry = hostc.retry
    BY <1>0 DEF HostTyped
  <1>2. BridgesTyped' /\ AsksTyped' /\ PendingAwaited'
    BY <1>0, PendingKept DEF BridgesTyped, AsksTyped
  <1> QED BY <1>0, <1>1, <1>2, AsksAlone

\* Connects and outcomes leave the requests alone.
LEMMA ConnectKeeps ==
    ASSUME BridgeInv, NEW x \in Routines, Connect(x) \/ Publish(x)
    PROVE  BridgeInv'
  <1>0. BridgesTyped /\ AsksTyped /\ PendingAwaited /\ BridgeTypes /\ DialsOnce /\ Len(br) \in Nat
        /\ UNCHANGED <<br, asks, nAsks>>
    BY DEF BridgeInv, BridgeTypes, BridgesTyped, Connect, Publish
  <1>1. BridgesTyped' /\ AsksTyped' /\ PendingAwaited'
    BY <1>0, PendingKept DEF BridgesTyped, AsksTyped
  <1>2. RoutinesTyped' /\ HostTyped' /\ DialsOnce'
    BY <1>0, ConnectStep, PublishStep
  <1> QED BY <1>1, <1>2 DEF BridgeInv, BridgeTypes

\* The start.
LEMMA BridgeStart == BridgeInit => BridgeInv
  <1> SUFFICES ASSUME BridgeInit PROVE BridgeInv
    OBVIOUS
  <1>1. br = <<Bridge0>> /\ Bridge0 \in BridgeRec
    BY DEF BridgeInit, Bridge0, BridgeRec
  <1>2. BridgesTyped /\ Len(br) = 1 /\ br[1] = Bridge0 /\ Bridge0.pend = {}
    BY <1>1 DEF BridgesTyped, Bridge0
  <1>3. AsksTyped /\ asks = {}
    BY DEF BridgeInit, AsksTyped
  <1>4. PendingAwaited
    BY <1>2, <1>3 DEF PendingAwaited
  <1>5. \A x \in Routines : g[x] = Idle \/ (x = "initial" /\ g[x] = [Idle EXCEPT !.pc = "connect"])
    BY DEF BridgeInit
  <1>6. \A x \in Routines : /\ DOMAIN g[x] = DOMAIN Idle /\ g[x].by = "none" /\ g[x].pc \in {"idle", "connect"}
                            /\ g[x].pc = "connect" => x = "initial"
    BY <1>5 DEF Idle
  <1>7. RoutinesTyped
    BY <1>6 DEF BridgeInit, RoutinesTyped, GoodRoutine
  <1>8. HostTyped /\ ~hostc.dialing /\ ~hostc.retry
    BY <1>2 DEF BridgeInit, HostTyped, NoBridge
  <1>9. g["retry"].pc = "idle"
    BY <1>6 DEF Routines, Background
  <1>10. DialsOnce
    BY <1>2, <1>6, <1>8, <1>9 DEF DialsOnce, Dialer
  <1> QED BY <1>2, <1>3, <1>4, <1>7, <1>8, <1>10 DEF BridgeInv, BridgeTypes

\* Every step.
LEMMA BridgeKeeps == BridgeInv /\ [BridgeNext]_brVars => BridgeInv'
  <1> SUFFICES ASSUME BridgeInv, [BridgeNext]_brVars PROVE BridgeInv'
    OBVIOUS
  <1>1. ASSUME UNCHANGED brVars PROVE BridgeInv'
    <2>1. BridgesTyped /\ AsksTyped /\ PendingAwaited /\ UNCHANGED <<g, hostc, br, asks, nAsks>> /\ Len(br) \in Nat
      BY <1>1 DEF BridgeInv, BridgeTypes, BridgesTyped, brVars
    <2>2. BridgesTyped' /\ AsksTyped' /\ PendingAwaited'
      BY <2>1, PendingKept DEF BridgesTyped, AsksTyped
    <2> QED BY <2>1, <2>2, AsksAlone
  <1>2. ASSUME NEW k \in Calls, NEW by \in {t.by : t \in McpTools}, NEW remote \in BOOLEAN, Call(k, by, remote)
        PROVE  BridgeInv'
    BY <1>2, CallStep
  <1>3. CASE BridgeStep
    <2>1. ASSUME NEW x \in Routines, Connect(x) \/ BridgeDial(x) \/ Publish(x) \/ dialOutcome(x) PROVE BridgeInv'
      BY <2>1, ConnectKeeps, DialStep, OutcomeStep
    <2>2. ASSUME NEW k \in Calls, \/ Grab(k) \/ Work(k) \/ AskEnds(k) \/ AskAgain(k) \/ WatchResult(k)
                                  \/ AllHosts(k)
          PROVE  BridgeInv'
      BY <2>2, GrabStep, WorkStep, AnsweredStep, AgainStep, AllHostsMoves
    <2>3. ASSUME NEW a \in asks, SendAsk(a) \/ AskTimesOut(a) \/ OrphanEnds(a) PROVE BridgeInv'
      BY <2>3, SendStep, TimeoutStep, OrphanStep
    <2>4. ASSUME NEW c, \/ LinkCut(c) \/ ReadFails(c)
                        \/ c \in DOMAIN br /\ \E id \in br[c].sent : ReadAnswer(c, id)
          PROVE  BridgeInv'
      BY <2>4, CutStep, ReadFailsStep, ReadAnswerStep
    <2> QED BY <1>3, <2>1, <2>2, <2>3, <2>4, RetryEndsStep, BackoffStep DEF BridgeStep
  <1> QED BY <1>1, <1>2, <1>3 DEF BridgeNext

\* What the tools rely on while calls, losses and redials cross, for any
\* number of handlers, connections and requests.
THEOREM BridgesAreTended == BridgeSpec => []BridgesTended
  BY BridgeStart, BridgeKeeps, BridgeInvImplies, PTL DEF BridgeSpec

-----------------------------------------------------------------------------
(* The create-pane wizard                                                    *)

\* The fields of the dialog, and what it can ask for.
WizFields == {"dlg", "target", "plug", "cur", "pick", "selCWD", "cands", "focus", "wt", "branch", "sbx", "ctx",
              "args", "scan", "sess", "sid", "last", "recent", "gen", "asked"}
ScanKinds == {"browse", "repo", "recent", "kube", "trees"}
Listed == ScanKinds \cup {"sess"}

\* A step's view of the dialog, while the clocks in c run: it has its fields, and
\* whatever is pending has a clock that runs or is started by this step.
WizOK(s, c) ==
    /\ DOMAIN s = WizFields /\ DOMAIN s.scan = ScanKinds
    /\ \A k \in ScanKinds : DOMAIN s.scan[k] = {"gen", "of", "st"}
    /\ s.sess = [of |-> s.sess.of, st |-> s.sess.st]
    /\ \A a \in s.asked : a.kind \in Listed
    /\ \A k \in {"browse", "repo", "recent", "trees"} :
         s.scan[k].st = "pending" => \E a \in c \cup s.asked : a.kind = k /\ a.gen = s.scan[k].gen
    /\ s.sess.st = "scanning" => \E a \in c \cup s.asked : a.kind = "sess" /\ a.of = s.sess.of

\* What is about to be sent agrees with what was shown.
Ready(s) ==
    /\ s.args \in 0 .. 1
    /\ s.sid # NoDir => s.sid = s.selCWD
    /\ s.branch # "none" => s.scan["trees"].st = "idle" \/ s.scan["trees"].of = s.selCWD

\* On the setup page a session belongs to the listing, the worktrees to the
\* current directory, and a plugin without directories offers neither.
PageOK(s) ==
    /\ s.args \in 0 .. 1
    /\ s.branch # "none" => ~s.wt
    /\ s.dlg = "setup" =>
         /\ s.args = 0
         /\ s.sid # NoDir => s.sid = s.sess.of
         /\ s.scan["trees"].st = "idle" \/ s.scan["trees"].of = s.cur
         /\ ~PromptsCWD(s.plug) => s.sid = NoDir /\ s.branch = "none" /\ s.focus \notin {"session", "worktree"}
    /\ s.dlg = "split" => Ready(s)

\* A request agrees with itself.
ReqOK(r) == r # NoDir => /\ r.sid # NoDir => r.sid = r.cwd
                         /\ r.branch => r.root = r.cwd
                         /\ r.args <= 1

\* The inductive invariant of the dialog.
WizInv ==
    /\ WizOK(w, clocks) /\ w.asked = {} /\ PageOK(w) /\ ReqOK(made)
    /\ \A a \in wizWire \cup clocks : a.kind \in Listed

\* Only listings differ, and not that of the worktrees.
PageSame(s, t) ==
    /\ t.dlg = s.dlg /\ t.args = s.args /\ t.branch = s.branch /\ t.wt = s.wt /\ t.sid = s.sid
    /\ t.sess = s.sess /\ t.scan["trees"] = s.scan["trees"] /\ t.cur = s.cur /\ t.plug = s.plug
    /\ t.focus = s.focus /\ t.selCWD = s.selCWD /\ t.ctx = s.ctx /\ t.sbx = s.sbx /\ t.target = s.target

\* What differs in listings only is still in order.
LEMMA SamePage ==
    ASSUME NEW s, NEW t, PageOK(s), PageSame(s, t)
    PROVE  PageOK(t)
  BY DEF PageOK, PageSame, Ready

\* A request starts its own clock.
LEMMA AskKeeps ==
    ASSUME NEW s, NEW c, NEW kind \in ScanKinds \ {"trees"}, NEW dir, WizOK(s, c)
    PROVE  WizOK(WizAsk(s, kind, dir), c) /\ PageSame(s, WizAsk(s, kind, dir))
  <1>1. PICK n : n = [gen |-> s.gen + 1, of |-> dir, st |-> "pending"]
    OBVIOUS
  <1>2. PICK r : r = [kind |-> kind, of |-> dir, gen |-> s.gen + 1]
    OBVIOUS
  <1>3. PICK t : t = WizAsk(s, kind, dir)
    OBVIOUS
  <1>4. /\ DOMAIN t = WizFields /\ t.scan = [s.scan EXCEPT ![kind] = n] /\ t.asked = s.asked \cup {r}
        /\ t.sess = s.sess
    BY <1>1, <1>2, <1>3 DEF WizAsk, WizOK, WizFields
  <1>5. t.scan[kind] = n /\ \A k \in ScanKinds : k # kind => t.scan[k] = s.scan[k]
    BY <1>4 DEF WizOK
  <1>6. DOMAIN t.scan = ScanKinds
    BY <1>4 DEF WizOK
  <1>7. DOMAIN n = {"gen", "of", "st"} /\ n.gen = r.gen /\ r.kind = kind
    BY <1>1, <1>2
  <1>8. ASSUME NEW k \in {"browse", "repo", "recent", "trees"}, t.scan[k].st = "pending"
        PROVE  \E a \in c \cup t.asked : a.kind = k /\ a.gen = t.scan[k].gen
    <2>1. CASE k = kind
      BY <1>4, <1>5, <1>7, <2>1
    <2>2. CASE k # kind
      BY <1>4, <1>5, <1>8, <2>2 DEF WizOK, ScanKinds
    <2> QED BY <2>1, <2>2
  <1>9. WizOK(t, c)
    BY <1>4, <1>5, <1>6, <1>7, <1>8 DEF WizOK, ScanKinds, Listed
  <1>10. PageSame(s, t)
    BY <1>3, <1>5, <1>1 DEF WizAsk, WizOK, WizFields, PageSame, ScanKinds
  <1> QED BY <1>3, <1>9, <1>10

\* The next directory to try.
LEMMA CandidateKeeps ==
    ASSUME NEW s, NEW c, WizOK(s, c)
    PROVE  WizOK(nextBrowseCandidate(s), c) /\ PageSame(s, nextBrowseCandidate(s))
  <1>1. ASSUME NEW q
        PROVE  WizOK([s EXCEPT !.cands = q], c) /\ PageSame(s, [s EXCEPT !.cands = q])
    BY DEF WizOK, WizFields, PageSame
  <1>2. PICK rest : rest = SelectSeq(s.cands, LAMBDA d : d # NoDir)
    OBVIOUS
  <1>3. CASE rest = <<>>
    <2>1. nextBrowseCandidate(s) = [s EXCEPT !.cands = <<>>]
      BY <1>2, <1>3 DEF nextBrowseCandidate
    <2> QED BY <1>1, <2>1
  <1>4. CASE rest # <<>>
    <2>1. PICK t : t = [s EXCEPT !.cands = Tail(rest)]
      OBVIOUS
    <2>2. nextBrowseCandidate(s) = WizAsk(t, "browse", Head(rest))
      BY <1>2, <1>4, <2>1 DEF nextBrowseCandidate
    <2>3. WizOK(t, c) /\ PageSame(s, t)
      BY <1>1, <2>1
    <2>4. WizOK(WizAsk(t, "browse", Head(rest)), c) /\ PageSame(t, WizAsk(t, "browse", Head(rest)))
      BY <2>3, AskKeeps DEF ScanKinds
    <2> QED BY <2>2, <2>3, <2>4 DEF PageSame
  <1> QED BY <1>3, <1>4

\* The browser starts with the last, the pane's and the home directory.
LEMMA BrowserKeeps ==
    ASSUME NEW s, NEW c, WizOK(s, c)
    PROVE  WizOK(initSetupBrowser(s), c) /\ PageSame(s, initSetupBrowser(s))
  <1>1. PICK t : t = [s EXCEPT !.cands = dedupeAdjacent(<<s.last, Here, Home>>)]
    OBVIOUS
  <1>2. WizOK(t, c) /\ PageSame(s, t)
    BY <1>1 DEF WizOK, WizFields, PageSame
  <1>3. initSetupBrowser(s) = nextBrowseCandidate(t)
    BY <1>1 DEF initSetupBrowser
  <1>4. WizOK(nextBrowseCandidate(t), c) /\ PageSame(t, nextBrowseCandidate(t))
    BY <1>2, CandidateKeeps
  <1> QED BY <1>2, <1>3, <1>4 DEF PageSame

\* Recent directories, or the browser.
LEMMA FallbackKeeps ==
    ASSUME NEW s, NEW c, WizOK(s, c)
    PROVE  WizOK(fallbackToRecentOrBrowser(s), c) /\ PageSame(s, fallbackToRecentOrBrowser(s))
  <1>1. CASE s.recent # {}
    BY <1>1, AskKeeps DEF fallbackToRecentOrBrowser, ScanKinds
  <1>2. CASE s.recent = {}
    BY <1>2, BrowserKeeps DEF fallbackToRecentOrBrowser
  <1> QED BY <1>1, <1>2

\* Another directory: nothing chosen below the old one is left.
LEMMA DirectoryKeeps ==
    ASSUME NEW s, NEW c, NEW dir, WizOK(s, c)
    PROVE  /\ WizOK(onSetupCWDChanged(s, dir), c)
           /\ onSetupCWDChanged(s, dir).dlg = s.dlg /\ onSetupCWDChanged(s, dir).args = s.args
           /\ PageOK(s) /\ s.dlg = "setup" => PageOK(onSetupCWDChanged(s, dir))
  <1>1. PICK t : t = onSetupCWDChanged(s, dir)
    OBVIOUS
  <1>2. /\ DOMAIN t = WizFields /\ t.scan = [s.scan EXCEPT !["trees"] = WizQuiet] /\ t.asked = s.asked
        /\ t.sess = s.sess /\ t.dlg = s.dlg /\ t.args = s.args /\ t.sid = s.sid /\ t.plug = s.plug
        /\ t.focus = s.focus /\ t.branch = "none" /\ t.wt = FALSE
    BY <1>1 DEF onSetupCWDChanged, WizOK, WizFields
  <1>3. /\ DOMAIN t.scan = ScanKinds /\ t.scan["trees"] = WizQuiet
        /\ \A k \in ScanKinds : k # "trees" => t.scan[k] = s.scan[k]
    BY <1>2 DEF WizOK, ScanKinds
  <1>4. DOMAIN WizQuiet = {"gen", "of", "st"} /\ WizQuiet.st = "idle"
    BY DEF WizQuiet
  <1>5. WizOK(t, c)
    BY <1>2, <1>3, <1>4 DEF WizOK, ScanKinds
  <1>6. PageOK(s) /\ s.dlg = "setup" => PageOK(t)
    BY <1>2, <1>3, <1>4 DEF PageOK
  <1> QED BY <1>1, <1>2, <1>5, <1>6

\* The request leaves.
Sent(r, c) == WizOK(r.s, c) /\ PageOK(r.s) /\ ReqOK(r.req)

\* What is ready leaves the dialog; what it leaves behind is in order.
LEMMA SplitKeeps ==
    ASSUME NEW s, NEW c, WizOK(s, c), Ready(s)
    PROVE  Sent(handleCreatePaneSplit(s), c)
  <1>1. PICK r : r = handleCreatePaneSplit(s)
    OBVIOUS
  <1>2. ReqOK(r.req)
    <2>1. PICK root : root = IF s.scan["trees"].st = "loaded" THEN s.scan["trees"].of ELSE NoDir
      OBVIOUS
    <2>2. PICK req : req = [plug |-> s.plug, cwd |-> s.selCWD, sid |-> s.sid, sandbox |-> sandboxSpec(s),
                            branch |-> s.branch # "none", root |-> root, args |-> s.args]
      OBVIOUS
    <2>3. r.req = IF req.branch /\ root = NoDir THEN NoDir ELSE req
      BY <1>1, <2>1, <2>2 DEF handleCreatePaneSplit
    <2>4. req.sid = s.sid /\ req.cwd = s.selCWD /\ req.args = s.args /\ req.root = root
      BY <2>2
    <2>5. req.branch <=> s.branch # "none"
      BY <2>2
    <2>6. req.sid # NoDir => req.sid = req.cwd
      BY <2>4 DEF Ready
    <2>7. req.args <= 1
      BY <2>4 DEF Ready
    <2>8. req.branch /\ root # NoDir => req.root = req.cwd
      BY <2>1, <2>4, <2>5 DEF Ready
    <2> QED BY <2>3, <2>6, <2>7, <2>8 DEF ReqOK
  <1>3. /\ DOMAIN r.s = WizFields /\ r.s.scan = [s.scan EXCEPT !["trees"] = WizQuiet] /\ r.s.asked = s.asked
        /\ r.s.dlg = "none" /\ r.s.args = s.args /\ r.s.branch = "none"
        /\ r.s.sess = [of |-> NoDir, st |-> "idle"]
    BY <1>1 DEF handleCreatePaneSplit, resetSessionSelection, WizOK, WizFields
  <1>4. /\ DOMAIN r.s.scan = ScanKinds /\ r.s.scan["trees"] = WizQuiet
        /\ \A k \in ScanKinds : k # "trees" => r.s.scan[k] = s.scan[k]
    BY <1>3 DEF WizOK, ScanKinds
  <1>5. DOMAIN WizQuiet = {"gen", "of", "st"} /\ WizQuiet.st = "idle"
    BY DEF WizQuiet
  <1>6. WizOK(r.s, c)
    BY <1>3, <1>4, <1>5 DEF WizOK, ScanKinds
  <1>7. PageOK(r.s)
    BY <1>3 DEF PageOK, Ready
  <1> QED BY <1>1, <1>2, <1>6, <1>7 DEF Sent

\* A tab needs no split to be chosen.
LEMMA AdvanceKeeps ==
    ASSUME NEW s, NEW c, WizOK(s, c), Ready(s), s.branch # "none" => ~s.wt
    PROVE  Sent(advanceFromPluginChoice(s), c)
  <1>1. CASE s.target = "tab"
    BY <1>1, SplitKeeps DEF advanceFromPluginChoice
  <1>2. CASE s.target # "tab"
    <2>1. PICK t : t = [s EXCEPT !.dlg = "split"]
      OBVIOUS
    <2>2. advanceFromPluginChoice(s) = [s |-> t, req |-> NoDir]
      BY <1>2, <2>1 DEF advanceFromPluginChoice, Goes
    <2>3. WizOK(t, c) /\ PageOK(t)
      BY <2>1 DEF WizOK, WizFields, PageOK, Ready
    <2> QED BY <2>2, <2>3 DEF Sent, ReqOK
  <1> QED BY <1>1, <1>2

\* Entering the setup page clears it.
LEMMA EnterKeeps ==
    ASSUME NEW s, NEW c, WizOK(s, c), s.args = 0
    PROVE  Sent(enterSetupOrSplit(s), c)
  <1>1. PICK q : q = [s EXCEPT !.selCWD = NoDir, !.pick = {}, !.cands = <<>>, !.ctx = FALSE, !.focus = "cwd",
                               !.scan = [k \in DOMAIN s.scan |-> WizQuiet]]
    OBVIOUS
  <1>2. DOMAIN WizQuiet = {"gen", "of", "st"} /\ WizQuiet.st = "idle"
    BY DEF WizQuiet
  <1>3. /\ DOMAIN q = WizFields /\ q.scan = [k \in ScanKinds |-> WizQuiet] /\ q.asked = s.asked /\ q.sess = s.sess
        /\ q.args = 0 /\ q.focus = "cwd" /\ q.dlg = s.dlg
    BY <1>1 DEF WizOK, WizFields
  <1>4. WizOK(q, c)
    BY <1>2, <1>3 DEF WizOK, ScanKinds
  <1>5. PICK o : o = onSetupCWDChanged(q, NoDir)
    OBVIOUS
  <1>6. WizOK(o, c)
    BY <1>4, <1>5, DirectoryKeeps
  <1>7. o.args = 0 /\ o.focus = "cwd" /\ o.branch = "none" /\ o.scan["trees"].st = "idle"
    BY <1>2, <1>3, <1>5 DEF onSetupCWDChanged, WizFields, ScanKinds
  <1>8. PICK s1 : s1 = resetSessionSelection(o)
    OBVIOUS
  <1>9. /\ WizOK(s1, c) /\ s1.args = 0 /\ s1.focus = "cwd" /\ s1.branch = "none" /\ s1.sid = NoDir
        /\ s1.scan["trees"].st = "idle"
    BY <1>6, <1>7, <1>8 DEF resetSessionSelection, WizOK, WizFields
  <1>10. PICK s2 : s2 = [s1 EXCEPT !.sbx = "off", !.dlg = "setup"]
    OBVIOUS
  <1>11. WizOK(s2, c) /\ PageOK(s2)
    BY <1>9, <1>10 DEF WizOK, WizFields, PageOK
  <1>12. s1 = resetSessionSelection(onSetupCWDChanged(
              [s EXCEPT !.selCWD = NoDir, !.pick = {}, !.cands = <<>>, !.ctx = FALSE, !.focus = "cwd",
                        !.scan = [k \in DOMAIN s.scan |-> WizQuiet]], NoDir))
    BY <1>1, <1>5, <1>8
  <1>13. CASE ~needsSetup(s.plug)
    <2>1. enterSetupOrSplit(s) = advanceFromPluginChoice(s1)
      BY <1>12, <1>13 DEF enterSetupOrSplit
    <2>2. Ready(s1)
      BY <1>9 DEF Ready
    <2> QED BY <1>9, <2>1, <2>2, AdvanceKeeps
  <1>14. CASE needsSetup(s.plug)
    <2>1. PICK s3 : s3 = IF s.plug = "git" THEN WizAsk(s2, "repo", Here)
                         ELSE IF PromptsCWD(s.plug) THEN fallbackToRecentOrBrowser(s2)
                         ELSE WizAsk(s2, "kube", NoDir)
      OBVIOUS
    <2>2. enterSetupOrSplit(s) = [s |-> s3, req |-> NoDir]
      BY <1>10, <1>12, <1>14, <2>1 DEF enterSetupOrSplit, Goes
    <2>3. WizOK(s3, c) /\ PageSame(s2, s3)
      BY <1>11, <2>1, AskKeeps, FallbackKeeps DEF ScanKinds
    <2>4. PageOK(s3)
      BY <1>11, <2>3, SamePage
    <2> QED BY <2>2, <2>3, <2>4 DEF Sent, ReqOK
  <1> QED BY <1>13, <1>14

\* The listings asked for on a field.
LEMMA ScanKeeps ==
    ASSUME NEW s, NEW c, WizOK(s, c), PageOK(s), s.dlg = "setup"
    PROVE  /\ WizOK(ensureSessionScan(s), c) /\ PageOK(ensureSessionScan(s))
           /\ WizOK(requestWorktrees(s), c) /\ PageOK(requestWorktrees(s))
  <1>1. WizOK(ensureSessionScan(s), c) /\ PageOK(ensureSessionScan(s))
    <2>1. PICK dir : dir = setupSpawnDir(s)
      OBVIOUS
    <2>2. CASE dir = NoDir
      <3>1. ensureSessionScan(s) = [s EXCEPT !.sess.st = "idle"]
        BY <2>1, <2>2 DEF ensureSessionScan
      <3>2. PICK t : t = [s EXCEPT !.sess.st = "idle"]
        OBVIOUS
      <3>3. WizOK(t, c)
        BY <3>2 DEF WizOK, WizFields
      <3>4. PageOK(t)
        BY <3>2 DEF WizOK, WizFields, PageOK
      <3> QED BY <3>1, <3>2, <3>3, <3>4
    <2>3. CASE dir # NoDir /\ s.sess.of = dir /\ s.sess.st \in {"scanning", "ready"}
      <3>1. ensureSessionScan(s) = s
        BY <2>1, <2>3 DEF ensureSessionScan
      <3> QED BY <3>1
    <2>4. CASE dir # NoDir /\ ~(s.sess.of = dir /\ s.sess.st \in {"scanning", "ready"})
      <3>1. PICK r : r = [kind |-> "sess", of |-> dir, gen |-> 0]
        OBVIOUS
      <3>2. PICK t : t = [s EXCEPT !.sess = [of |-> dir, st |-> "scanning"], !.sid = NoDir, !.gen = @ + 1,
                                   !.asked = @ \cup {r}]
        OBVIOUS
      <3>3. ensureSessionScan(s) = t
        BY <2>1, <2>4, <3>1, <3>2 DEF ensureSessionScan
      <3>4. /\ DOMAIN t = WizFields /\ t.scan = s.scan /\ t.asked = s.asked \cup {r}
            /\ t.sess = [of |-> dir, st |-> "scanning"]
        BY <3>2 DEF WizOK, WizFields
      <3>5. WizOK(t, c)
        BY <3>1, <3>4 DEF WizOK, Listed
      <3>6. PageOK(t)
        BY <3>2 DEF WizOK, WizFields, PageOK
      <3> QED BY <3>3, <3>5, <3>6
    <2> QED BY <2>2, <2>3, <2>4
  <1>2. WizOK(requestWorktrees(s), c) /\ PageOK(requestWorktrees(s))
    <2>1. CASE requestWorktrees(s) = s
      BY <2>1
    <2>2. CASE requestWorktrees(s) = WizAsk(s, "trees", s.cur)
      <3>1. PICK n : n = [gen |-> s.gen + 1, of |-> s.cur, st |-> "pending"]
        OBVIOUS
      <3>2. PICK r : r = [kind |-> "trees", of |-> s.cur, gen |-> s.gen + 1]
        OBVIOUS
      <3>3. PICK t : t = WizAsk(s, "trees", s.cur)
        OBVIOUS
      <3>4. /\ DOMAIN t = WizFields /\ t.scan = [s.scan EXCEPT !["trees"] = n] /\ t.asked = s.asked \cup {r}
            /\ t.sess = s.sess
        BY <3>1, <3>2, <3>3 DEF WizAsk, WizOK, WizFields
      <3>5. t.scan["trees"] = n /\ \A k \in ScanKinds : k # "trees" => t.scan[k] = s.scan[k]
        BY <3>4 DEF WizOK, ScanKinds
      <3>6. DOMAIN t.scan = ScanKinds
        BY <3>4 DEF WizOK
      <3>7. DOMAIN n = {"gen", "of", "st"} /\ n.gen = r.gen /\ r.kind = "trees" /\ n.of = s.cur
        BY <3>1, <3>2
      <3>8. WizOK(t, c)
        BY <3>4, <3>5, <3>6, <3>7 DEF WizOK, ScanKinds, Listed
      <3>9. /\ t.dlg = s.dlg /\ t.args = s.args /\ t.branch = s.branch /\ t.wt = s.wt /\ t.sid = s.sid
            /\ t.cur = s.cur /\ t.plug = s.plug /\ t.focus = s.focus
        BY <3>3 DEF WizAsk, WizOK, WizFields
      <3>10. PageOK(t)
        BY <3>4, <3>5, <3>7, <3>9 DEF PageOK
      <3> QED BY <2>2, <3>3, <3>8, <3>10
    <2> QED BY <2>1, <2>2 DEF requestWorktrees
  <1> QED BY <1>1, <1>2

\* Submitting: what was listed elsewhere is dropped, the rest is ready.
LEMMA SubmitKeeps ==
    ASSUME NEW s, NEW c, WizOK(s, c), PageOK(s), s.dlg = "setup"
    PROVE  Sent(submitSetupDialog(s), c)
  <1>1. PICK dir : dir = setupSpawnDir(s)
    OBVIOUS
  <1>2. PICK s1 : s1 = IF PromptsCWD(s.plug) THEN [s EXCEPT !.selCWD = dir] ELSE s
    OBVIOUS
  <1>3. PICK s2 : s2 = IF s.sess.of # dir THEN [s1 EXCEPT !.sid = NoDir] ELSE s1
    OBVIOUS
  <1>4. PICK s3 : s3 = IF s.ctx THEN [s2 EXCEPT !.args = @ + 1] ELSE s2
    OBVIOUS
  <1>5. submitSetupDialog(s) = IF s.branch = "taken" THEN Goes(s1)
                               ELSE IF s.sbx = "noimage" THEN Goes([s1 EXCEPT !.focus = "sandbox"])
                               ELSE advanceFromPluginChoice(s3)
    BY <1>1, <1>2, <1>3, <1>4 DEF submitSetupDialog
  <1>6. /\ WizOK(s1, c) /\ PageOK(s1)
        /\ s1.sid = s.sid /\ s1.branch = s.branch /\ s1.wt = s.wt /\ s1.scan = s.scan /\ s1.args = 0
        /\ PromptsCWD(s.plug) => s1.selCWD = dir
    BY <1>2 DEF WizOK, WizFields, PageOK
  <1>7. Sent(Goes(s1), c)
    BY <1>6 DEF Sent, Goes, ReqOK
  <1>8. Sent(Goes([s1 EXCEPT !.focus = "sandbox"]), c)
    <2>1. PICK t : t = [s1 EXCEPT !.focus = "sandbox"]
      OBVIOUS
    <2>2. WizOK(t, c) /\ PageOK(t)
      BY <1>6, <2>1 DEF WizOK, WizFields, PageOK, Ready
    <2> QED BY <2>1, <2>2 DEF Sent, Goes, ReqOK
  <1>9. /\ WizOK(s2, c) /\ s2.branch = s.branch /\ s2.wt = s.wt /\ s2.scan = s.scan /\ s2.args = 0
        /\ s2.selCWD = s1.selCWD
        /\ s2.sid # NoDir => s2.sid = s.sid /\ s.sess.of = dir
    BY <1>3, <1>6 DEF WizOK, WizFields
  <1>10. s2.sid # NoDir => s2.sid = s2.selCWD
    <2>1. SUFFICES ASSUME s2.sid # NoDir
                   PROVE  s2.sid = s2.selCWD
      OBVIOUS
    <2>2. s.sid # NoDir
      BY <1>9, <2>1
    <2>3. PromptsCWD(s.plug) /\ s.sid = s.sess.of
      BY <2>2 DEF PageOK
    <2> QED BY <1>6, <1>9, <2>1, <2>3
  <1>11. s2.branch # "none" => s2.scan["trees"].st = "idle" \/ s2.scan["trees"].of = s2.selCWD
    <2>1. SUFFICES ASSUME s.branch # "none"
                   PROVE  s.scan["trees"].st = "idle" \/ s.scan["trees"].of = s2.selCWD
      BY <1>9
    <2>2. PromptsCWD(s.plug) /\ ~s.wt /\ (s.scan["trees"].st = "idle" \/ s.scan["trees"].of = s.cur)
      BY <2>1 DEF PageOK
    <2>3. dir = s.cur
      BY <1>1, <2>2 DEF setupSpawnDir
    <2> QED BY <1>6, <1>9, <2>2, <2>3
  <1>12. WizOK(s3, c) /\ Ready(s3) /\ (s3.branch # "none" => ~s3.wt)
    <2>1. s.branch # "none" => ~s.wt
      BY DEF PageOK
    <2> QED BY <1>4, <1>9, <1>10, <1>11, <2>1 DEF WizOK, WizFields, Ready
  <1>13. Sent(advanceFromPluginChoice(s3), c)
    BY <1>12, AdvanceKeeps
  <1> QED BY <1>5, <1>7, <1>8, <1>13

\* An answer.
LEMMA AnswersKeep ==
    ASSUME WizInv, NEW a \in wizWire, NEW ok \in BOOLEAN
    PROVE  WizOK(Answered(a, ok), clocks) /\ PageOK(Answered(a, ok))
  <1>0. WizOK(w, clocks) /\ PageOK(w) /\ a.kind \in Listed
    BY DEF WizInv
  <1> DEFINE Fine(s) == WizOK(s, clocks) /\ PageOK(s)
  <1>a. ASSUME NEW k \in ScanKinds, NEW x, x # "pending", NEW t, t = [w EXCEPT !.scan[k].st = x], k # "trees"
        PROVE  WizOK(t, clocks) /\ PageSame(w, t)
    <2>1. /\ DOMAIN t = WizFields /\ t.scan = [w.scan EXCEPT ![k].st = x] /\ t.asked = w.asked /\ t.sess = w.sess
      BY <1>0, <1>a DEF WizOK, WizFields
    <2>2. /\ DOMAIN t.scan = ScanKinds /\ t.scan[k].st = x /\ DOMAIN t.scan[k] = {"gen", "of", "st"}
          /\ \A j \in ScanKinds : j # k => t.scan[j] = w.scan[j]
      BY <1>0, <2>1 DEF WizOK
    <2>3. WizOK(t, clocks)
      BY <1>0, <1>a, <2>1, <2>2 DEF WizOK, ScanKinds
    <2>4. PageSame(w, t)
      BY <1>0, <1>a, <2>2 DEF WizOK, WizFields, PageSame, ScanKinds
    <2> QED BY <2>3, <2>4
  <1>b. ASSUME NEW k \in ScanKinds, k # "trees", NEW t, t = [w EXCEPT !.scan[k] = WizQuiet]
        PROVE  WizOK(t, clocks) /\ PageSame(w, t)
    <2>1. /\ DOMAIN t = WizFields /\ t.scan = [w.scan EXCEPT ![k] = WizQuiet] /\ t.asked = w.asked /\ t.sess = w.sess
      BY <1>0, <1>b DEF WizOK, WizFields
    <2>2. /\ DOMAIN t.scan = ScanKinds /\ t.scan[k].st = "idle" /\ DOMAIN t.scan[k] = {"gen", "of", "st"}
          /\ \A j \in ScanKinds : j # k => t.scan[j] = w.scan[j]
      BY <1>0, <2>1 DEF WizOK, WizQuiet
    <2>3. WizOK(t, clocks)
      BY <1>0, <1>b, <2>1, <2>2 DEF WizOK, ScanKinds
    <2>4. PageSame(w, t)
      BY <1>0, <1>b, <2>2 DEF WizOK, WizFields, PageSame, ScanKinds
    <2> QED BY <2>3, <2>4
  <1>1. Fine(applyClaudeSessions(ok, a))
    <2>1. PICK x : x = IF ok THEN "ready" ELSE "failed"
      OBVIOUS
    <2>2. WizOK([w EXCEPT !.sess.st = x], clocks) /\ PageOK([w EXCEPT !.sess.st = x])
      <3>1. PICK t : t = [w EXCEPT !.sess.st = x]
        OBVIOUS
      <3>2. x # "scanning"
        BY <2>1
      <3>3. WizOK(t, clocks)
        BY <1>0, <3>1, <3>2 DEF WizOK, WizFields
      <3>4. PageOK(t)
        BY <1>0, <3>1 DEF WizOK, WizFields, PageOK, Ready
      <3> QED BY <3>1, <3>3, <3>4
    <2> QED BY <1>0, <2>1, <2>2 DEF applyClaudeSessions
  <1>2. Fine(applyBrowseDir(ok, a))
    <2>1. PICK x : x = IF ok THEN "loaded" ELSE "failed"
      OBVIOUS
    <2>2. PICK s1 : s1 = [w EXCEPT !.scan["browse"].st = x]
      OBVIOUS
    <2>3. WizOK(s1, clocks) /\ PageSame(w, s1)
      BY <1>a, <2>1, <2>2 DEF ScanKinds
    <2>4. Fine(s1)
      BY <1>0, <2>3, SamePage
    <2>5. PICK s2 : s2 = [s1 EXCEPT !.cands = <<>>, !.cur = a.of]
      OBVIOUS
    <2>6. WizOK(s2, clocks) /\ s2.dlg = w.dlg /\ (w.dlg # "setup" => PageOK(s2))
      BY <2>3, <2>4, <2>5 DEF WizOK, WizFields, PageOK, Ready, PageSame
    <2>7. PICK f : f = [s1 EXCEPT !.last = IF w.last = a.of THEN NoDir ELSE @]
      OBVIOUS
    <2>8. WizOK(f, clocks) /\ PageOK(f)
      BY <2>4, <2>7 DEF WizOK, WizFields, PageOK, Ready
    <2>9. Fine(nextBrowseCandidate(f))
      BY <2>8, CandidateKeeps, SamePage
    <2>10. w.dlg = "setup" => Fine(onSetupCWDChanged(s2, a.of))
      <3>1. SUFFICES ASSUME w.dlg = "setup"
                     PROVE  Fine(onSetupCWDChanged(s2, a.of))
        OBVIOUS
      <3>2. WizOK(onSetupCWDChanged(s2, a.of), clocks)
        BY <2>6, DirectoryKeeps
      <3>3. onSetupCWDChanged(s2, a.of) = onSetupCWDChanged([s1 EXCEPT !.cands = <<>>], a.of)
        BY <2>3, <2>5 DEF onSetupCWDChanged, WizOK, WizFields
      <3>4. PICK q : q = [s1 EXCEPT !.cands = <<>>]
        OBVIOUS
      <3>5. WizOK(q, clocks) /\ PageOK(q) /\ q.dlg = "setup"
        BY <2>3, <2>4, <3>1, <3>4 DEF WizOK, WizFields, PageOK, Ready, PageSame
      <3>6. PageOK(onSetupCWDChanged(q, a.of))
        BY <3>5, DirectoryKeeps
      <3> QED BY <3>2, <3>3, <3>4, <3>6
    <2>11. applyBrowseDir(ok, a) \in {onSetupCWDChanged(s2, a.of), s2, s1, nextBrowseCandidate(f)}
           /\ (applyBrowseDir(ok, a) = IF ok /\ InSetup THEN onSetupCWDChanged(s2, a.of)
                                       ELSE IF ok THEN s2
                                       ELSE IF w.cands = <<>> THEN s1 ELSE nextBrowseCandidate(f))
      BY <2>1, <2>2, <2>5, <2>7 DEF applyBrowseDir
    <2> QED BY <2>4, <2>6, <2>9, <2>10, <2>11 DEF InSetup
  <1>3. Fine(applyGitRepos(ok, a))
    <2>1. PICK s1 : s1 = [w EXCEPT !.scan["repo"] = WizQuiet]
      OBVIOUS
    <2>2. WizOK(s1, clocks) /\ PageSame(w, s1)
      BY <1>b, <2>1 DEF ScanKinds
    <2>3. Fine(s1)
      BY <1>0, <2>2, SamePage
    <2>4. PICK q : q = [s1 EXCEPT !.pick = Dirs]
      OBVIOUS
    <2>5. WizOK(q, clocks) /\ PageOK(q) /\ q.dlg = w.dlg
      BY <2>2, <2>3, <2>4 DEF WizOK, WizFields, PageOK, Ready, PageSame
    <2>6. w.dlg = "setup" => Fine(onSetupCWDChanged(q, a.of))
      BY <2>5, DirectoryKeeps
    <2>7. Fine(fallbackToRecentOrBrowser(s1))
      BY <2>3, FallbackKeeps, SamePage
    <2>8. applyGitRepos(ok, a) = IF ~InSetup THEN s1
                                 ELSE IF ok THEN onSetupCWDChanged(q, a.of)
                                 ELSE fallbackToRecentOrBrowser(s1)
      BY <2>1, <2>4 DEF applyGitRepos
    <2> QED BY <2>3, <2>6, <2>7, <2>8 DEF InSetup
  <1>4. Fine(applyExistingDirs(ok))
    <2>1. PICK s1 : s1 = [w EXCEPT !.scan["recent"] = WizQuiet]
      OBVIOUS
    <2>2. WizOK(s1, clocks) /\ PageSame(w, s1)
      BY <1>b, <2>1 DEF ScanKinds
    <2>3. Fine(s1)
      BY <1>0, <2>2, SamePage
    <2>4. PICK q, d : q = [s1 EXCEPT !.pick = w.recent] /\ d = CHOOSE x \in w.recent : TRUE
      OBVIOUS
    <2>5. WizOK(q, clocks) /\ PageOK(q) /\ q.dlg = w.dlg
      BY <2>2, <2>3, <2>4 DEF WizOK, WizFields, PageOK, Ready, PageSame
    <2>6. w.dlg = "setup" => Fine(onSetupCWDChanged(q, d))
      BY <2>5, DirectoryKeeps
    <2>7. Fine(initSetupBrowser(s1))
      BY <2>3, BrowserKeeps, SamePage
    <2>8. applyExistingDirs(ok) = IF ~InSetup THEN s1
                                  ELSE IF ok THEN onSetupCWDChanged(q, d)
                                  ELSE initSetupBrowser(s1)
      BY <2>1, <2>4 DEF applyExistingDirs
    <2> QED BY <2>3, <2>6, <2>7, <2>8 DEF InSetup
  <1>5. Fine(applyKubeContexts(ok))
    <2>1. PICK x : x = IF ok THEN "loaded" ELSE "failed"
      OBVIOUS
    <2>2. PICK s1 : s1 = [w EXCEPT !.scan["kube"].st = x]
      OBVIOUS
    <2>3. WizOK(s1, clocks) /\ PageSame(w, s1)
      BY <1>a, <2>1, <2>2 DEF ScanKinds
    <2>4. Fine(s1)
      BY <1>0, <2>3, SamePage
    <2>5. PICK q : q = [s1 EXCEPT !.ctx = FALSE]
      OBVIOUS
    <2>6. WizOK(q, clocks) /\ PageOK(q)
      BY <2>3, <2>4, <2>5 DEF WizOK, WizFields, PageOK, Ready
    <2>7. [w EXCEPT !.scan["kube"].st = x, !.ctx = FALSE] = q
      BY <2>2, <2>5
    <2> QED BY <1>0, <2>1, <2>6, <2>7 DEF applyKubeContexts
  <1>6. Fine(applyWorktreeList(ok))
    <2>1. PICK x : x = IF ok THEN "loaded" ELSE "norepo"
      OBVIOUS
    <2>2. PICK t : t = [w EXCEPT !.scan["trees"].st = x]
      OBVIOUS
    <2>3. /\ DOMAIN t = WizFields /\ t.scan = [w.scan EXCEPT !["trees"].st = x] /\ t.asked = w.asked /\ t.sess = w.sess
          /\ t.dlg = w.dlg /\ t.args = w.args /\ t.branch = w.branch /\ t.wt = w.wt /\ t.sid = w.sid
          /\ t.cur = w.cur /\ t.plug = w.plug /\ t.focus = w.focus /\ t.selCWD = w.selCWD
      BY <1>0, <2>2 DEF WizOK, WizFields
    <2>4. /\ DOMAIN t.scan = ScanKinds /\ t.scan["trees"].st = x /\ DOMAIN t.scan["trees"] = {"gen", "of", "st"}
          /\ t.scan["trees"].of = w.scan["trees"].of
          /\ \A j \in ScanKinds : j # "trees" => t.scan[j] = w.scan[j]
      BY <1>0, <2>3 DEF WizOK, ScanKinds
    <2>5. x # "pending" /\ x # "idle"
      BY <2>1
    <2>6. WizOK(t, clocks)
      BY <1>0, <2>3, <2>4, <2>5 DEF WizOK, ScanKinds
    <2>7. w.scan["trees"].st = "pending" => PageOK(t)
      BY <1>0, <2>3, <2>4 DEF PageOK, Ready
    <2> QED BY <1>0, <2>1, <2>2, <2>6, <2>7 DEF applyWorktreeList
  <1>7. Answered(a, ok) \in {w, applyClaudeSessions(ok, a), applyBrowseDir(ok, a), applyGitRepos(ok, a),
                             applyExistingDirs(ok), applyKubeContexts(ok), applyWorktreeList(ok)}
    BY <1>0 DEF Answered, Listed, ScanKinds
  <1> QED BY <1>0, <1>1, <1>2, <1>3, <1>4, <1>5, <1>6, <1>7

\* A timer: what it was for is given up, what is still pending has another.
LEMMA TimersKeep ==
    ASSUME WizInv, NEW a \in clocks
    PROVE  WizOK(TimedOut(a), clocks \ {a}) /\ PageOK(TimedOut(a))
  <1>0. WizOK(w, clocks) /\ PageOK(w) /\ a.kind \in Listed /\ w.asked = {}
    BY DEF WizInv
  <1> DEFINE Others == clocks \ {a}
  <1>1. CASE a.kind = "sess"
    <2>1. CASE w.sess = [of |-> a.of, st |-> "scanning"]
      <3>1. PICK t : t = [w EXCEPT !.sess.st = "timedOut"]
        OBVIOUS
      <3>2. TimedOut(a) = t
        BY <1>1, <2>1, <3>1 DEF TimedOut
      <3>3. /\ DOMAIN t = WizFields /\ t.scan = w.scan /\ t.asked = w.asked
            /\ t.sess = [of |-> w.sess.of, st |-> "timedOut"]
        BY <1>0, <3>1 DEF WizOK, WizFields
      <3>4. WizOK(t, Others)
        BY <1>0, <1>1, <3>3 DEF WizOK
      <3>5. PageOK(t)
        BY <1>0, <3>1 DEF WizOK, WizFields, PageOK, Ready
      <3> QED BY <3>2, <3>4, <3>5
    <2>2. CASE w.sess # [of |-> a.of, st |-> "scanning"]
      <3>1. TimedOut(a) = w
        BY <1>1, <2>2 DEF TimedOut
      <3>2. w.sess.st = "scanning" => w.sess.of # a.of
        BY <1>0, <2>2 DEF WizOK
      <3>3. WizOK(w, Others)
        BY <1>0, <1>1, <3>2 DEF WizOK
      <3> QED BY <1>0, <3>1, <3>3
    <2> QED BY <2>1, <2>2
  <1>2. CASE a.kind # "sess" /\ (~Current(a) \/ w.scan[a.kind].st # "pending")
    <2>1. TimedOut(a) = w
      BY <1>2 DEF TimedOut
    <2>2. WizOK(w, Others)
      BY <1>0, <1>2 DEF WizOK, Current
    <2> QED BY <1>0, <2>1, <2>2
  <1>3. CASE a.kind = "kube" /\ Current(a) /\ w.scan[a.kind].st = "pending"
    <2>1. TimedOut(a) = IF InSetup THEN [w EXCEPT !.scan["kube"].st = "failed"] ELSE w
      BY <1>3 DEF TimedOut
    <2>2. WizOK(w, Others)
      BY <1>0, <1>3 DEF WizOK
    <2>3. PICK t : t = [w EXCEPT !.scan["kube"].st = "failed"]
      OBVIOUS
    <2>4. /\ DOMAIN t = WizFields /\ t.scan = [w.scan EXCEPT !["kube"].st = "failed"] /\ t.asked = w.asked /\ t.sess = w.sess
      BY <1>0, <2>3 DEF WizOK, WizFields
    <2>5. /\ DOMAIN t.scan = ScanKinds /\ DOMAIN t.scan["kube"] = {"gen", "of", "st"}
          /\ \A j \in ScanKinds : j # "kube" => t.scan[j] = w.scan[j]
      BY <1>0, <2>4 DEF WizOK, ScanKinds
    <2>6. WizOK(t, Others)
      BY <2>2, <2>4, <2>5 DEF WizOK, ScanKinds
    <2>7. PageSame(w, t)
      BY <1>0, <2>3, <2>5 DEF WizOK, WizFields, PageSame, ScanKinds
    <2>8. PageOK(t)
      BY <1>0, <2>7, SamePage
    <2> QED BY <1>0, <2>1, <2>2, <2>3, <2>6, <2>8
  <1>4. CASE a.kind \in {"browse", "repo", "recent"} /\ Current(a) /\ w.scan[a.kind].st = "pending"
    <2>1. PICK k : k = a.kind
      OBVIOUS
    <2>2. PICK n : n = IF k = "browse" THEN [w.scan[k] EXCEPT !.st = "failed"] ELSE WizQuiet
      OBVIOUS
    <2>3. PICK t : t = [w EXCEPT !.scan[k] = n]
      OBVIOUS
    <2>4. TimedOut(a) = IF k = "recent" /\ InSetup THEN initSetupBrowser(t) ELSE t
      <3>1. CASE k = "browse"
        <4>1. t = [w EXCEPT !.scan["browse"].st = "failed"]
          BY <2>2, <2>3, <3>1
        <4> QED BY <1>4, <2>1, <3>1, <4>1 DEF TimedOut
      <3>2. CASE k = "repo"
        BY <1>4, <2>1, <2>2, <2>3, <3>2 DEF TimedOut
      <3>3. CASE k = "recent"
        BY <1>4, <2>1, <2>2, <2>3, <3>3 DEF TimedOut
      <3> QED BY <1>4, <2>1, <3>1, <3>2, <3>3
    <2>5. n.st # "pending" /\ DOMAIN n = {"gen", "of", "st"}
      BY <1>0, <1>4, <2>1, <2>2 DEF WizOK, WizQuiet, ScanKinds
    <2>6. /\ DOMAIN t = WizFields /\ t.scan = [w.scan EXCEPT ![k] = n] /\ t.asked = w.asked /\ t.sess = w.sess
      BY <1>0, <2>3 DEF WizOK, WizFields
    <2>7. /\ DOMAIN t.scan = ScanKinds /\ t.scan[k] = n
          /\ \A j \in ScanKinds : j # k => t.scan[j] = w.scan[j]
      BY <1>0, <1>4, <2>1, <2>6 DEF WizOK, ScanKinds
    <2>8. WizOK(t, Others)
      BY <1>0, <1>4, <2>1, <2>5, <2>6, <2>7 DEF WizOK, ScanKinds
    <2>9. PageSame(w, t)
      BY <1>0, <1>4, <2>1, <2>3, <2>7 DEF WizOK, WizFields, PageSame, ScanKinds
    <2>10. PageOK(t)
      BY <1>0, <2>9, SamePage
    <2>11. WizOK(initSetupBrowser(t), Others) /\ PageOK(initSetupBrowser(t))
      BY <2>8, <2>10, BrowserKeeps, SamePage
    <2> QED BY <2>4, <2>8, <2>10, <2>11
  <1>5. CASE a.kind = "trees" /\ Current(a) /\ w.scan[a.kind].st = "pending"
    <2>1. PICK t : t = [w EXCEPT !.scan["trees"].st = "failed"]
      OBVIOUS
    <2>2. TimedOut(a) = t
      BY <1>5, <2>1 DEF TimedOut
    <2>3. /\ DOMAIN t = WizFields /\ t.scan = [w.scan EXCEPT !["trees"].st = "failed"] /\ t.asked = w.asked /\ t.sess = w.sess
          /\ t.dlg = w.dlg /\ t.args = w.args /\ t.branch = w.branch /\ t.wt = w.wt /\ t.sid = w.sid
          /\ t.cur = w.cur /\ t.plug = w.plug /\ t.focus = w.focus /\ t.selCWD = w.selCWD
      BY <1>0, <2>1 DEF WizOK, WizFields
    <2>4. /\ DOMAIN t.scan = ScanKinds /\ t.scan["trees"].st = "failed" /\ DOMAIN t.scan["trees"] = {"gen", "of", "st"}
          /\ t.scan["trees"].of = w.scan["trees"].of
          /\ \A j \in ScanKinds : j # "trees" => t.scan[j] = w.scan[j]
      BY <1>0, <2>3 DEF WizOK, ScanKinds
    <2>5. WizOK(t, Others)
      BY <1>0, <1>5, <2>3, <2>4 DEF WizOK, ScanKinds
    <2>6. PageOK(t)
      BY <1>0, <1>5, <2>3, <2>4 DEF PageOK, Ready
    <2> QED BY <2>2, <2>5, <2>6
  <1> QED BY <1>0, <1>1, <1>2, <1>3, <1>4, <1>5 DEF Listed, ScanKinds

\* No dialog is open at first.
LEMMA WizStarts == WizInit => WizInv
  <1> SUFFICES ASSUME WizInit
               PROVE  WizInv
    OBVIOUS
  <1>1. DOMAIN WizQuiet = {"gen", "of", "st"} /\ WizQuiet.st = "idle"
    BY DEF WizQuiet
  <1>2. /\ DOMAIN w = WizFields /\ w.scan = [k \in ScanKinds |-> WizQuiet] /\ w.asked = {}
        /\ w.sess = [of |-> NoDir, st |-> "idle"]
        /\ w.args = 0 /\ w.branch = "none" /\ w.dlg = "none"
        /\ wizWire = {} /\ clocks = {} /\ made = NoDir
    BY DEF WizInit, WizFields, ScanKinds
  <1>3. WizOK(w, clocks)
    BY <1>1, <1>2 DEF WizOK, ScanKinds
  <1> QED BY <1>2, <1>3 DEF WizInv, PageOK, ReqOK

\* Taking a handler's result.
LEMMA TakenKeeps ==
    ASSUME WizInv, NEW r, Sent(r, clocks), WizKey(r)
    PROVE  WizInv'
  <1>1. /\ w' = [r.s EXCEPT !.asked = {}] /\ wizWire' = wizWire \cup r.s.asked
        /\ clocks' = clocks \cup r.s.asked /\ made' = r.req
    BY DEF WizKey, Take
  <1>2. WizOK(w', clocks') /\ w'.asked = {}
    BY <1>1 DEF Sent, WizOK, WizFields
  <1>3. PageOK(w')
    BY <1>1 DEF Sent, PageOK, Ready, WizOK, WizFields
  <1>4. \A a \in wizWire' \cup clocks' : a.kind \in Listed
    BY <1>1 DEF WizInv, Sent, WizOK
  <1> QED BY <1>1, <1>2, <1>3, <1>4 DEF WizInv, Sent

\* Every key, answer and timer keeps the dialog in order.
LEMMA WizKept == WizInv /\ [WizNext]_wizVars => WizInv'
  <1> SUFFICES ASSUME WizInv, [WizNext]_wizVars
               PROVE  WizInv'
    OBVIOUS
  <1>0. WizOK(w, clocks) /\ PageOK(w) /\ w.asked = {}
    BY DEF WizInv
  <1>q. ASSUME NEW s, WizOK(s, clocks), PageOK(s)
        PROVE  Sent(Goes(s), clocks)
    BY <1>q DEF Sent, Goes, ReqOK
  <1>1. ASSUME NEW x \in {"split", "tab"}, openCreatePaneDialogFor(x)
        PROVE  WizInv'
    <2>1. PICK t : t = [w EXCEPT !.dlg = "plugins", !.target = x]
      OBVIOUS
    <2>2. WizOK(t, clocks) /\ PageOK(t)
      BY <1>0, <2>1 DEF WizOK, WizFields, PageOK
    <2> QED BY <1>1, <1>q, <2>1, <2>2, TakenKeeps DEF openCreatePaneDialogFor
  <1>2. ASSUME NEW p \in Plugins, handleCreatePaneSelect(p)
        PROVE  WizInv'
    <2>1. PICK s : s = [w EXCEPT !.plug = p, !.args = 0]
      OBVIOUS
    <2>2. WizOK(s, clocks) /\ s.args = 0 /\ s.dlg = "plugins" /\ (s.branch # "none" => ~s.wt)
      BY <1>0, <1>2, <2>1 DEF WizOK, WizFields, PageOK, handleCreatePaneSelect
    <2>3. Sent(enterSetupOrSplit(s), clocks)
      BY <2>2, EnterKeeps
    <2>4. PICK t : t = [s EXCEPT !.dlg = "form"]
      OBVIOUS
    <2>5. WizOK(t, clocks) /\ PageOK(t)
      BY <2>2, <2>4 DEF WizOK, WizFields, PageOK
    <2>6. PICK r : r = IF p = "form" THEN Goes(t) ELSE enterSetupOrSplit(s)
      OBVIOUS
    <2>7. WizKey(r)
      BY <1>2, <2>1, <2>4, <2>6 DEF handleCreatePaneSelect
    <2>8. Sent(r, clocks)
      BY <1>q, <2>3, <2>5, <2>6
    <2> QED BY <2>7, <2>8, TakenKeeps
  <1>3. CASE submitInstanceForm
    <2>1. PICK s : s = [w EXCEPT !.args = 0]
      OBVIOUS
    <2>2. WizOK(s, clocks) /\ s.args = 0
      BY <1>0, <2>1 DEF WizOK, WizFields
    <2>3. Sent(enterSetupOrSplit(s), clocks)
      BY <2>2, EnterKeeps
    <2> QED BY <1>3, <2>1, <2>3, TakenKeeps DEF submitInstanceForm
  <1>4. CASE handleCreatePaneKeyEsc
    <2>1. PICK d \in {"none", "plugins", "form"} : WizKey(Goes([w EXCEPT !.dlg = d]))
      <3>1. PICK d : d = CASE w.dlg = "plugins" -> "none"
                          [] w.dlg = "form" -> "plugins"
                          [] OTHER -> IF w.plug = "form" THEN "form" ELSE "plugins"
        OBVIOUS
      <3>2. d \in {"none", "plugins", "form"}
        BY <3>1
      <3> QED BY <1>4, <3>1, <3>2 DEF handleCreatePaneKeyEsc
    <2>2. PICK t : t = [w EXCEPT !.dlg = d]
      OBVIOUS
    <2>3. WizOK(t, clocks) /\ PageOK(t)
      BY <1>0, <2>2 DEF WizOK, WizFields, PageOK
    <2> QED BY <1>q, <2>1, <2>2, <2>3, TakenKeeps
  <1>5. CASE SplitHere
    <2>1. Ready(w)
      BY <1>0, <1>5 DEF SplitHere, PageOK
    <2>2. Sent(handleCreatePaneSplit(w), clocks)
      BY <1>0, <2>1, SplitKeeps
    <2> QED BY <1>5, <2>2, TakenKeeps DEF SplitHere
  <1>6. CASE SetupEsc
    <2>1. PICK t : t = [w EXCEPT !.dlg = "plugins"]
      OBVIOUS
    <2>2. WizOK(t, clocks) /\ PageOK(t)
      BY <1>0, <2>1 DEF WizOK, WizFields, PageOK
    <2> QED BY <1>6, <1>q, <2>1, <2>2, TakenKeeps DEF SetupEsc
  <1>7. ASSUME NEW f \in {"cwd", "worktree", "sandbox", "session", "continue"}, moveSetupCursor(f)
        PROVE  WizInv'
    <2>1. PICK s : s = [w EXCEPT !.focus = f]
      OBVIOUS
    <2>2. WizOK(s, clocks) /\ PageOK(s) /\ s.dlg = "setup"
      <3>1. ~PromptsCWD(w.plug) => f = "continue"
        BY <1>7 DEF moveSetupCursor
      <3>2. w.dlg = "setup"
        BY <1>7 DEF moveSetupCursor, InSetup
      <3> QED BY <1>0, <2>1, <3>1, <3>2 DEF WizOK, WizFields, PageOK
    <2>3. PICK t : t = CASE f = "session" -> ensureSessionScan(s)
                       [] f = "worktree" -> requestWorktrees(s)
                       [] OTHER -> s
      OBVIOUS
    <2>4. WizOK(t, clocks) /\ PageOK(t)
      BY <2>2, <2>3, ScanKeeps
    <2>5. WizKey(Goes(t))
      BY <1>7, <2>1, <2>3 DEF moveSetupCursor
    <2> QED BY <1>q, <2>4, <2>5, TakenKeeps
  <1>8. ASSUME NEW d \in Dirs, browseTo(d)
        PROVE  WizInv'
    <2>1. PICK s : s = [w EXCEPT !.cands = <<>>]
      OBVIOUS
    <2>2. WizOK(s, clocks) /\ PageOK(s)
      BY <1>0, <2>1 DEF WizOK, WizFields, PageOK, Ready
    <2>3. WizOK(WizAsk(s, "browse", d), clocks) /\ PageOK(WizAsk(s, "browse", d))
      BY <2>2, AskKeeps, SamePage DEF ScanKinds
    <2> QED BY <1>8, <1>q, <2>1, <2>3, TakenKeeps DEF browseTo
  <1>9. CASE showRootsList
    <2>1. WizOK(onSetupCWDChanged(w, NoDir), clocks) /\ PageOK(onSetupCWDChanged(w, NoDir))
      BY <1>0, <1>9, DirectoryKeeps DEF showRootsList, InSetup
    <2> QED BY <1>9, <1>q, <2>1, TakenKeeps DEF showRootsList
  <1>10. CASE handleSetupPickKey
    <2>1. w.dlg = "setup"
      BY <1>10 DEF handleSetupPickKey, InSetup
    <2>2. ASSUME NEW d, WizKey(Goes(onSetupCWDChanged(w, d)))
          PROVE  WizInv'
      <3>1. WizOK(onSetupCWDChanged(w, d), clocks) /\ PageOK(onSetupCWDChanged(w, d))
        BY <1>0, <2>1, DirectoryKeeps
      <3> QED BY <1>q, <2>2, <3>1, TakenKeeps
    <2>3. CASE WizKey(Goes(initSetupBrowser(onSetupCWDChanged([w EXCEPT !.pick = {}], NoDir))))
      <3>1. PICK s : s = [w EXCEPT !.pick = {}]
        OBVIOUS
      <3>2. WizOK(s, clocks) /\ PageOK(s) /\ s.dlg = "setup"
        BY <1>0, <2>1, <3>1 DEF WizOK, WizFields, PageOK
      <3>3. PICK t : t = onSetupCWDChanged(s, NoDir)
        OBVIOUS
      <3>4. WizOK(t, clocks) /\ PageOK(t)
        BY <3>2, <3>3, DirectoryKeeps
      <3>5. WizOK(initSetupBrowser(t), clocks) /\ PageOK(initSetupBrowser(t))
        BY <3>4, BrowserKeeps, SamePage
      <3> QED BY <1>q, <2>3, <3>1, <3>3, <3>5, TakenKeeps
    <2> QED BY <1>10, <2>2, <2>3 DEF handleSetupPickKey
  <1>11. CASE handleSetupKubeKey
    <2>1. PICK t : t = [w EXCEPT !.ctx = TRUE]
      OBVIOUS
    <2>2. WizOK(t, clocks) /\ PageOK(t)
      BY <1>0, <2>1 DEF WizOK, WizFields, PageOK, Ready
    <2> QED BY <1>11, <1>q, <2>1, <2>2, TakenKeeps DEF handleSetupKubeKey
  <1>12. CASE handleSetupWorktreeKey
    <2>1. PICK wt \in BOOLEAN, branch \in {"none", "fresh", "taken"} :
            (wt => branch = "none") /\ WizKey(Goes([w EXCEPT !.wt = wt, !.branch = branch, !.sid = NoDir]))
      BY <1>12 DEF handleSetupWorktreeKey
    <2>2. w.dlg = "setup" /\ w.focus = "worktree"
      BY <1>12 DEF handleSetupWorktreeKey, InSetup
    <2>3. PICK t : t = [w EXCEPT !.wt = wt, !.branch = branch, !.sid = NoDir]
      OBVIOUS
    <2>4. WizOK(t, clocks) /\ PageOK(t)
      BY <1>0, <2>1, <2>2, <2>3 DEF WizOK, WizFields, PageOK
    <2> QED BY <1>q, <2>1, <2>3, <2>4, TakenKeeps
  <1>13. CASE editSandboxRow
    <2>1. PICK v : WizKey(Goes([w EXCEPT !.sbx = v]))
      BY <1>13 DEF editSandboxRow
    <2>2. PICK t : t = [w EXCEPT !.sbx = v]
      OBVIOUS
    <2>3. WizOK(t, clocks) /\ PageOK(t)
      BY <1>0, <2>2 DEF WizOK, WizFields, PageOK, Ready
    <2> QED BY <1>q, <2>1, <2>2, <2>3, TakenKeeps
  <1>14. CASE SubmitKey
    <2>1. Sent(submitSetupDialog(w), clocks)
      BY <1>0, <1>14, SubmitKeeps DEF SubmitKey, InSetup
    <2> QED BY <1>14, <2>1, TakenKeeps DEF SubmitKey
  <1>15. CASE handleSetupSessionKey
    <2>1. PICK row \in {NoDir} \cup {w.sess.of} : WizKey(submitSetupDialog([w EXCEPT !.sid = row]))
      BY <1>15 DEF handleSetupSessionKey
    <2>2. w.dlg = "setup" /\ w.focus = "session"
      BY <1>15 DEF handleSetupSessionKey, InSetup
    <2>3. PICK s : s = [w EXCEPT !.sid = row]
      OBVIOUS
    <2>4. WizOK(s, clocks) /\ PageOK(s) /\ s.dlg = "setup"
      BY <1>0, <2>1, <2>2, <2>3 DEF WizOK, WizFields, PageOK
    <2>5. Sent(submitSetupDialog(s), clocks)
      BY <2>4, SubmitKeeps
    <2> QED BY <2>1, <2>3, <2>5, TakenKeeps
  <1>16. ASSUME NEW a \in wizWire, NEW ok \in BOOLEAN, Answer(a, ok)
         PROVE  WizInv'
    <2>1. PICK s : s = Answered(a, ok)
      OBVIOUS
    <2>2. WizOK(s, clocks) /\ PageOK(s)
      BY <2>1, AnswersKeep
    <2>3. /\ w' = [s EXCEPT !.asked = {}] /\ wizWire' = (wizWire \ {a}) \cup s.asked
          /\ clocks' = clocks \cup s.asked /\ made' = NoDir
      BY <1>16, <2>1 DEF Answer
    <2>4. WizOK(w', clocks') /\ w'.asked = {}
      BY <2>2, <2>3 DEF WizOK, WizFields
    <2>5. PageOK(w')
      BY <2>2, <2>3 DEF PageOK, Ready, WizOK, WizFields
    <2>6. \A b \in wizWire' \cup clocks' : b.kind \in Listed
      BY <2>2, <2>3 DEF WizInv, WizOK
    <2> QED BY <2>3, <2>4, <2>5, <2>6 DEF WizInv, ReqOK
  <1>17. ASSUME NEW a \in clocks, Timeout(a)
         PROVE  WizInv'
    <2>1. PICK s : s = TimedOut(a)
      OBVIOUS
    <2>2. WizOK(s, clocks \ {a}) /\ PageOK(s)
      BY <2>1, TimersKeep
    <2>3. /\ w' = [s EXCEPT !.asked = {}] /\ wizWire' = wizWire \cup s.asked
          /\ clocks' = (clocks \ {a}) \cup s.asked /\ made' = NoDir
      BY <1>17, <2>1 DEF Timeout
    <2>4. WizOK(w', clocks') /\ w'.asked = {}
      BY <2>2, <2>3 DEF WizOK, WizFields
    <2>5. PageOK(w')
      BY <2>2, <2>3 DEF PageOK, Ready, WizOK, WizFields
    <2>6. \A b \in wizWire' \cup clocks' : b.kind \in Listed
      BY <2>2, <2>3 DEF WizInv, WizOK
    <2> QED BY <2>3, <2>4, <2>5, <2>6 DEF WizInv, ReqOK
  <1>18. CASE UNCHANGED wizVars
    BY <1>18 DEF wizVars, WizInv, WizOK, PageOK, Ready, ReqOK, PromptsCWD
  <1> QED BY <1>1, <1>2, <1>3, <1>4, <1>5, <1>6, <1>7, <1>8, <1>9, <1>10, <1>11, <1>12, <1>13, <1>14, <1>15,
             <1>16, <1>17, <1>18 DEF WizNext

\* What leaves the dialog is what it showed, and no list scans without a clock:
\* for any directories and any order of keys, answers and timers.
THEOREM SentAsShown == WizSpec => []AskedAsShown
  <1>1. WizInv => AskedAsShown
    BY DEF WizInv, WizOK, ReqOK, AskedAsShown, ScanKinds
  <1> QED BY WizStarts, WizKept, <1>1, PTL DEF WizSpec

-----------------------------------------------------------------------------
(* Stopping a process                                                        *)

\* The pids a process may have.
PidsEver == Pids \cup {RootPid}
\* A node of a tree as the walk records it.
TreeNode == [start : 1 .. MaxStart, pid : PidsEver, depth : Nat, known : BOOLEAN]
\* No process outlives its number, no pid has two holders, and the pane's first child was given RootPid.
Numbered ==
    /\ clock \in 1 .. MaxStart
    /\ procs \in [1 .. MaxStart -> [pid : PidsEver, ppid : PidsEver, anc : SUBSET (1 .. MaxStart), up : BOOLEAN]]
    /\ \A s \in Up : s <= clock
    /\ \A r, s \in Up : procs[r].pid = procs[s].pid => r = s
    /\ RootStart \in Up => procs[RootStart].pid = RootPid
\* A live process descends from itself and from every older live process its ppid names.
Descended ==
    /\ \A s \in Up : s \in procs[s].anc
    /\ \A r, s \in Up : /\ procs[s].ppid = procs[r].pid /\ procs[s].pid # procs[s].ppid /\ r < s
                        => procs[r].anc \subseteq procs[s].anc
\* What may be signalled: not the pane's own child, and a descendant of what was confirmed.
Rightful(a) == a # {RootStart} /\ a \cap meant # {}
\* Whatever the sweep holds that still runs is rightful.
Swept ==
    /\ sweep \in [pc : {"idle", "term", "kill"}, todo : SUBSET TreeNode, termed : SUBSET TreeNode]
    /\ \A n \in sweep.todo \cup sweep.termed :
         n.start <= clock /\ (n.known /\ n.start \in Up => Rightful(procs[n.start].anc))
    /\ \A n \in sweep.termed : n.known
    /\ sweep.pc = "kill" => \A n \in sweep.todo : n.known
\* A kill on its way was confirmed.
Asked == \A c \in calls : c.call = "kill" => c.start \in meant
\* The inductive invariant.
KillInv == Numbered /\ Descended /\ Swept /\ Asked /\ StopsWhatWasConfirmed
-----------------------------------------------------------------------------
\* Whatever holds somewhere holds first somewhere.
LEMMA Least ==
  ASSUME NEW T, T \subseteq Nat, T # {}
  PROVE  \E m \in T : \A k \in T : m <= k
  <1>1. PICK m \in T : \A k \in T : <<k, m>> \notin OpToRel(<, Nat)
    BY NatLessThanWellFounded, WFMin
  <1>2. \A k \in T : ~(k < m)
    BY <1>1 DEF OpToRel
  <1> QED BY <1>2

\* What holds at 0 and is passed on holds up to n.
LEMMA UpTo ==
  ASSUME NEW n \in Nat, NEW G, 0 \in G, \A i \in 1 .. n : i - 1 \in G => i \in G
  PROVE  \A i \in 0 .. n : i \in G
  <1> SUFFICES ASSUME NEW z \in 0 .. n, z \notin G PROVE FALSE
    OBVIOUS
  <1>1. PICK B : B = {i \in 0 .. n : i \notin G}
    OBVIOUS
  <1>2. PICK m \in B : \A k \in B : m <= k
    <2>1. B \subseteq Nat /\ B # {}
      BY <1>1
    <2> QED BY <2>1, Least
  <1>3. m \in 1 .. n /\ m \notin G
    BY <1>1, <1>2
  <1>4. m - 1 \in 0 .. n /\ m - 1 \notin B
    BY <1>1, <1>2, <1>3
  <1> QED BY <1>1, <1>3, <1>4

\* A loop of n turns over V: F[i] is what turn i does, f the values between.
Turns(F, n, V) == \A i \in 1 .. n, x \in V : F[i][x] \in V
Run(f, F, n, v, V) == f \in [0 .. n -> V] /\ f[0] = v /\ \A i \in 1 .. n : f[i] = F[i][f[i - 1]]

\* It runs to its end.
LEMMA Iteration ==
  ASSUME NEW V, NEW v \in V, NEW n \in Nat, NEW F, Turns(F, n, V)
  PROVE  \E f : Run(f, F, n, v, V)
  <1>1. PICK G : G = {m \in 0 .. n : \E f \in [0 .. m -> V] :
                         f[0] = v /\ \A i \in 1 .. m : f[i] = F[i][f[i - 1]]}
    OBVIOUS
  <1>2. 0 \in G
    <2>1. PICK f : f = [i \in 0 .. 0 |-> v]
      OBVIOUS
    <2>2. f \in [0 .. 0 -> V] /\ f[0] = v /\ \A i \in 1 .. 0 : f[i] = F[i][f[i - 1]]
      BY <2>1
    <2>3. 0 \in 0 .. n
      OBVIOUS
    <2> QED BY <1>1, <2>2, <2>3
  <1>3. ASSUME NEW m \in 1 .. n, m - 1 \in G PROVE m \in G
    <2>1. PICK f \in [0 .. m - 1 -> V] : f[0] = v /\ \A i \in 1 .. m - 1 : f[i] = F[i][f[i - 1]]
      BY <1>1, <1>3
    <2>2. F[m][f[m - 1]] \in V
      BY <2>1 DEF Turns
    <2>3. PICK h : h = [i \in 0 .. m |-> IF i = m THEN F[m][f[m - 1]] ELSE f[i]]
      OBVIOUS
    <2>4. h \in [0 .. m -> V] /\ h[0] = v
      BY <2>1, <2>2, <2>3
    <2>5. ASSUME NEW i \in 1 .. m PROVE h[i] = F[i][h[i - 1]]
      <3>1. h[i - 1] = f[i - 1]
        BY <2>3
      <3>2. CASE i = m
        BY <2>3, <3>1, <3>2
      <3>3. CASE i # m
        <4>1. i \in 1 .. m - 1 /\ h[i] = f[i]
          BY <2>3, <3>3
        <4> QED BY <2>1, <3>1, <4>1
      <3> QED BY <3>2, <3>3
    <2>6. m \in 0 .. n
      OBVIOUS
    <2> QED BY <1>1, <2>4, <2>5, <2>6
  <1>4. n \in G
    <2>1. \A m \in 1 .. n : m - 1 \in G => m \in G
      BY <1>3
    <2>2. \A m \in 0 .. n : m \in G
      BY <1>2, <2>1, UpTo
    <2> QED BY <2>2
  <1>5. PICK f \in [0 .. n -> V] : f[0] = v /\ \A i \in 1 .. n : f[i] = F[i][f[i - 1]]
    BY <1>1, <1>4
  <1> QED BY <1>5 DEF Run

-----------------------------------------------------------------------------
\* What a level is: the nodes at it and those visited so far.
AtLevel == [at : SUBSET (1 .. MaxStart), seen : SUBSET (1 .. MaxStart)]
Descends(f, top, seen, dark) ==
    /\ f \in [0 .. MaxStart -> AtLevel]
    /\ f[0] = [at |-> top, seen |-> seen \cup top]
    /\ \A k \in 1 .. MaxStart : f[k] = Descend(f[k - 1], dark)

\* A level down leads from levels to levels.
LEMMA DescendIs ==
  ASSUME NEW up \in AtLevel, NEW dark
  PROVE  Descend(up, dark) \in AtLevel
  <1>1. \A c \in Up : c \in 1 .. MaxStart
    BY DEF Up
  <1>2. PICK kids : kids = {c \in Up \ up.seen : \E s \in up.at : c \in ChildrenIn(Up, dark, s)}
    OBVIOUS
  <1>3. kids \subseteq 1 .. MaxStart
    BY <1>1, <1>2
  <1>4. Descend(up, dark) = [at |-> kids, seen |-> up.seen \cup kids]
    BY <1>2 DEF Descend
  <1>5. up.seen \cup kids \subseteq 1 .. MaxStart
    BY <1>3 DEF AtLevel
  <1> QED BY <1>3, <1>4, <1>5 DEF AtLevel

\* The recursion of Levels has a solution.
LEMMA LevelsAre ==
  ASSUME NEW top \in SUBSET (1 .. MaxStart), NEW seen \in SUBSET (1 .. MaxStart), NEW dark
  PROVE  Descends(Levels(top, seen, dark), top, seen, dark)
  <1>1. MaxStart \in Nat /\ 0 \in 0 .. MaxStart /\ MaxStart # 0
    BY KillAssumption
  <1>2. PICK n \in Nat : n = MaxStart
    BY <1>1
  <1>3. PICK V : V = AtLevel
    OBVIOUS
  <1>4. PICK v \in V : v = [at |-> top, seen |-> seen \cup top]
    BY <1>3 DEF AtLevel
  <1>5. PICK F : F = [k \in 1 .. n |-> [x \in V |-> Descend(x, dark)]]
    OBVIOUS
  <1>6. Turns(F, n, V)
    BY <1>3, <1>5, DescendIs DEF Turns
  <1>7. PICK f : Run(f, F, n, v, V)
    BY <1>6, Iteration
  <1>8. f \in [0 .. n -> V] /\ f[0] = v /\ \A k \in 1 .. n : f[k] = F[k][f[k - 1]]
    BY <1>7 DEF Run
  <1>9. ASSUME NEW k \in 1 .. n PROVE f[k] = Descend(f[k - 1], dark)
    <2>1. f[k - 1] \in V
      BY <1>8
    <2> QED BY <1>5, <1>8, <2>1
  <1>10. f = [k \in 0 .. n |-> IF k = 0 THEN v ELSE Descend(f[k - 1], dark)]
    <2>1. f = [k \in 0 .. n |-> f[k]]
      BY <1>8
    <2>2. ASSUME NEW k \in 0 .. n PROVE f[k] = IF k = 0 THEN v ELSE Descend(f[k - 1], dark)
      BY <1>8, <1>9
    <2> QED BY <2>1, <2>2
  <1>11. \E e : e = [k \in 0 .. MaxStart |-> IF k = 0 THEN [at |-> top, seen |-> seen \cup top]
                                             ELSE Descend(e[k - 1], dark)]
    BY <1>2, <1>4, <1>10
  <1>12. PICK e : /\ Levels(top, seen, dark) = e
                  /\ e = [k \in 0 .. MaxStart |-> IF k = 0 THEN [at |-> top, seen |-> seen \cup top]
                                             ELSE Descend(e[k - 1], dark)]
    BY <1>11 DEF Levels
  <1>13. e[0] = v
    BY <1>1, <1>4, <1>12
  <1>14. ASSUME NEW k \in 1 .. n PROVE e[k] = Descend(e[k - 1], dark)
    <2>1. k \in 0 .. MaxStart /\ k # 0
      BY <1>2
    <2> QED BY <1>12, <2>1
  <1>15. \A k \in 0 .. n : e[k] \in V
    <2>1. PICK G : G = {k \in 0 .. n : e[k] \in V}
      OBVIOUS
    <2>2. 0 \in G
      BY <1>13, <2>1
    <2>3. ASSUME NEW k \in 1 .. n, k - 1 \in G PROVE k \in G
      BY <1>3, <1>14, <2>1, <2>3, DescendIs
    <2>4. \A k \in 0 .. n : k \in G
      BY <2>2, <2>3, UpTo
    <2> QED BY <2>1, <2>4
  <1>16. e \in [0 .. n -> V]
    BY <1>2, <1>12, <1>15
  <1> QED BY <1>2, <1>3, <1>4, <1>12, <1>13, <1>14, <1>16 DEF Descends

\* A level's nodes are children of the level above, seen for the first time.
LEMMA LevelBelow ==
  ASSUME NEW top, NEW seen, NEW dark, NEW f, Descends(f, top, seen, dark), NEW k \in 1 .. MaxStart
  PROVE  /\ f[k].at \subseteq Up
         /\ f[k].seen = f[k - 1].seen \cup f[k].at
         /\ f[k].at \cap f[k - 1].seen = {}
         /\ \A c \in f[k].at : \E s \in f[k - 1].at : c \in ChildrenIn(Up, dark, s)
         /\ \A c \in Up, s \in f[k - 1].at : c \in ChildrenIn(Up, dark, s) /\ c \notin f[k - 1].seen => c \in f[k].at
  <1>1. f[k] = Descend(f[k - 1], dark)
    BY DEF Descends
  <1>2. PICK kids : kids = {c \in Up \ f[k - 1].seen : \E s \in f[k - 1].at : c \in ChildrenIn(Up, dark, s)}
    OBVIOUS
  <1>3. f[k] = [at |-> kids, seen |-> f[k - 1].seen \cup kids]
    BY <1>1, <1>2 DEF Descend
  <1>4. f[k].at = kids /\ f[k].seen = f[k - 1].seen \cup kids
    BY <1>3
  <1> QED BY <1>2, <1>4

\* Whatever was visited before the first level is at no lower one, and what has
\* been visited is at some level.
LEMMA LevelsVisit ==
  ASSUME NEW top, NEW seen, NEW dark, NEW f, Descends(f, top, seen, dark), NEW k \in 0 .. MaxStart
  PROVE  /\ seen \cup top \subseteq f[k].seen /\ f[k].at \subseteq f[k].seen
         /\ \A c \in f[k].seen : c \in seen \/ \E j \in 0 .. MaxStart : c \in f[j].at
  <1>1. PICK n \in Nat : n = MaxStart
    BY KillAssumption
  <1>2. PICK G : G = {i \in 0 .. n : /\ seen \cup top \subseteq f[i].seen /\ f[i].at \subseteq f[i].seen
                                     /\ \A c \in f[i].seen : c \in seen \/ \E j \in 0 .. n : c \in f[j].at}
    OBVIOUS
  <1>3. 0 \in G
    <2>1. f[0].at = top /\ f[0].seen = seen \cup top
      BY DEF Descends
    <2>2. 0 \in 0 .. n
      OBVIOUS
    <2> QED BY <1>2, <2>1, <2>2
  <1>4. ASSUME NEW i \in 1 .. n, i - 1 \in G PROVE i \in G
    <2>1. f[i].seen = f[i - 1].seen \cup f[i].at
      BY <1>1, LevelBelow
    <2>2. i \in 0 .. n
      OBVIOUS
    <2> QED BY <1>2, <1>4, <2>1, <2>2
  <1>5. \A i \in 0 .. n : i \in G
    BY <1>3, <1>4, UpTo
  <1> QED BY <1>1, <1>2, <1>5

\* The last level is empty: every level above it took a process of its own.
LEMMA LevelsEnd ==
  ASSUME NEW top \in SUBSET (1 .. MaxStart), NEW seen \in SUBSET (1 .. MaxStart), NEW dark,
         NEW f, Descends(f, top, seen, dark)
  PROVE  f[MaxStart].at = {}
  <1>1. PICK n \in Nat : n = MaxStart
    BY KillAssumption
  <1>2. IsFiniteSet(1 .. n) /\ Cardinality(1 .. n) = n
    BY FS_Interval
  <1>3. ASSUME NEW i \in 0 .. n
        PROVE  f[i].seen \subseteq 1 .. n /\ IsFiniteSet(f[i].seen) /\ Cardinality(f[i].seen) \in Nat
               /\ Cardinality(f[i].seen) <= n
    <2>1. f[i] \in AtLevel
      BY <1>1 DEF Descends
    <2>2. f[i].seen \subseteq 1 .. n
      BY <1>1, <2>1 DEF AtLevel
    <2> QED BY <1>2, <2>2, FS_Subset, FS_CardinalityType
  <1>4. PICK G : G = {i \in 0 .. n : f[i].at # {} => Cardinality(f[i].seen) >= i + 1}
    OBVIOUS
  <1>5. 0 \in G
    <2>1. f[0].at = top /\ f[0].seen = seen \cup top
      BY DEF Descends
    <2>2. ASSUME f[0].at # {} PROVE Cardinality(f[0].seen) >= 1
      <3>1. f[0].seen # {}
        BY <2>1, <2>2
      <3>2. Cardinality(f[0].seen) # 0
        BY <1>3, <3>1, FS_EmptySet
      <3> QED BY <1>3, <3>2
    <2> QED BY <1>4, <2>2
  <1>6. ASSUME NEW i \in 1 .. n, i - 1 \in G PROVE i \in G
    <2>1. ASSUME f[i].at # {} PROVE Cardinality(f[i].seen) >= i + 1
      <3>1. i - 1 \in 0 .. n /\ i \in 0 .. n
        OBVIOUS
      <3>2. f[i - 1].at # {}
        BY <1>1, <2>1, LevelBelow
      <3>3. Cardinality(f[i - 1].seen) >= i
        BY <1>4, <1>6, <3>2
      <3>4. f[i - 1].seen \subseteq f[i].seen /\ f[i - 1].seen # f[i].seen
        BY <1>1, <2>1, LevelBelow
      <3>5. Cardinality(f[i - 1].seen) < Cardinality(f[i].seen)
        BY <1>3, <3>1, <3>4, FS_Subset
      <3> QED BY <1>3, <3>1, <3>3, <3>5
    <2>2. i \in 0 .. n
      OBVIOUS
    <2> QED BY <1>4, <2>1, <2>2
  <1>7. n \in G
    BY <1>5, <1>6, UpTo
  <1>8. n \in 0 .. n
    OBVIOUS
  <1>9. ~(Cardinality(f[n].seen) >= n + 1)
    BY <1>3, <1>8
  <1> QED BY <1>1, <1>4, <1>7, <1>9

-----------------------------------------------------------------------------
(* Trees *)

\* The processes of a tree, by their starts.
Starts(tree) == {n.start : n \in tree}

\* A node of a tree stands at a level.
LEMMA TreeNodes ==
  ASSUME NEW top \in SUBSET (1 .. MaxStart), NEW seen \in SUBSET (1 .. MaxStart), NEW dark
  PROVE  \E f : /\ Descends(f, top, seen, dark)
                /\ \A n \in walk(top, seen, dark) : \E k \in 0 .. MaxStart : \E s \in f[k].at : n = Node(s, k + 1, dark)
                /\ \A s : s \in Starts(walk(top, seen, dark)) <=> \E k \in 0 .. MaxStart : s \in f[k].at
  <1>1. PICK f : f = Levels(top, seen, dark)
    OBVIOUS
  <1>2. Descends(f, top, seen, dark)
    BY <1>1, LevelsAre
  <1>3. PICK T : T = walk(top, seen, dark)
    OBVIOUS
  <1>4. T = UNION {{Node(s, k + 1, dark) : s \in f[k].at} : k \in 0 .. MaxStart}
    BY <1>1, <1>3 DEF walk
  <1>5. ASSUME NEW n \in T
        PROVE  \E k \in 0 .. MaxStart : \E s \in f[k].at : n = Node(s, k + 1, dark)
    BY <1>4
  <1>6. \A k \in 0 .. MaxStart : \A s \in f[k].at : Node(s, k + 1, dark) \in T
    BY <1>4
  <1>7. \A s, d : Node(s, d, dark).start = s
    BY DEF Node
  <1>8. ASSUME NEW s PROVE s \in Starts(T) <=> \E k \in 0 .. MaxStart : s \in f[k].at
    BY <1>5, <1>6, <1>7 DEF Starts
  <1> QED BY <1>2, <1>3, <1>5, <1>8

\* A tree contains its nodes' children, but for those visited before.
LEMMA TreeClosed ==
  ASSUME NEW top \in SUBSET (1 .. MaxStart), NEW seen \in SUBSET (1 .. MaxStart), NEW dark,
         NEW s \in Starts(walk(top, seen, dark)), NEW c \in Up, c \in ChildrenIn(Up, dark, s), c \notin seen
  PROVE  c \in Starts(walk(top, seen, dark))
  <1>1. PICK f : /\ Descends(f, top, seen, dark)
                 /\ \A x : x \in Starts(walk(top, seen, dark)) <=> \E k \in 0 .. MaxStart : x \in f[k].at
    BY TreeNodes
  <1>2. PICK k \in 0 .. MaxStart : s \in f[k].at
    BY <1>1
  <1>3. k # MaxStart
    BY <1>1, <1>2, LevelsEnd
  <1>4. k + 1 \in 1 .. MaxStart /\ k + 1 \in 0 .. MaxStart /\ (k + 1) - 1 = k
    BY <1>3, KillAssumption
  <1>5. CASE c \in f[k].seen
    BY <1>1, <1>5, LevelsVisit
  <1>6. CASE c \notin f[k].seen
    <2>1. c \in f[k + 1].at
      BY <1>1, <1>2, <1>4, <1>6, LevelBelow
    <2> QED BY <1>1, <1>4, <2>1
  <1> QED BY <1>5, <1>6

\* A subtree's processes are up, and all but its top are neither the pane's own
\* child nor the top.
LEMMA SubtreeLevels ==
  ASSUME NEW t \in Up, NEW dark
  PROVE  \E f : /\ Descends(f, {t}, Holder(RootPid), dark)
                /\ \A n \in Subtree(t, dark) : \E k \in 0 .. MaxStart : \E s \in f[k].at : n = Node(s, k + 1, dark)
                /\ \A s : s \in Starts(Subtree(t, dark)) <=> \E k \in 0 .. MaxStart : s \in f[k].at
                /\ \A k \in 1 .. MaxStart : f[k].at \cap (Holder(RootPid) \cup {t}) = {}
  <1>1. {t} \in SUBSET (1 .. MaxStart) /\ Holder(RootPid) \in SUBSET (1 .. MaxStart)
    BY DEF Up, Holder
  <1>2. PICK f : /\ Descends(f, {t}, Holder(RootPid), dark)
                 /\ \A n \in Subtree(t, dark) : \E k \in 0 .. MaxStart : \E s \in f[k].at : n = Node(s, k + 1, dark)
                 /\ \A s : s \in Starts(Subtree(t, dark)) <=> \E k \in 0 .. MaxStart : s \in f[k].at
    BY <1>1, TreeNodes DEF Subtree
  <1>3. ASSUME NEW k \in 1 .. MaxStart PROVE f[k].at \cap (Holder(RootPid) \cup {t}) = {}
    <2>1. k - 1 \in 0 .. MaxStart
      BY KillAssumption
    <2>2. Holder(RootPid) \cup {t} \subseteq f[k - 1].seen
      BY <1>2, <2>1, LevelsVisit
    <2>3. f[k].at \cap f[k - 1].seen = {}
      BY <1>2, LevelBelow
    <2> QED BY <2>2, <2>3
  <1> QED BY <1>2, <1>3

\* Behind a node of unknown start nothing is verifiable.
LEMMA Unverified ==
  ASSUME NEW t \in Up, NEW dark, NEW b \in Up, b \in Starts(Subtree(t, dark)), b \in dark,
         NEW p \in Starts(Subtree(b, dark)), NEW c \in Up, c \in ChildrenIn(Up, dark, p),
         c \notin Holder(RootPid), c # b
  PROVE  c \in unverifiableSubtrees(t, dark)
  <1>1. {b} \in SUBSET (1 .. MaxStart) /\ Holder(RootPid) \in SUBSET (1 .. MaxStart)
    BY DEF Up, Holder
  <1>2. c \in Starts(Subtree(b, dark))
    BY <1>1, TreeClosed DEF Subtree
  <1> QED BY <1>2 DEF unverifiableSubtrees, Starts

\* What hangs below a node with all starts between known descends from it.
LEMMA SubtreeDescends ==
  ASSUME Numbered, Descended, NEW t \in Up, NEW dark, NEW n \in Subtree(t, dark),
         n.start \notin unverifiableSubtrees(t, dark), n.start \notin dark
  PROVE  n.start \in Up /\ procs[t].anc \subseteq procs[n.start].anc
  <1>1. PICK f : /\ Descends(f, {t}, Holder(RootPid), dark)
                 /\ \A s : s \in Starts(Subtree(t, dark)) <=> \E k \in 0 .. MaxStart : s \in f[k].at
                 /\ \A k \in 1 .. MaxStart : f[k].at \cap (Holder(RootPid) \cup {t}) = {}
    BY SubtreeLevels
  <1>2. PICK m \in Nat : m = MaxStart
    BY KillAssumption
  <1>3. PICK U : U = unverifiableSubtrees(t, dark)
    OBVIOUS
  <1>4. PICK G : G = {k \in 0 .. m : \A c \in f[k].at : c \in Up /\ (c \notin dark /\ c \notin U => procs[t].anc \subseteq procs[c].anc)}
    OBVIOUS
  <1>5. 0 \in G
    <2>1. f[0].at = {t}
      BY <1>1 DEF Descends
    <2>2. 0 \in 0 .. m
      OBVIOUS
    <2> QED BY <1>4, <2>1, <2>2
  <1>6. ASSUME NEW k \in 1 .. m, k - 1 \in G PROVE k \in G
    <2>1. ASSUME NEW c \in f[k].at, c \notin dark, c \notin U
          PROVE  procs[t].anc \subseteq procs[c].anc
      <3>1. c \in Up
        BY <1>1, <1>2, LevelBelow
      <3>2. PICK p \in f[k - 1].at : c \in ChildrenIn(Up, dark, p)
        BY <1>1, <1>2, LevelBelow
      <3>3. p \in Up /\ p \in Starts(Subtree(t, dark))
        <4>1. k - 1 \in 0 .. MaxStart
          BY <1>2
        <4> QED BY <1>1, <1>4, <1>6, <3>2, <4>1
      <3>4. c \notin Holder(RootPid)
        BY <1>1, <1>2
      <3>5. procs[c].ppid = procs[p].pid /\ procs[c].pid # procs[c].ppid /\ ~spliced(p, c, dark) /\ c # p
        BY <3>2 DEF ChildrenIn
      <3>6. p \notin dark
        <4>1. SUFFICES ASSUME p \in dark PROVE FALSE
          OBVIOUS
        <4>2. p \in Starts(Subtree(p, dark))
          <5>1. PICK h : /\ Descends(h, {p}, Holder(RootPid), dark)
                         /\ \A s : s \in Starts(Subtree(p, dark)) <=> \E j \in 0 .. MaxStart : s \in h[j].at
            BY <3>3, SubtreeLevels
          <5>2. p \in h[0].at /\ 0 \in 0 .. MaxStart
            BY <5>1, KillAssumption DEF Descends
          <5> QED BY <5>1, <5>2
        <4> QED BY <1>3, <2>1, <3>1, <3>2, <3>3, <3>4, <3>5, <4>1, <4>2, Unverified
      <3>7. p \notin U
        <4>1. SUFFICES ASSUME p \in U PROVE FALSE
          OBVIOUS
        <4>2. PICK b \in Starts(Subtree(t, dark)) : b \in dark /\ p \in Starts(Subtree(b, dark))
          BY <1>3, <4>1 DEF unverifiableSubtrees, Starts
        <4>3. b \in Up
          <5>1. PICK j \in 0 .. MaxStart : b \in f[j].at
            BY <1>1
          <5>2. CASE j = 0
            BY <1>1, <5>1, <5>2 DEF Descends
          <5>3. CASE j # 0
            <6>1. j \in 1 .. MaxStart
              BY <5>3
            <6> QED BY <1>1, <5>1, <6>1, LevelBelow
          <5> QED BY <5>2, <5>3
        <4>4. c # b
          BY <2>1, <4>2
        <4> QED BY <1>3, <2>1, <3>1, <3>2, <3>4, <4>2, <4>3, <4>4, Unverified
      <3>8. procs[t].anc \subseteq procs[p].anc
        BY <1>4, <1>6, <3>2, <3>6, <3>7
      <3>9. p < c
        <4>1. ~(c < p)
          BY <2>1, <3>5, <3>6 DEF spliced
        <4>2. p \in Int /\ c \in Int
          BY <3>1, <3>3 DEF Up
        <4> QED BY <3>5, <4>1, <4>2
      <3>10. procs[p].anc \subseteq procs[c].anc
        BY <3>1, <3>3, <3>5, <3>9 DEF Descended
      <3> QED BY <3>8, <3>10
    <2>2. f[k].at \subseteq Up
      BY <1>1, <1>2, LevelBelow
    <2>3. k \in 0 .. m
      OBVIOUS
    <2> QED BY <1>4, <2>1, <2>2, <2>3
  <1>7. \A k \in 0 .. m : k \in G
    BY <1>5, <1>6, UpTo
  <1>8. n.start \in Starts(Subtree(t, dark))
    BY DEF Starts
  <1>9. PICK k \in 0 .. MaxStart : n.start \in f[k].at
    BY <1>1, <1>8
  <1> QED BY <1>2, <1>3, <1>4, <1>7, <1>9

-----------------------------------------------------------------------------
\* At first only the pane's own child is up.
LEMMA KillStarts == KillInit => KillInv
  <1> SUFFICES ASSUME KillInit PROVE KillInv
    OBVIOUS
  <1>1. RootStart \in 1 .. MaxStart /\ MaxStart \in Nat
    BY KillAssumption DEF RootStart
  <1>2. /\ procs[RootStart] = [pid |-> RootPid, ppid |-> RootPid, anc |-> {RootStart}, up |-> TRUE]
        /\ \A s \in 1 .. MaxStart : s # RootStart => procs[s] = Blank
    BY <1>1 DEF KillInit
  <1>3. Up = {RootStart}
    BY <1>1, <1>2 DEF Up, Blank
  <1>4. procs \in [1 .. MaxStart -> [pid : PidsEver, ppid : PidsEver, anc : SUBSET (1 .. MaxStart), up : BOOLEAN]]
    BY <1>1 DEF KillInit, Blank, PidsEver
  <1>5. Numbered
    <2>1. clock = RootStart /\ clock \in 1 .. MaxStart
      BY <1>1 DEF KillInit, RootStart
    <2>2. \A s \in Up : s <= clock
      BY <1>1, <1>3, <2>1
    <2>3. procs[RootStart].pid = RootPid
      BY <1>2
    <2> QED BY <1>3, <1>4, <2>1, <2>2, <2>3 DEF Numbered
  <1>6. Descended
    BY <1>2, <1>3 DEF Descended, RootStart
  <1>7. Swept
    BY DEF KillInit, Swept, Resting
  <1>8. Asked /\ StopsWhatWasConfirmed
    BY DEF KillInit, Asked, StopsWhatWasConfirmed
  <1> QED BY <1>5, <1>6, <1>7, <1>8 DEF KillInv

\* A fork takes a pid nobody has, so the new process has one parent.
LEMMA ForkKeeps ==
  ASSUME KillInv, NEW parent \in Up \cup {NoStart}, NEW pid \in Pids, Fork(parent, pid)
  PROVE  KillInv'
  <1>1. clock \in 1 .. MaxStart /\ MaxStart \in Nat /\ clock < MaxStart
    BY KillAssumption DEF KillInv, Numbered, Fork
  <1>2. PICK c \in 1 .. MaxStart : c = clock + 1
    BY <1>1
  <1>3. PICK new : new = [pid |-> pid, up |-> TRUE,
                          ppid |-> IF parent = NoStart THEN pid ELSE procs[parent].pid,
                          anc |-> {c} \cup IF parent = NoStart THEN {} ELSE procs[parent].anc]
    OBVIOUS
  <1>4. procs' = [procs EXCEPT ![c] = new]
    BY <1>2, <1>3 DEF Fork
  <1>5. /\ procs \in [1 .. MaxStart -> [pid : PidsEver, ppid : PidsEver, anc : SUBSET (1 .. MaxStart), up : BOOLEAN]]
        /\ \A s \in Up : s <= clock
        /\ \A r, s \in Up : procs[r].pid = procs[s].pid => r = s
        /\ RootStart \in Up => procs[RootStart].pid = RootPid
    BY DEF KillInv, Numbered
  <1>6. procs'[c] = new /\ \A s \in 1 .. MaxStart : s # c => procs'[s] = procs[s]
    BY <1>2, <1>4, <1>5
  <1>7. new.pid = pid /\ new.up = TRUE /\ c \in new.anc
        /\ new.ppid = (IF parent = NoStart THEN pid ELSE procs[parent].pid)
        /\ new.anc = {c} \cup IF parent = NoStart THEN {} ELSE procs[parent].anc
    BY <1>3
  <1>8. c \notin Up /\ NoStart \notin Up
    BY <1>1, <1>2, <1>5 DEF Up, NoStart
  <1>9. Up' = Up \cup {c}
    BY <1>2, <1>6, <1>7, <1>8 DEF Up
  <1>10. \A s \in Up : s # c /\ procs'[s] = procs[s] /\ s < c /\ s \in 1 .. MaxStart
    BY <1>1, <1>2, <1>5, <1>6, <1>8 DEF Up
  <1>11. \A s \in Up : procs[s].pid # pid
    BY DEF Fork, InUse
  <1>12. new \in [pid : PidsEver, ppid : PidsEver, anc : SUBSET (1 .. MaxStart), up : BOOLEAN]
    <2>1. CASE parent = NoStart
      BY <1>3, <2>1 DEF PidsEver
    <2>2. CASE parent # NoStart
      <3>1. procs[parent] \in [pid : PidsEver, ppid : PidsEver, anc : SUBSET (1 .. MaxStart), up : BOOLEAN]
        BY <1>5, <1>10, <2>2
      <3>2. procs[parent].pid \in PidsEver /\ procs[parent].anc \subseteq 1 .. MaxStart
        BY <3>1
      <3> QED BY <1>3, <2>2, <3>2 DEF PidsEver
    <2> QED BY <2>1, <2>2
  <1>13. Numbered'
    <2>1. clock' = c /\ clock' \in 1 .. MaxStart
      BY <1>2 DEF Fork
    <2>2. procs' \in [1 .. MaxStart -> [pid : PidsEver, ppid : PidsEver, anc : SUBSET (1 .. MaxStart), up : BOOLEAN]]
      BY <1>4, <1>5, <1>12
    <2>3. \A s \in Up' : s <= clock'
      BY <1>9, <1>10, <2>1
    <2>4. \A r, s \in Up' : procs'[r].pid = procs'[s].pid => r = s
      BY <1>5, <1>6, <1>7, <1>9, <1>10, <1>11
    <2>5. RootStart \in Up' => procs'[RootStart].pid = RootPid
      <3>1. RootStart # c
        BY <1>1, <1>2 DEF RootStart
      <3> QED BY <1>5, <1>9, <1>10, <3>1
    <2> QED BY <2>1, <2>2, <2>3, <2>4, <2>5 DEF Numbered, PidsEver, RootStart
  <1>14. Descended'
    <2>1. \A s \in Up' : s \in procs'[s].anc
      BY <1>6, <1>7, <1>9, <1>10 DEF KillInv, Descended
    <2>2. ASSUME NEW r \in Up', NEW s \in Up', procs'[s].ppid = procs'[r].pid, procs'[s].pid # procs'[s].ppid, r < s
          PROVE  procs'[r].anc \subseteq procs'[s].anc
      <3>1. CASE s = c
        <4>1. r \in Up
          BY <1>2, <1>9, <2>2, <3>1
        <4>2. parent # NoStart
          BY <1>6, <1>7, <2>2, <3>1
        <4>3. parent \in Up /\ procs[parent].pid = procs[r].pid
          BY <1>6, <1>7, <1>10, <2>2, <3>1, <4>1, <4>2
        <4>4. parent = r
          BY <1>5, <4>1, <4>3
        <4> QED BY <1>6, <1>7, <1>10, <3>1, <4>1, <4>2, <4>4
      <3>2. CASE s # c
        <4>1. s \in Up
          BY <1>9, <3>2
        <4>2. r \in Up
          <5>1. c \in Nat /\ s < c
            BY <1>10, <4>1
          <5>2. r # c
            BY <1>10, <2>2, <4>1, <5>1
          <5> QED BY <1>9, <5>2
        <4>3. procs'[r] = procs[r] /\ procs'[s] = procs[s]
          BY <1>10, <4>1, <4>2
        <4> QED BY <2>2, <4>1, <4>2, <4>3 DEF KillInv, Descended
      <3> QED BY <3>1, <3>2
    <2> QED BY <2>1, <2>2 DEF Descended
  <1>15. Swept'
    <2>1. sweep' = sweep /\ meant' = meant /\ clock' = c
      BY <1>2 DEF Fork
    <2>2. ASSUME NEW n \in sweep.todo \cup sweep.termed
          PROVE  n.start <= c /\ (n.known /\ n.start \in Up' => (n.start \in Up /\ procs'[n.start] = procs[n.start]))
      <3>1. n.start \in 1 .. MaxStart /\ n.start <= clock
        BY DEF KillInv, Swept, TreeNode
      <3>2. n.start < c
        BY <1>1, <1>2, <3>1
      <3>3. n.start # c /\ n.start <= c
        BY <3>1, <3>2
      <3> QED BY <1>9, <1>10, <3>3
    <2> QED BY <2>1, <2>2 DEF KillInv, Swept, Rightful, TreeNode, PidsEver
  <1>16. Asked' /\ StopsWhatWasConfirmed'
    BY DEF Fork, KillInv, Asked, StopsWhatWasConfirmed
  <1> QED BY <1>13, <1>14, <1>15, <1>16 DEF KillInv

\* Processes that end leave the others as they were.
LEMMA EndKeeps ==
  ASSUME KillInv, NEW T \in SUBSET Up, procs' = [s \in DOMAIN procs |-> IF s \in T THEN Blank ELSE procs[s]],
         clock' = clock
  PROVE  /\ Numbered' /\ Descended'
         /\ \A s \in Up' : s \in Up /\ procs'[s] = procs[s]
  <1>1. /\ clock \in 1 .. MaxStart
        /\ procs \in [1 .. MaxStart -> [pid : PidsEver, ppid : PidsEver, anc : SUBSET (1 .. MaxStart), up : BOOLEAN]]
        /\ \A s \in Up : s <= clock
        /\ \A r, s \in Up : procs[r].pid = procs[s].pid => r = s
        /\ RootStart \in Up => procs[RootStart].pid = RootPid
    BY DEF KillInv, Numbered
  <1>2. \A s \in 1 .. MaxStart : procs'[s] = IF s \in T THEN Blank ELSE procs[s]
    BY <1>1
  <1>3. ASSUME NEW s \in Up' PROVE s \in Up /\ procs'[s] = procs[s]
    <2>1. s \in 1 .. MaxStart /\ procs'[s].up
      BY <1>3 DEF Up
    <2>2. s \notin T
      BY <1>2, <2>1 DEF Blank
    <2> QED BY <1>2, <2>1, <2>2 DEF Up
  <1>4. procs' \in [1 .. MaxStart -> [pid : PidsEver, ppid : PidsEver, anc : SUBSET (1 .. MaxStart), up : BOOLEAN]]
    <2>1. Blank \in [pid : PidsEver, ppid : PidsEver, anc : SUBSET (1 .. MaxStart), up : BOOLEAN]
      BY DEF Blank, PidsEver
    <2> QED BY <1>1, <2>1
  <1>5. Numbered'
    <2>1. clock' \in 1 .. MaxStart /\ \A s \in Up' : s <= clock'
      BY <1>1, <1>3
    <2>2. ASSUME NEW r \in Up', NEW s \in Up', procs'[r].pid = procs'[s].pid PROVE r = s
      <3>1. r \in Up /\ s \in Up /\ procs[r].pid = procs[s].pid
        BY <1>3, <2>2
      <3> QED BY <1>1, <3>1
    <2>3. RootStart \in Up' => procs'[RootStart].pid = RootPid
      BY <1>1, <1>3
    <2>4. UNCHANGED <<PidsEver, RootStart>>
      BY DEF PidsEver, RootStart
    <2> QED BY <1>4, <2>1, <2>2, <2>3, <2>4 DEF Numbered
  <1>6. Descended'
    BY <1>3 DEF KillInv, Descended
  <1> QED BY <1>3, <1>5, <1>6

\* What a step does not touch it does not spoil.
LEMMA ProcsStay ==
  ASSUME KillInv, UNCHANGED <<procs, clock>>
  PROVE  Numbered' /\ Descended' /\ Up' = Up
  <1>1. Up' = Up
    BY DEF Up
  <1> QED BY <1>1 DEF KillInv, Numbered, Descended, PidsEver, RootStart

\* More confirmed processes leave what the sweep holds rightful.
LEMMA SweepStays ==
  ASSUME KillInv, UNCHANGED <<procs, clock, sweep, hit>>, meant \subseteq meant'
  PROVE  Swept' /\ StopsWhatWasConfirmed'
  <1>1. Up' = Up
    BY DEF Up
  <1>2. \A a : Rightful(a) => Rightful(a)'
    BY DEF Rightful, RootStart
  <1>3. Swept'
    <2>1. \A n \in sweep.todo \cup sweep.termed : n.known /\ n.start \in Up => Rightful(procs[n.start].anc)'
      BY <1>2 DEF KillInv, Swept
    <2> QED BY <1>1, <2>1 DEF KillInv, Swept, TreeNode, PidsEver
  <1>4. StopsWhatWasConfirmed'
    BY DEF KillInv, StopsWhatWasConfirmed, RootStart
  <1> QED BY <1>3, <1>4

\* What the sweep takes on descends from the process that was confirmed.
LEMMA KillRequestKeeps ==
  ASSUME KillInv, NEW c \in calls, handleKillProcessReq(c)
  PROVE  KillInv'
  <1>1. PICK dark \in Unreadable :
          LET target == IF sweep.pc # "idle" THEN {} ELSE validateKillTarget(Build(dark), c)
              t == (CHOOSE n \in target : TRUE).start
          IN  sweep' = IF target = {} THEN sweep
                       ELSE [Resting EXCEPT !.pc = "term",
                               !.todo = {n \in Subtree(t, dark) : n.start \notin unverifiableSubtrees(t, dark)}]
    BY DEF handleKillProcessReq
  <1>2. PICK target : target = IF sweep.pc # "idle" THEN {} ELSE validateKillTarget(Build(dark), c)
    OBVIOUS
  <1>3. UNCHANGED <<procs, clock, hit, meant>> /\ calls' \subseteq calls /\ c.call = "kill"
    BY DEF handleKillProcessReq
  <1>4. Numbered' /\ Descended' /\ Up' = Up
    BY <1>3, ProcsStay
  <1>5. Asked' /\ StopsWhatWasConfirmed'
    BY <1>3 DEF KillInv, Asked, StopsWhatWasConfirmed, RootStart
  <1>6. CASE target = {}
    <2>1. sweep' = sweep
      BY <1>1, <1>2, <1>6
    <2> QED BY <1>3, <1>4, <1>5, <2>1, SweepStays DEF KillInv
  <1>7. CASE target # {}
    <2>1. PICK h : h = CHOOSE n \in target : TRUE
      OBVIOUS
    <2>2. h \in target
      BY <1>7, <2>1
    <2>3. h \in Build(dark) /\ h.depth >= 2 /\ h.known /\ h.start = c.start
      BY <1>2, <2>2 DEF validateKillTarget
    <2>4. PICK t : t = h.start
      OBVIOUS
    <2>5. t \in meant
      BY <1>3, <2>3, <2>4 DEF KillInv, Asked
    <2>6. t \in Up /\ t \notin Holder(RootPid) /\ t \notin dark
      <3>1. Holder(RootPid) \in SUBSET (1 .. MaxStart) /\ {} \in SUBSET (1 .. MaxStart)
        BY DEF Holder, Up
      <3>2. PICK f : /\ Descends(f, Holder(RootPid), {}, dark)
                     /\ \A n \in Build(dark) : \E k \in 0 .. MaxStart : \E s \in f[k].at : n = Node(s, k + 1, dark)
        <4>1. PICK top \in SUBSET (1 .. MaxStart) : top = Holder(RootPid)
          BY <3>1
        <4>2. PICK none \in SUBSET (1 .. MaxStart) : none = {}
          BY <3>1
        <4>3. Build(dark) = walk(top, none, dark)
          BY <4>1, <4>2 DEF Build
        <4>4. PICK f : /\ Descends(f, top, none, dark)
                       /\ \A n \in walk(top, none, dark) : \E k \in 0 .. MaxStart : \E s \in f[k].at : n = Node(s, k + 1, dark)
          BY TreeNodes
        <4>5. Descends(f, Holder(RootPid), {}, dark)
          BY <4>1, <4>2, <4>4
        <4> QED BY <4>3, <4>4, <4>5
      <3>11. PICK k \in 0 .. MaxStart : \E s \in f[k].at : h = Node(s, k + 1, dark)
        BY <2>3, <3>2
      <3>3. PICK s \in f[k].at : h = Node(s, k + 1, dark)
        BY <3>11
      <3>4. h.start = s /\ h.depth = k + 1 /\ h.known = (s \notin dark)
        BY <3>3 DEF Node
      <3>5. k \in 1 .. MaxStart
        BY <2>3, <3>4
      <3>6. f[k].at \subseteq Up /\ f[k].at \cap f[k - 1].seen = {}
        BY <3>2, <3>5, LevelBelow
      <3>7. Holder(RootPid) \subseteq f[k - 1].seen
        <4>1. k - 1 \in 0 .. MaxStart
          BY <3>5, KillAssumption
        <4> QED BY <3>2, <4>1, LevelsVisit
      <3>8. s \notin dark
        BY <2>3, <3>4
      <3> QED BY <2>4, <3>3, <3>4, <3>6, <3>7, <3>8
    <2>7. t # RootStart
      BY <2>6 DEF Holder, KillInv, Numbered
    <2>8. PICK T : T = {n \in Subtree(t, dark) : n.start \notin unverifiableSubtrees(t, dark)}
      OBVIOUS
    <2>9. sweep' = [Resting EXCEPT !.pc = "term", !.todo = T]
      BY <1>1, <1>2, <1>7, <2>1, <2>4, <2>8
    <2>10. sweep' = [pc |-> "term", todo |-> T, termed |-> {}]
      BY <2>9 DEF Resting
    <2>11. ASSUME NEW n \in T
           PROVE  /\ n \in TreeNode /\ n.start <= clock
                  /\ n.known /\ n.start \in Up => Rightful(procs[n.start].anc)
      <3>1. PICK f :
              /\ Descends(f, {t}, Holder(RootPid), dark)
              /\ \A x \in Subtree(t, dark) : \E k \in 0 .. MaxStart : \E s \in f[k].at : x = Node(s, k + 1, dark)
              /\ \A s : s \in Starts(Subtree(t, dark)) <=> \E k \in 0 .. MaxStart : s \in f[k].at
              /\ \A k \in 1 .. MaxStart : f[k].at \cap (Holder(RootPid) \cup {t}) = {}
        <4>1. t \in Up
          BY <2>6
        <4> QED BY <4>1, SubtreeLevels, Zenon
      <3>11. PICK k \in 0 .. MaxStart : \E s \in f[k].at : n = Node(s, k + 1, dark)
        BY <2>8, <3>1
      <3>2. PICK s \in f[k].at : n = Node(s, k + 1, dark)
        BY <3>11
      <3>3. s \in Up
        <4>1. CASE k = 0
          BY <2>6, <3>1, <3>2, <4>1 DEF Descends
        <4>2. CASE k # 0
          <5>1. k \in 1 .. MaxStart
            BY <4>2
          <5> QED BY <3>1, <3>2, <5>1, LevelBelow
        <4> QED BY <4>1, <4>2
      <3>4. s \in 1 .. MaxStart /\ procs[s].pid \in PidsEver /\ s <= clock
        BY <3>3 DEF KillInv, Numbered, Up
      <3>5. n = [start |-> s, pid |-> procs[s].pid, depth |-> k + 1, known |-> s \notin dark]
        BY <3>2 DEF Node
      <3>6. (s \notin dark) \in BOOLEAN /\ k + 1 \in Nat
        BY KillAssumption
      <3>7. n \in TreeNode
        BY <3>4, <3>5, <3>6 DEF TreeNode
      <3>8. ASSUME n.known PROVE Rightful(procs[n.start].anc)
        <4>1. n.start = s /\ n.start \notin dark
          BY <3>5, <3>8
        <4>2. procs[t].anc \subseteq procs[n.start].anc
          BY <2>6, <2>8, <4>1, SubtreeDescends DEF KillInv
        <4>3. t \in procs[t].anc
          BY <2>6 DEF KillInv, Descended
        <4> QED BY <2>5, <2>7, <4>2, <4>3 DEF Rightful
      <3> QED BY <3>4, <3>5, <3>7, <3>8
    <2>12. Swept'
      <3>1. sweep'.pc = "term" /\ sweep'.todo = T /\ sweep'.termed = {}
        BY <2>10
      <3>2. T \subseteq TreeNode
        BY <2>11
      <3>3. sweep' \in [pc : {"idle", "term", "kill"}, todo : SUBSET TreeNode, termed : SUBSET TreeNode]
        BY <2>10, <3>2
      <3>4. \A n \in T : n.start <= clock /\ (n.known /\ n.start \in Up => Rightful(procs[n.start].anc))
        BY <2>11
      <3> QED BY <1>3, <1>4, <3>1, <3>3, <3>4 DEF Swept, TreeNode, PidsEver, Rightful, RootStart
    <2> QED BY <1>4, <1>5, <2>12 DEF KillInv
  <1> QED BY <1>6, <1>7

\* A signal meets only the process whose identity was checked.
LEMMA SignalMeets ==
  ASSUME KillInv, NEW n \in sweep.todo, n.known, Holder(n.pid) = {n.start}
  PROVE  Rightful(procs[n.start].anc)
  BY DEF KillInv, Swept, Holder

\* The first pass signals rightful processes only.
LEMMA TermKeeps == KillInv /\ TermPass => KillInv'
  <1> SUFFICES ASSUME KillInv, TermPass PROVE KillInv'
    OBVIOUS
  <1>1. PICK n \in sweep.todo :
          /\ hit' = hit \cup {procs[s].anc : s \in Signalled(n)}
          /\ sweep' = [sweep EXCEPT !.todo = @ \ {n}, !.termed = IF Signalled(n) # {} THEN @ \cup {n} ELSE @]
    BY DEF TermPass
  <1>2. UNCHANGED <<procs, clock, calls, meant>> /\ sweep.pc = "term"
    BY DEF TermPass
  <1>3. Numbered' /\ Descended' /\ Up' = Up
    BY <1>2, ProcsStay
  <1>4. ASSUME NEW s \in Signalled(n) PROVE n.known /\ Rightful(procs[s].anc)
    <2>1. n.known /\ Holder(n.pid) = {n.start} /\ s = n.start
      BY <1>4 DEF Signalled
    <2> QED BY <2>1, SignalMeets
  <1>5. StopsWhatWasConfirmed'
    BY <1>1, <1>2, <1>4 DEF KillInv, StopsWhatWasConfirmed, Rightful, RootStart
  <1>6. sweep \in [pc : {"idle", "term", "kill"}, todo : SUBSET TreeNode, termed : SUBSET TreeNode]
    BY DEF KillInv, Swept
  <1>7. PICK M : M = IF Signalled(n) # {} THEN sweep.termed \cup {n} ELSE sweep.termed
    OBVIOUS
  <1>8. sweep' = [sweep EXCEPT !.todo = sweep.todo \ {n}, !.termed = M]
    BY <1>1, <1>7
  <1>9. sweep'.pc = "term" /\ sweep'.todo = sweep.todo \ {n} /\ sweep'.termed = M
    BY <1>2, <1>6, <1>8
  <1>10. M \subseteq sweep.termed \cup {n} /\ M \subseteq TreeNode
    BY <1>6, <1>7
  <1>11. sweep' \in [pc : {"idle", "term", "kill"}, todo : SUBSET TreeNode, termed : SUBSET TreeNode]
    BY <1>6, <1>8, <1>10
  <1>12. \A x \in M : x.known
    <2>1. \A x \in sweep.termed : x.known
      BY DEF KillInv, Swept
    <2> QED BY <1>4, <1>7, <2>1
  <1>13. \A x \in sweep'.todo \cup sweep'.termed :
           x.start <= clock /\ (x.known /\ x.start \in Up => Rightful(procs[x.start].anc))
    BY <1>9, <1>10 DEF KillInv, Swept
  <1>14. Swept'
    BY <1>2, <1>3, <1>9, <1>11, <1>12, <1>13 DEF Swept, TreeNode, PidsEver, Rightful, RootStart
  <1>15. Asked'
    BY <1>2 DEF KillInv, Asked
  <1> QED BY <1>3, <1>5, <1>14, <1>15 DEF KillInv

\* The grace period drops what has ended.
LEMMA GraceKeeps == KillInv /\ GraceBegins => KillInv'
  <1> SUFFICES ASSUME KillInv, GraceBegins PROVE KillInv'
    OBVIOUS
  <1>1. UNCHANGED <<procs, clock, calls, hit, meant>>
    BY DEF GraceBegins
  <1>2. Numbered' /\ Descended' /\ Up' = Up
    BY <1>1, ProcsStay
  <1>3. sweep \in [pc : {"idle", "term", "kill"}, todo : SUBSET TreeNode, termed : SUBSET TreeNode]
    BY DEF KillInv, Swept
  <1>4. \/ sweep' = [pc |-> "idle", todo |-> {}, termed |-> {}]
        \/ sweep' = [pc |-> "kill", todo |-> sweep.termed, termed |-> {}]
    BY <1>3 DEF GraceBegins, Resting
  <1>5. Swept'
    <2>1. CASE sweep' = [pc |-> "idle", todo |-> {}, termed |-> {}]
      BY <2>1 DEF Swept
    <2>2. CASE sweep' = [pc |-> "kill", todo |-> sweep.termed, termed |-> {}]
      <3>1. sweep'.pc = "kill" /\ sweep'.todo = sweep.termed /\ sweep'.termed = {}
        BY <2>2
      <3>2. sweep' \in [pc : {"idle", "term", "kill"}, todo : SUBSET TreeNode, termed : SUBSET TreeNode]
        BY <1>3, <2>2
      <3>3. \A n \in sweep.termed : n.known /\ n.start <= clock /\ (n.start \in Up => Rightful(procs[n.start].anc))
        BY DEF KillInv, Swept
      <3> QED BY <1>1, <1>2, <3>1, <3>2, <3>3 DEF Swept, TreeNode, PidsEver, Rightful, RootStart
    <2> QED BY <1>4, <2>1, <2>2
  <1>6. Asked' /\ StopsWhatWasConfirmed'
    BY <1>1 DEF KillInv, Asked, StopsWhatWasConfirmed, RootStart
  <1> QED BY <1>2, <1>5, <1>6 DEF KillInv

\* The second pass signals rightful processes only.
LEMMA EscalateKeeps == KillInv /\ Escalate => KillInv'
  <1> SUFFICES ASSUME KillInv, Escalate PROVE KillInv'
    OBVIOUS
  <1>1. UNCHANGED <<clock, calls, meant>> /\ sweep.pc = "kill"
    BY DEF Escalate
  <1>2. sweep \in [pc : {"idle", "term", "kill"}, todo : SUBSET TreeNode, termed : SUBSET TreeNode]
    BY DEF KillInv, Swept
  <1>3. Asked'
    BY <1>1 DEF KillInv, Asked
  <1>4. CASE sweep.todo = {}
    <2>1. sweep' = [pc |-> "idle", todo |-> {}, termed |-> {}] /\ UNCHANGED <<procs, hit>>
      BY <1>4 DEF Escalate, Resting
    <2>2. Swept'
      BY <2>1 DEF Swept
    <2>3. StopsWhatWasConfirmed'
      BY <1>1, <2>1 DEF KillInv, StopsWhatWasConfirmed, RootStart
    <2> QED BY <1>1, <1>3, <2>1, <2>2, <2>3, ProcsStay DEF KillInv
  <1>5. CASE sweep.todo # {}
    <2>1. PICK n \in sweep.todo :
            /\ sweep' = [sweep EXCEPT !.todo = @ \ {n}]
            /\ IF aliveWithStart(n)
               THEN /\ hit' = hit \cup {procs[s].anc : s \in Holder(n.pid)}
                    /\ procs' = [s \in DOMAIN procs |-> IF s \in Holder(n.pid) THEN Blank ELSE procs[s]]
               ELSE UNCHANGED <<procs, hit>>
      BY <1>5 DEF Escalate
    <2>2. n.known
      BY <1>1, <2>1 DEF KillInv, Swept
    <2>3. /\ Numbered' /\ Descended'
          /\ \A s \in Up' : s \in Up /\ procs'[s] = procs[s]
      <3>1. CASE aliveWithStart(n)
        <4>1. Holder(n.pid) \in SUBSET Up
          BY DEF Holder
        <4> QED BY <1>1, <2>1, <3>1, <4>1, EndKeeps
      <3>2. CASE ~aliveWithStart(n)
        <4>1. UNCHANGED <<procs, clock>>
          BY <1>1, <2>1, <3>2
        <4> QED BY <4>1, ProcsStay
      <3> QED BY <3>1, <3>2
    <2>4. StopsWhatWasConfirmed'
      <3>1. \A a \in hit' : a \in hit \/ Rightful(a)
        <4>1. CASE aliveWithStart(n)
          <5>1. Holder(n.pid) = {n.start}
            BY <4>1 DEF aliveWithStart
          <5>2. Rightful(procs[n.start].anc)
            BY <2>1, <2>2, <5>1, SignalMeets
          <5> QED BY <2>1, <4>1, <5>1, <5>2
        <4>2. CASE ~aliveWithStart(n)
          BY <2>1, <4>2
        <4> QED BY <4>1, <4>2
      <3> QED BY <1>1, <3>1 DEF KillInv, StopsWhatWasConfirmed, Rightful, RootStart
    <2>5. Swept'
      <3>1. sweep'.pc = "kill" /\ sweep'.todo = sweep.todo \ {n} /\ sweep'.termed = sweep.termed
        BY <1>1, <1>2, <2>1
      <3>2. sweep' \in [pc : {"idle", "term", "kill"}, todo : SUBSET TreeNode, termed : SUBSET TreeNode]
        BY <1>2, <2>1
      <3>3. \A x \in sweep'.todo \cup sweep'.termed :
              x.start <= clock /\ (x.known /\ x.start \in Up => Rightful(procs[x.start].anc))
        BY <3>1 DEF KillInv, Swept
      <3>4. \A x \in sweep'.todo \cup sweep'.termed : x.known
        BY <1>1, <3>1 DEF KillInv, Swept
      <3>5. \A a : Rightful(a)' = Rightful(a)
        BY <1>1 DEF Rightful, RootStart
      <3> QED BY <1>1, <2>3, <3>1, <3>2, <3>3, <3>4, <3>5 DEF Swept, TreeNode, PidsEver, Rightful, RootStart
    <2> QED BY <1>3, <2>3, <2>4, <2>5 DEF KillInv
  <1> QED BY <1>4, <1>5

\* Every step keeps the invariant.
LEMMA KillStep == KillInv /\ [KillNext]_killVars => KillInv'
  <1> SUFFICES ASSUME KillInv, [KillNext]_killVars PROVE KillInv'
    OBVIOUS
  <1>1. ASSUME UNCHANGED <<procs, clock, sweep, hit>>, meant \subseteq meant',
               \A c \in calls' : c \in calls \/ c.call # "kill" \/ c.start \in meant'
        PROVE  KillInv'
    <2>1. Asked'
      BY <1>1 DEF KillInv, Asked
    <2> QED BY <1>1, <2>1, ProcsStay, SweepStays DEF KillInv
  <1>2. CASE \E s \in Up \cup {NoStart}, pid \in Pids : Fork(s, pid)
    BY <1>2, ForkKeeps
  <1>3. CASE \E s \in Up : Exit(s)
    <2>1. PICK s \in Up : Exit(s)
      BY <1>3
    <2>2. UNCHANGED <<clock, calls, sweep, hit, meant>>
      BY <2>1 DEF Exit
    <2>3. procs' = [x \in DOMAIN procs |-> IF x \in {s} THEN Blank ELSE procs[x]]
      BY <2>1 DEF Exit, KillInv, Numbered
    <2>4. /\ Numbered' /\ Descended'
          /\ \A x \in Up' : x \in Up /\ procs'[x] = procs[x]
      BY <2>2, <2>3, EndKeeps
    <2>5. Swept'
      <3>1. \A n \in sweep.todo \cup sweep.termed :
              n.start <= clock /\ (n.known /\ n.start \in Up => Rightful(procs[n.start].anc))
        BY DEF KillInv, Swept
      <3> QED BY <2>2, <2>4, <3>1 DEF KillInv, Swept, TreeNode, PidsEver, Rightful, RootStart
    <2>6. Asked' /\ StopsWhatWasConfirmed'
      BY <2>2 DEF KillInv, Asked, StopsWhatWasConfirmed, RootStart
    <2> QED BY <2>4, <2>5, <2>6 DEF KillInv
  <1>4. CASE CollectProcs \/ GateCloses \/ expired
    BY <1>1, <1>4 DEF CollectProcs, GateCloses, expired
  <1>5. CASE openProcessesDialog \/ CloseProcesses \/ confirmKillProcess \/ CancelKill
    BY <1>1, <1>5 DEF openProcessesDialog, CloseProcesses, confirmKillProcess, CancelKill
  <1>6. CASE requestTrees
    <2>1. \A c \in calls' : c \in calls \/ c.call # "kill"
      BY <1>6 DEF requestTrees
    <2> QED BY <1>1, <1>6, <2>1 DEF requestTrees
  <1>7. CASE sendKillProcess
    <2>1. \A c \in calls' : c \in calls \/ c.start \in meant'
      BY <1>7 DEF sendKillProcess
    <2> QED BY <1>1, <1>7, <2>1 DEF sendKillProcess
  <1>8. ASSUME NEW c \in calls, TakeReport(c) PROVE KillInv'
    BY <1>1, <1>8 DEF TakeReport
  <1>9. ASSUME NEW c \in calls, handleResourceReportReq(c) PROVE KillInv'
    <2>1. \A d \in calls' : d \in calls \/ d.call # "kill"
      BY <1>9 DEF handleResourceReportReq
    <2> QED BY <1>1, <1>9, <2>1 DEF handleResourceReportReq
  <1>10. CASE TermPass \/ GraceBegins \/ Escalate
    BY <1>10, TermKeeps, GraceKeeps, EscalateKeeps
  <1>11. CASE UNCHANGED killVars
    BY <1>1, <1>11 DEF killVars
  <1> QED BY <1>2, <1>3, <1>4, <1>5, <1>6, <1>7, <1>8, <1>9, <1>10, <1>11, KillRequestKeeps DEF KillNext

\* Only what the user confirmed, or descends from it, is ever signalled, and
\* never the pane's own child: whatever forks, exits and takes over pids between
\* the report, the confirm, the enumeration and the two signals
\* (procreport.go validateKillTarget, proctree/kill.go Sweep).
THEOREM OnlyTheConfirmedDie == KillSpec => []StopsWhatWasConfirmed
  <1>1. KillInv => StopsWhatWasConfirmed
    BY DEF KillInv
  <1> QED BY <1>1, KillStarts, KillStep, PTL DEF KillSpec
=============================================================================

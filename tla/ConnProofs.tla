----------------------------- MODULE ConnProofs -----------------------------
(***************************************************************************)
(* Proofs about Conn, for every queue size, headroom, frame length and set *)
(* of senders: the types and capacities, the order of must-deliver frames, *)
(* the exact pending count and the stream the two lanes share.             *)
(***************************************************************************)
EXTENDS Conn, SequenceTheorems, FiniteSetTheorems, TLAPS

-----------------------------------------------------------------------------
(* Types and capacities. *)

\* Where a producer goes next does not change its type.
LEMMA GotoType ==
    ASSUME TypeOK, NEW s \in Everyone, NEW pc \in {"idle", "check", "push", "count", "wait"},
           Goto(s, pc)
    PROVE  snd' \in [Everyone -> [pc : {"idle", "check", "push", "count", "wait"}, n : Nat]]
  BY DEF Goto, TypeOK

\* A sender and its serial number make a frame.
LEMMA FrameOf ==
    ASSUME TypeOK, NEW s \in Everyone
    PROVE  <<s, snd[s].n>> \in Frame
  BY DEF TypeOK, Frame

\* A new conn is well typed.
LEMMA TypeInit == ASSUME Init PROVE TypeOK
  <1>1. NoFrame \in Frame
    BY DEF NoFrame, Frame, Everyone, Pushers
  <1>2. snd \in [Everyone -> [pc : {"idle", "check", "push", "count", "wait"}, n : Nat]]
    BY DEF Init
  <1>3. <<>> \in Seq(Frame) /\ Len(<<>>) = 0
    BY EmptySeq
  <1>4. tail \in [frame : Frame, i : 1 .. FrameLen]
    BY <1>1, ConnAssumption DEF Init
  <1>5. loop \in [pc : {"first", "second", "crit", "out", "settle", "failed", "lost", "dead"},
                  frame : Frame, off : 0 .. FrameLen, base : 0 .. FrameLen]
    BY <1>1, ConnAssumption DEF Init
  <1>6. flush \in [pc : {"idle", "poll", "done"}, owes : SUBSET Frame, ok : BOOLEAN]
    BY DEF Init
  <1>7. /\ critCh \in Seq(Frame) /\ Len(critCh) <= SendBufSize
        /\ outCh \in Seq(Frame) /\ Len(outCh) <= SendBufSize
        /\ accepted \in Seq(Frame) /\ delivered \in Seq(Frame)
    BY <1>3, ConnAssumption DEF Init
  <1>8. pending \in Int /\ dropped \in Nat /\ ahead \in Nat /\ left \in Nat /\ returned \in SUBSET Frame
    BY DEF Init
  <1>9. /\ closed \in BOOLEAN /\ overflow \in BOOLEAN /\ closing \in BOOLEAN
        /\ raw \in {"open", "closing", "closed"}
        /\ reader \in {"read", "replay", "close", "remove", "gone"}
    BY DEF Init
  <1> QED BY <1>2, <1>4, <1>5, <1>6, <1>7, <1>8, <1>9 DEF TypeOK

\* The reader is one of the producers.
LEMMA ReaderIn == Reader \in Everyone /\ Senders \subseteq Everyone /\ Outputs \subseteq Everyone
  BY DEF Everyone, Pushers

\* Every step keeps the types and the queues within their capacity.
LEMMA TypeStep == ASSUME TypeOK, [Next]_vars PROVE TypeOK'
  <1> USE ConnAssumption, ReaderIn
  <1>1. ASSUME NEW s \in Everyone, StartSend(s) PROVE TypeOK'
    BY <1>1 DEF StartSend, Begin, At, TypeOK, queues, flags, hist
  <1>2. ASSUME NEW s \in Everyone, Check(s) PROVE TypeOK'
    <2>1. snd' \in [Everyone -> [pc : {"idle", "check", "push", "count", "wait"}, n : Nat]]
      <3>1. (IF Refusing THEN "idle" ELSE "push") \in {"idle", "push"}
        OBVIOUS
      <3> QED BY <1>2, <3>1, ZenonT(60) DEF Check, Goto, TypeOK
    <2> QED BY <1>2, <2>1 DEF Check, TypeOK, queues, flags, hist
  <1>3. ASSUME NEW s \in Everyone, EnqueueCritical(s) PROVE TypeOK'
    <2>1. snd' \in [Everyone -> [pc : {"idle", "check", "push", "count", "wait"}, n : Nat]]
      <3>1. Goto(s, "count") \/ Goto(s, "idle")
        BY <1>3 DEF EnqueueCritical, Push
      <3> QED BY <3>1, GotoType
    <2>2. CASE Len(critCh) < SendBufSize
      <3>1. critCh' = Append(critCh, <<s, snd[s].n>>) /\ accepted' = Append(accepted, <<s, snd[s].n>>)
        BY <1>3, <2>2 DEF EnqueueCritical, Push
      <3>2. critCh' \in Seq(Frame) /\ Len(critCh') <= SendBufSize /\ accepted' \in Seq(Frame)
        BY <3>1, <2>2, FrameOf, AppendProperties DEF TypeOK
      <3> QED BY <1>3, <2>1, <2>2, <3>2 DEF EnqueueCritical, TypeOK
    <2>3. CASE ~(Len(critCh) < SendBufSize)
      BY <1>3, <2>1, <2>3 DEF EnqueueCritical, TypeOK
    <2> QED BY <2>2, <2>3
  <1>4. ASSUME NEW s \in Everyone, Count(s) PROVE TypeOK'
    <2>1. snd' \in [Everyone -> [pc : {"idle", "check", "push", "count", "wait"}, n : Nat]]
      BY <1>4, ZenonT(60) DEF Count, Goto, TypeOK
    <2> QED BY <1>4, <2>1, FrameOf DEF Count, TypeOK, flags
  <1>5. ASSUME NEW s \in Everyone, EnqueueDroppable(s) PROVE TypeOK'
    <2>1. snd' \in [Everyone -> [pc : {"idle", "check", "push", "count", "wait"}, n : Nat]]
      BY <1>5, ZenonT(60) DEF EnqueueDroppable, Goto, TypeOK
    <2>2. outCh' \in Seq(Frame) /\ Len(outCh') <= SendBufSize /\ dropped' \in Nat
      <3>1. CASE Len(outCh) < SendBufSize
        <4>1. outCh' = Append(outCh, <<s, snd[s].n>>) /\ dropped' = dropped
          BY <1>5, <3>1 DEF EnqueueDroppable
        <4> QED BY <3>1, <4>1, FrameOf, AppendProperties, SMTT(30) DEF TypeOK
      <3>2. CASE ~(Len(outCh) < SendBufSize)
        <4>1. outCh' = outCh /\ dropped' = dropped + 1
          BY <1>5, <3>2 DEF EnqueueDroppable
        <4> QED BY <4>1 DEF TypeOK
      <3> QED BY <3>1, <3>2
    <2> QED BY <1>5, <2>1, <2>2, SMTT(30) DEF EnqueueDroppable, TypeOK, flags, hist
  <1>6. CASE StartReplay
    BY <1>6 DEF StartReplay, Begin, At, TypeOK, queues, flags, hist
  <1>7. CASE ReplayCheck
    <2>1. snd' \in [Everyone -> [pc : {"idle", "check", "push", "count", "wait"}, n : Nat]]
      <3>1. (IF Refusing THEN "idle" ELSE IF HasRoom THEN "push" ELSE "wait")
              \in {"idle", "push", "wait"}
        OBVIOUS
      <3> QED BY <1>7, <3>1, GotoType DEF ReplayCheck
    <2> QED BY <1>7, <2>1 DEF ReplayCheck, TypeOK, queues, flags, hist
  <1>8. CASE ReplayPush
    <2>1. snd' \in [Everyone -> [pc : {"idle", "check", "push", "count", "wait"}, n : Nat]]
      <3>1. Goto(Reader, "count") \/ Goto(Reader, "wait")
        BY <1>8 DEF ReplayPush, Push
      <3> QED BY <3>1, GotoType
    <2>2. CASE Len(critCh) < SendBufSize
      <3>1. /\ critCh' = Append(critCh, <<Reader, snd[Reader].n>>)
            /\ accepted' = Append(accepted, <<Reader, snd[Reader].n>>)
        BY <1>8, <2>2 DEF ReplayPush, Push
      <3>2. critCh' \in Seq(Frame) /\ Len(critCh') <= SendBufSize /\ accepted' \in Seq(Frame)
        BY <3>1, <2>2, FrameOf, AppendProperties DEF TypeOK
      <3> QED BY <1>8, <2>1, <2>2, <3>2 DEF ReplayPush, TypeOK, flags
    <2>3. CASE ~(Len(critCh) < SendBufSize)
      BY <1>8, <2>1, <2>3 DEF ReplayPush, TypeOK, flags
    <2> QED BY <2>2, <2>3
  <1>9. CASE ReplayWait
    <2>1. snd' \in [Everyone -> [pc : {"idle", "check", "push", "count", "wait"}, n : Nat]]
      <3>1. Goto(Reader, "idle") \/ Goto(Reader, "check")
        BY <1>9 DEF ReplayWait
      <3> QED BY <3>1, GotoType
    <2> QED BY <1>9, <2>1 DEF ReplayWait, TypeOK, queues, flags, hist
  <1>10. CASE ReplayCancel
    <2>1. snd' \in [Everyone -> [pc : {"idle", "check", "push", "count", "wait"}, n : Nat]]
      BY <1>10, SMTT(30) DEF ReplayCancel, Goto, TypeOK
    <2> QED BY <1>10, <2>1 DEF ReplayCancel, TypeOK, queues, flags, hist
  <1>11. CASE ReplayReturn
    BY <1>11 DEF ReplayReturn, TypeOK, queues, flags, hist
  <1>12. ASSUME NEW pc \in {"first", "second"}, LoopExit(pc) PROVE TypeOK'
    BY <1>12 DEF LoopExit, TypeOK, queues, flags, hist
  <1>13. ASSUME NEW pc \in {"first", "second"}, TakeCritical(pc) PROVE TypeOK'
    <2>1. critCh' \in Seq(Frame) /\ Len(critCh') <= SendBufSize /\ Head(critCh) \in Frame
      BY <1>13, HeadTailProperties DEF TakeCritical, TypeOK
    <2> QED BY <1>13, <2>1 DEF TakeCritical, TypeOK, flags
  <1>14. CASE FallThrough
    BY <1>14 DEF FallThrough, TypeOK, queues, flags, hist
  <1>15. CASE TakeOutput
    <2>1. outCh' \in Seq(Frame) /\ Len(outCh') <= SendBufSize /\ Head(outCh) \in Frame
      BY <1>15, HeadTailProperties DEF TakeOutput, TypeOK
    <2> QED BY <1>15, <2>1 DEF TakeOutput, TypeOK, flags
  <1>16. CASE Place
    <2>1. loop.off + 1 \in 1 .. FrameLen /\ loop.off + 1 \in 0 .. FrameLen
      BY <1>16, SMTT(30) DEF Place, TypeOK
    <2>2. tail' \in [frame : Frame, i : 1 .. FrameLen]
      BY <1>16, <2>1 DEF Place, TypeOK
    <2>3. loop' \in [pc : {"first", "second", "crit", "out", "settle", "failed", "lost", "dead"},
                     frame : Frame, off : 0 .. FrameLen, base : 0 .. FrameLen]
      BY <1>16, <2>1 DEF Place, TypeOK
    <2> QED BY <1>16, <2>2, <2>3 DEF Place, TypeOK, queues, flags
  <1>17. CASE Written
    <2>1. delivered' \in Seq(Frame)
      BY <1>17, AppendProperties DEF Written, TypeOK
    <2> QED BY <1>17, <2>1, ZenonT(60) DEF Written, Writing, TypeOK, queues, flags
  <1>18. CASE Settle
    <2>1. loop' \in [pc : {"first", "second", "crit", "out", "settle", "failed", "lost", "dead"},
                     frame : Frame, off : 0 .. FrameLen, base : 0 .. FrameLen]
      BY <1>18 DEF Settle, TypeOK
    <2>2. pending' \in Int
      BY <1>18 DEF Settle, TypeOK
    <2> QED BY <1>18, <2>1, <2>2 DEF Settle, TypeOK, flags, hist
  <1>19. CASE Deadline
    BY <1>19, ZenonT(60) DEF Deadline, Writing, Resume, MarkDead, TypeOK, queues, hist
  <1>20. CASE WriteError
    BY <1>20 DEF WriteError, Writing, MarkDead, TypeOK, queues, hist
  <1>21. CASE CloseSlow
    BY <1>21, ZenonT(60) DEF CloseSlow, Close, MarkDead, TypeOK, queues, hist
  <1>22. CASE ReaderClose
    BY <1>22 DEF ReaderClose, Close, MarkDead, TypeOK, queues, hist
  <1>23. CASE ReaderGone
    BY <1>23 DEF ReaderGone, TypeOK, queues, flags
  <1>24. CASE ReadError
    BY <1>24 DEF ReadError, TypeOK, queues, flags, hist
  <1>25. CASE StartFlush
    BY <1>25 DEF StartFlush, TypeOK, queues, flags, hist
  <1>26. CASE PollFlush
    BY <1>26, ZenonT(60) DEF PollFlush, TypeOK, queues, flags, hist
  <1>27. CASE UNCHANGED vars
    BY <1>27 DEF vars, TypeOK, queues, flags, hist
  <1> QED
    BY <1>1, <1>2, <1>3, <1>4, <1>5, <1>6, <1>7, <1>8, <1>9, <1>10, <1>11, <1>12, <1>13, <1>14,
       <1>15, <1>16, <1>17, <1>18, <1>19, <1>20, <1>21, <1>22, <1>23, <1>24, <1>25, <1>26, <1>27
       DEF Next, SendStep, ReplayStep, LoopStep, WriteFault, CloseStep, FlushStep

\* The queues never exceed their channels' capacity, and every goroutine of
\* the connection stays at one of its labels.
THEOREM ConnTypes == Spec => []TypeOK
  <1>1. TypeOK /\ [Next]_vars => TypeOK'
    BY TypeStep
  <1>2. Init => TypeOK
    BY TypeInit
  <1> QED BY <1>1, <1>2, PTL DEF Spec
-----------------------------------------------------------------------------
(* The order of must-deliver frames. *)

\* Appending to the queue and to the history keeps the two in step.
LEMMA PushOrder ==
    ASSUME NEW S, NEW x \in Seq(S), NEW c \in Seq(S), NEW e \in S
    PROVE  x \o Append(c, e) = Append(x \o c, e)
  <1>1. Append(c, e) = c \o <<e>> /\ <<e>> \in Seq(S)
    BY AppendIsConcat
  <1>2. x \o c \in Seq(S)
    BY ConcatProperties
  <1>3. Append(x \o c, e) = (x \o c) \o <<e>>
    BY <1>2, AppendIsConcat
  <1> QED BY <1>1, <1>3, ConcatAssociative

\* A frame moves from the queue into sendLoop's hand.
LEMMA TakeOrder ==
    ASSUME NEW S, NEW d \in Seq(S), NEW c \in Seq(S), c # <<>>
    PROVE  (d \o <<>>) \o c = (d \o <<Head(c)>>) \o Tail(c)
  <1>1. Head(c) \in S /\ Tail(c) \in Seq(S) /\ <<Head(c)>> \in Seq(S)
    BY HeadTailProperties
  <1>2. c = <<Head(c)>> \o Tail(c)
    <2>1. <<Head(c)>> \o Tail(c) \in Seq(S) /\ Len(<<Head(c)>> \o Tail(c)) = Len(c)
      BY <1>1, ConcatProperties, HeadTailProperties, LenProperties
    <2>2. \A i \in 1 .. Len(c) : c[i] = (<<Head(c)>> \o Tail(c))[i]
      BY <1>1, ConcatProperties, HeadTailProperties, LenProperties
    <2> QED BY <2>1, <2>2, SeqEqual
  <1>3. d \o <<>> = d
    BY ConcatEmptySeq
  <1>4. (d \o <<Head(c)>>) \o Tail(c) = d \o (<<Head(c)>> \o Tail(c))
    BY <1>1, ConcatAssociative
  <1> QED BY <1>2, <1>3, <1>4

\* A frame moves from sendLoop's hand to what was delivered.
LEMMA WrittenOrder ==
    ASSUME NEW S, NEW d \in Seq(S), NEW f \in S
    PROVE  Append(d, f) \o <<>> = d \o <<f>>
  BY AppendIsConcat, AppendProperties, ConcatEmptySeq

\* What sendLoop holds is at most one frame.
LEMMA InHandType == ASSUME TypeOK PROVE InHand \in Seq(Frame)
  <1>1. <<>> \in Seq(Frame) /\ <<loop.frame>> \in Seq(Frame)
    BY DEF TypeOK
  <1> QED BY <1>1 DEF InHand

\* A step that moves no must-deliver frame.
LEMMA SameOrder ==
    ASSUME InOrder, UNCHANGED <<accepted, delivered, critCh>>, InHand' = InHand
    PROVE  InOrder'
  BY DEF InOrder

\* A channel send, by a sender or by the replay, keeps the order.
LEMMA PushKeepsOrder ==
    ASSUME TypeOK, InOrder, NEW s \in Everyone, Push(s), UNCHANGED <<delivered, loop>>
    PROVE  InOrder'
  <1>1. delivered \o InHand \in Seq(Frame)
    BY InHandType, ConcatProperties DEF TypeOK
  <1>2. InHand' = InHand
    BY DEF InHand
  <1>3. (delivered \o InHand) \o Append(critCh, <<s, snd[s].n>>)
          = Append((delivered \o InHand) \o critCh, <<s, snd[s].n>>)
    <2> DEFINE x == delivered \o InHand
               f == <<s, snd[s].n>>
    <2>1. x \in Seq(Frame) /\ critCh \in Seq(Frame) /\ f \in Frame
      BY <1>1, FrameOf DEF TypeOK
    <2> HIDE DEF x, f
    <2>2. x \o Append(critCh, f) = Append(x \o critCh, f)
      BY <2>1, PushOrder
    <2> QED BY <2>2 DEF x, f
  <1> QED BY <1>2, <1>3 DEF InOrder, Push

\* Every step keeps the order.
LEMMA OrderStep == ASSUME TypeOK, InOrder, [Next]_vars PROVE InOrder'
  <1> USE ReaderIn
  <1>1. ASSUME UNCHANGED <<accepted, delivered, critCh, loop>> PROVE InOrder'
    BY <1>1, SameOrder DEF InHand
  <1>2. ASSUME NEW s \in Everyone, EnqueueCritical(s) PROVE InOrder'
    <2>1. CASE Len(critCh) < SendBufSize
      BY <1>2, <2>1, PushKeepsOrder DEF EnqueueCritical
    <2>2. CASE ~(Len(critCh) < SendBufSize)
      BY <1>1, <1>2, <2>2 DEF EnqueueCritical
    <2> QED BY <2>1, <2>2
  <1>3. CASE ReplayPush
    <2>1. CASE Len(critCh) < SendBufSize
      BY <1>3, <2>1, PushKeepsOrder DEF ReplayPush
    <2>2. CASE ~(Len(critCh) < SendBufSize)
      BY <1>1, <1>3, <2>2 DEF ReplayPush
    <2> QED BY <2>1, <2>2
  <1>4. ASSUME NEW pc \in {"first", "second"}, LoopExit(pc) PROVE InOrder'
    BY <1>4, SameOrder DEF LoopExit, InHand, TypeOK, queues, hist
  <1>5. ASSUME NEW pc \in {"first", "second"}, TakeCritical(pc) PROVE InOrder'
    <2>1. InHand = <<>> /\ InHand' = <<Head(critCh)>>
      BY <1>5 DEF TakeCritical, InHand, TypeOK
    <2>2. (delivered \o <<>>) \o critCh = (delivered \o <<Head(critCh)>>) \o Tail(critCh)
      BY <1>5, TakeOrder, ZenonT(60) DEF TakeCritical, TypeOK
    <2> QED BY <1>5, <2>1, <2>2 DEF TakeCritical, InOrder
  <1>6. CASE FallThrough
    BY <1>6, SameOrder DEF FallThrough, NothingCritical, InHand, TypeOK, queues, hist
  <1>7. CASE TakeOutput
    BY <1>7, SameOrder DEF TakeOutput, InHand, TypeOK
  <1>8. CASE Place
    BY <1>8, SameOrder DEF Place, InHand, TypeOK, queues
  <1>9. CASE Written
    <2>1. CASE loop.pc = "crit"
      <3>1. InHand = <<loop.frame>> /\ InHand' = <<>>
        BY <1>9, <2>1 DEF Written, InHand, TypeOK
      <3>2. delivered' = Append(delivered, loop.frame)
        BY <1>9, <2>1 DEF Written
      <3>3. delivered' \o InHand' = delivered \o InHand
        <4>1. delivered \in Seq(Frame) /\ loop.frame \in Frame
          BY DEF TypeOK
        <4>2. Append(delivered, loop.frame) \o <<>> = delivered \o <<loop.frame>>
          BY <4>1, WrittenOrder, Zenon
        <4> QED BY <3>1, <3>2, <4>2, Zenon
      <3> QED BY <1>9, <3>3 DEF Written, InOrder, queues
    <2>2. CASE loop.pc = "out"
      BY <1>9, <2>2, SameOrder DEF Written, InHand, TypeOK, queues
    <2> QED BY <1>9, <2>1, <2>2 DEF Written, Writing
  <1>10. CASE Settle
    BY <1>10, SameOrder DEF Settle, InHand, TypeOK, hist
  <1>11. CASE Deadline
    <2>1. InHand' = InHand
      BY <1>11 DEF Deadline, Writing, Resume, InHand, TypeOK
    <2> QED BY <1>11, <2>1, SameOrder DEF Deadline, queues, hist
  <1>12. CASE WriteError
    <2>1. InHand' = InHand
      BY <1>12 DEF WriteError, Writing, InHand, TypeOK
    <2> QED BY <1>12, <2>1, SameOrder DEF WriteError, queues, hist
  <1>13. ASSUME NEW s \in Everyone, StartSend(s) \/ Check(s) \/ Count(s) \/ EnqueueDroppable(s)
         PROVE  InOrder'
    BY <1>1, <1>13 DEF StartSend, Check, Count, EnqueueDroppable, queues, hist
  <1>14. CASE StartReplay \/ ReplayCheck \/ ReplayWait \/ ReplayCancel \/ ReplayReturn
    BY <1>1, <1>14 DEF StartReplay, ReplayCheck, ReplayWait, ReplayCancel, ReplayReturn, queues, hist
  <1>15. CASE CloseStep \/ ReadError \/ FlushStep \/ UNCHANGED vars
    BY <1>1, <1>15 DEF CloseStep, CloseSlow, ReaderClose, ReaderGone, ReadError, FlushStep,
                       StartFlush, PollFlush, vars, queues, hist
  <1> QED
    BY <1>2, <1>3, <1>4, <1>5, <1>6, <1>7, <1>8, <1>9, <1>10, <1>11, <1>12, <1>13, <1>14, <1>15
       DEF Next, SendStep, ReplayStep, LoopStep, WriteFault

\* However sends, replays, failed writes and teardown interleave, frames the
\* channel accepted are delivered in its order, none lost or repeated.
THEOREM ConnInOrder == Spec => []InOrder
  <1>1. Init => InOrder
    <2>1. <<>> \in Seq(Frame)
      BY EmptySeq
    <2>2. <<>> \o <<>> = <<>>
      BY <2>1, ConcatEmptySeq
    <2> QED BY <2>2 DEF Init, InOrder, InHand
  <1>2. TypeOK /\ InOrder /\ [Next]_vars => InOrder'
    BY OrderStep
  <1> QED BY <1>1, <1>2, ConnTypes, PTL DEF Spec
-----------------------------------------------------------------------------
(* The pending count. *)

\* Senders between their channel send and their Add(1).
Counting == {s \in Pushers : At(s, "count")}

\* Frames taken from the queue whose Add(-1) is yet to come.
Taken == IF loop.pc \in {"crit", "settle", "failed"} THEN 1 ELSE 0

\* PendingExact, in terms of the two abbreviations.
LEMMA PendingForm == PendingExact <=> pending + Cardinality(Counting) = Len(critCh) + Taken
  BY DEF PendingExact, Counting, Taken

\* There are finitely many senders, so those counting can be counted.
LEMMA CountingFinite == IsFiniteSet(Counting) /\ Cardinality(Counting) \in Nat
  <1>1. IsFiniteSet(Pushers)
    BY ConnAssumption, FS_AddElement DEF Pushers
  <1>2. Counting \in SUBSET Pushers
    BY DEF Counting
  <1>3. IsFiniteSet(Counting)
    BY <1>1, <1>2, FS_Subset
  <1> QED BY <1>3, FS_CardinalityType

\* A producer that neither reaches nor leaves that point.
LEMMA CountingSame ==
    ASSUME TypeOK, NEW s \in Everyone, snd[s].pc # "count",
           snd' = [snd EXCEPT ![s] = snd'[s]], snd'[s].pc # "count"
    PROVE  Counting' = Counting
  BY DEF Counting, At, TypeOK, Everyone

\* A channel send puts one more sender at that point.
LEMMA CountingGrows ==
    ASSUME TypeOK, NEW s \in Pushers, At(s, "push"), Goto(s, "count")
    PROVE  Cardinality(Counting') = Cardinality(Counting) + 1
  <1>1. s \notin Counting
    BY DEF Counting, At
  <1>2. Counting' = Counting \cup {s}
    BY DEF Counting, At, Goto, TypeOK, Everyone
  <1> QED BY <1>1, <1>2, CountingFinite, FS_AddElement

\* Add(1) takes one sender away from it.
LEMMA CountingShrinks ==
    ASSUME TypeOK, NEW s \in Pushers, At(s, "count"), Goto(s, "idle")
    PROVE  Cardinality(Counting') = Cardinality(Counting) - 1
  <1>1. s \in Counting
    BY DEF Counting
  <1>2. Counting' = Counting \ {s}
    BY DEF Counting, At, Goto, TypeOK, Everyone
  <1> QED BY <1>1, <1>2, CountingFinite, FS_RemoveElement

\* A step that touches nothing the equation names keeps it.
LEMMA SamePending ==
    ASSUME PendingExact, UNCHANGED <<pending, critCh>>, Counting' = Counting, Taken' = Taken
    PROVE  PendingExact'
  BY PendingForm DEF PendingExact, Counting, Taken

\* A channel send: one more frame queued, one more sender yet to count.
LEMMA PushKeepsPending ==
    ASSUME TypeOK, PendingExact, NEW s \in Pushers, At(s, "push"), Push(s), UNCHANGED <<pending, loop>>
    PROVE  PendingExact'
  <1>1. Cardinality(Counting') = Cardinality(Counting) + 1
    BY CountingGrows DEF Push
  <1>2. Taken' = Taken /\ Taken \in Nat
    BY DEF Taken
  <1>3. s \in Everyone
    BY DEF Everyone
  <1>4. critCh' = Append(critCh, <<s, snd[s].n>>) /\ <<s, snd[s].n>> \in Frame
    BY <1>3, FrameOf DEF Push
  <1>5. Len(critCh') = Len(critCh) + 1 /\ Len(critCh) \in Nat
    BY <1>4, AppendProperties, LenProperties DEF TypeOK
  <1>6. pending + Cardinality(Counting) = Len(critCh) + Taken /\ pending \in Int
    BY PendingForm DEF TypeOK
  <1>7. pending' + Cardinality(Counting') = Len(critCh') + Taken'
    BY <1>1, <1>2, <1>5, <1>6, CountingFinite
  <1> QED BY <1>7 DEF PendingExact, Counting, Taken

\* A producer that moves on without a channel send or an Add(1).
LEMMA GotoKeepsPending ==
    ASSUME TypeOK, PendingExact, NEW s \in Everyone, snd[s].pc # "count",
           NEW pc \in {"idle", "check", "wait"}, Goto(s, pc),
           UNCHANGED pending, UNCHANGED critCh, UNCHANGED loop
    PROVE  PendingExact'
  <1>1. Counting' = Counting
    BY DEF Counting, At, Goto, TypeOK, Everyone
  <1>2. Taken' = Taken
    BY DEF Taken
  <1> QED BY <1>1, <1>2, SamePending

\* Every step keeps the count exact.
LEMMA PendingStep == ASSUME TypeOK, PendingExact, [Next]_vars PROVE PendingExact'
  <1> USE ReaderIn
  <1>1. ASSUME UNCHANGED <<pending, critCh, snd, loop>> PROVE PendingExact'
    BY <1>1, SamePending DEF Counting, At, Taken
  <1>2. ASSUME NEW s \in Everyone, snd[s].pc # "count", snd' = [snd EXCEPT ![s] = snd'[s]],
               snd'[s].pc # "count", UNCHANGED <<pending, critCh, loop>>
        PROVE  PendingExact'
    BY <1>2, CountingSame, SamePending DEF Taken
  <1>3. ASSUME UNCHANGED <<pending, critCh, snd>>, Taken' = Taken PROVE PendingExact'
    BY <1>3, SamePending DEF Counting, At
  <1>4. ASSUME NEW s \in Everyone, StartSend(s) PROVE PendingExact'
    BY <1>2, <1>4 DEF StartSend, Begin, At, TypeOK, queues
  <1>5. ASSUME NEW s \in Everyone, Check(s) PROVE PendingExact'
    BY <1>2, <1>5 DEF Check, At, Goto, TypeOK, queues
  <1>6. ASSUME NEW s \in Everyone, EnqueueCritical(s) PROVE PendingExact'
    <2>1. CASE Len(critCh) < SendBufSize
      BY <1>6, <2>1, PushKeepsPending DEF EnqueueCritical, Pushers
    <2>2. CASE ~(Len(critCh) < SendBufSize)
      <3>1. snd[s].pc # "count" /\ Goto(s, "idle")
        BY <1>6, <2>2 DEF EnqueueCritical, At
      <3>2. UNCHANGED pending /\ UNCHANGED critCh /\ UNCHANGED loop
        BY <1>6, <2>2 DEF EnqueueCritical
      <3> QED BY <3>1, <3>2, GotoKeepsPending
    <2> QED BY <2>1, <2>2
  <1>7. ASSUME NEW s \in Everyone, Count(s) PROVE PendingExact'
    <2>1. Cardinality(Counting') = Cardinality(Counting) - 1
      BY <1>7, CountingShrinks DEF Count
    <2>2. pending' = pending + 1 /\ critCh' = critCh /\ Taken' = Taken
      BY <1>7 DEF Count, Taken
    <2>3. pending + Cardinality(Counting) = Len(critCh) + Taken /\ pending \in Int
      BY PendingForm DEF TypeOK
    <2>4. pending' + Cardinality(Counting') = Len(critCh') + Taken'
      BY <2>1, <2>2, <2>3, CountingFinite
    <2> QED BY <2>4 DEF PendingExact, Counting, Taken
  <1>8. ASSUME NEW s \in Everyone, EnqueueDroppable(s) PROVE PendingExact'
    BY <1>2, <1>8 DEF EnqueueDroppable, At, Goto, TypeOK
  <1>9. CASE StartReplay
    BY <1>2, <1>9 DEF StartReplay, Begin, At, TypeOK, queues
  <1>10. CASE ReplayCheck
    BY <1>2, <1>10, ZenonT(60) DEF ReplayCheck, At, Goto, TypeOK, queues
  <1>11. CASE ReplayPush
    <2>1. CASE Len(critCh) < SendBufSize
      BY <1>11, <2>1, PushKeepsPending DEF ReplayPush, Pushers
    <2>2. CASE ~(Len(critCh) < SendBufSize)
      <3>1. snd[Reader].pc # "count" /\ Goto(Reader, "wait")
        BY <1>11, <2>2 DEF ReplayPush, At
      <3>2. UNCHANGED pending /\ UNCHANGED critCh /\ UNCHANGED loop
        BY <1>11, <2>2 DEF ReplayPush
      <3> QED BY <3>1, <3>2, GotoKeepsPending
    <2> QED BY <2>1, <2>2
  <1>12. CASE ReplayWait \/ ReplayCancel
    <2>1. snd[Reader].pc # "count" /\ (Goto(Reader, "idle") \/ Goto(Reader, "check"))
      BY <1>12 DEF ReplayWait, ReplayCancel, At
    <2>2. UNCHANGED pending /\ UNCHANGED critCh /\ UNCHANGED loop
      BY <1>12 DEF ReplayWait, ReplayCancel, queues
    <2> QED BY <2>1, <2>2, GotoKeepsPending
  <1>13. ASSUME NEW pc \in {"first", "second"}, LoopExit(pc) PROVE PendingExact'
    BY <1>3, <1>13 DEF LoopExit, Taken, TypeOK, queues
  <1>14. ASSUME NEW pc \in {"first", "second"}, TakeCritical(pc) PROVE PendingExact'
    <2>1. Taken = 0 /\ Taken' = 1
      BY <1>14 DEF TakeCritical, Taken, TypeOK
    <2>2. Len(critCh') = Len(critCh) - 1 /\ Len(critCh) \in Nat
      BY <1>14, HeadTailProperties, LenProperties DEF TakeCritical, TypeOK
    <2>3. pending' = pending /\ Counting' = Counting
      BY <1>14 DEF TakeCritical, Counting, At
    <2>4. pending + Cardinality(Counting) = Len(critCh) + Taken /\ pending \in Int
      BY PendingForm DEF TypeOK
    <2>5. pending' + Cardinality(Counting') = Len(critCh') + Taken'
      BY <2>1, <2>2, <2>3, <2>4, CountingFinite
    <2> QED BY <2>5 DEF PendingExact, Counting, Taken
  <1>15. CASE FallThrough
    BY <1>3, <1>15 DEF FallThrough, NothingCritical, Taken, TypeOK, queues
  <1>16. CASE TakeOutput
    BY <1>3, <1>16 DEF TakeOutput, Taken, TypeOK
  <1>17. CASE Place
    BY <1>3, <1>17 DEF Place, Taken, TypeOK, queues
  <1>18. CASE Written
    BY <1>3, <1>18 DEF Written, Writing, Taken, TypeOK, queues
  <1>19. CASE Settle
    <2>1. Taken = 1 /\ Taken' = 0
      BY <1>19 DEF Settle, Taken, TypeOK
    <2>2. pending' = pending - 1 /\ critCh' = critCh /\ Counting' = Counting
      BY <1>19 DEF Settle, Counting, At
    <2>3. pending + Cardinality(Counting) = Len(critCh) + Taken /\ pending \in Int
      BY PendingForm DEF TypeOK
    <2>4. Len(critCh) \in Nat
      BY LenProperties DEF TypeOK
    <2>5. pending' + Cardinality(Counting') = Len(critCh') + Taken'
      BY <2>1, <2>2, <2>3, <2>4, CountingFinite
    <2> QED BY <2>5 DEF PendingExact, Counting, Taken
  <1>20. CASE Deadline
    <2>1. Taken' = Taken
      BY <1>20 DEF Deadline, Writing, Resume, Taken, TypeOK
    <2> QED BY <1>3, <1>20, <2>1 DEF Deadline, queues
  <1>21. CASE WriteError
    <2>1. Taken' = Taken
      BY <1>21 DEF WriteError, Writing, Taken, TypeOK
    <2> QED BY <1>3, <1>21, <2>1 DEF WriteError, queues
  <1>22. CASE ReplayReturn \/ CloseStep \/ ReadError \/ FlushStep \/ UNCHANGED vars
    BY <1>1, <1>22 DEF ReplayReturn, CloseStep, CloseSlow, ReaderClose, ReaderGone, ReadError,
                       FlushStep, StartFlush, PollFlush, vars, queues
  <1> QED
    BY <1>4, <1>5, <1>6, <1>7, <1>8, <1>9, <1>10, <1>11, <1>12, <1>13, <1>14, <1>15, <1>16, <1>17,
       <1>18, <1>19, <1>20, <1>21, <1>22
       DEF Next, SendStep, ReplayStep, LoopStep, WriteFault

\* What Flush polls is exact at every moment: the frames queued or being
\* written, less those whose sender stands between the send and its Add(1).
THEOREM ConnPendingExact == Spec => []PendingExact
  <1>1. Init => PendingExact
    <2>1. ASSUME Init PROVE Counting = {} /\ Taken = 0 /\ Len(critCh) = 0 /\ pending = 0
      BY <2>1, EmptySeq DEF Init, Counting, At, Taken, Everyone, Pushers
    <2> QED BY <2>1, FS_EmptySet, PendingForm
  <1>2. TypeOK /\ PendingExact /\ [Next]_vars => PendingExact'
    BY PendingStep
  <1> QED BY <1>1, <1>2, ConnTypes, PTL DEF Spec
-----------------------------------------------------------------------------
(* The stream that the two lanes share. *)

\* The replay's frames in a queue.
ReplayFrames(c) == {i \in DOMAIN c : c[i][1] = Reader}
Replayed == Cardinality(ReplayFrames(critCh))

LEMMA ReplayedBound ==
    ASSUME NEW c \in Seq(Frame)
    PROVE  /\ IsFiniteSet(ReplayFrames(c)) /\ Cardinality(ReplayFrames(c)) \in Nat
           /\ Cardinality(ReplayFrames(c)) <= Len(c)
  <1>1. Len(c) \in Nat /\ DOMAIN c = 1 .. Len(c)
    BY LenProperties
  <1>2. IsFiniteSet(1 .. Len(c)) /\ Cardinality(1 .. Len(c)) = Len(c)
    BY <1>1, FS_Interval
  <1>3. ReplayFrames(c) \in SUBSET (1 .. Len(c))
    BY <1>1 DEF ReplayFrames
  <1> QED BY <1>2, <1>3, FS_Subset, FS_CardinalityType

LEMMA ReplayedAppend ==
    ASSUME NEW c \in Seq(Frame), NEW f \in Frame
    PROVE  Cardinality(ReplayFrames(Append(c, f)))
             = Cardinality(ReplayFrames(c)) + (IF f[1] = Reader THEN 1 ELSE 0)
  <1>1. /\ Len(c) \in Nat /\ DOMAIN c = 1 .. Len(c)
        /\ DOMAIN Append(c, f) = 1 .. Len(c) + 1
        /\ Append(c, f)[Len(c) + 1] = f
        /\ \A i \in 1 .. Len(c) : Append(c, f)[i] = c[i]
    OBVIOUS
  <1> DEFINE n == Len(c) + 1
             d == Append(c, f)
  <1>2. n \notin ReplayFrames(c)
    BY <1>1 DEF ReplayFrames
  <1> HIDE DEF d
  <1>3. CASE f[1] = Reader
    <2>1. ReplayFrames(d) = ReplayFrames(c) \cup {n}
      <3>1. \A i : i \in ReplayFrames(d) <=> i \in ReplayFrames(c) \/ i = n
        BY <1>1, <1>3 DEF ReplayFrames, d
      <3> QED BY <3>1, Zenon
    <2>2. Cardinality(ReplayFrames(d)) = Cardinality(ReplayFrames(c)) + 1
      BY <1>2, <2>1, ReplayedBound, FS_AddElement
    <2> QED BY <1>3, <2>2 DEF d
  <1>4. CASE f[1] # Reader
    <2>1. ReplayFrames(d) = ReplayFrames(c)
      <3>1. \A i : i \in ReplayFrames(d) <=> i \in ReplayFrames(c)
        BY <1>1, <1>4 DEF ReplayFrames, d
      <3> QED BY <3>1, Zenon
    <2>2. Cardinality(ReplayFrames(c)) + 0 = Cardinality(ReplayFrames(c))
      BY ReplayedBound
    <2> QED BY <1>4, <2>1, <2>2 DEF d
  <1> QED BY <1>3, <1>4

LEMMA ReplayedTail ==
    ASSUME NEW c \in Seq(Frame), c # <<>>
    PROVE  Cardinality(ReplayFrames(Tail(c))) <= Cardinality(ReplayFrames(c))
  <1>1. /\ Tail(c) \in Seq(Frame) /\ Len(c) \in Nat \ {0} /\ DOMAIN c = 1 .. Len(c)
        /\ DOMAIN Tail(c) = 1 .. Len(c) - 1
        /\ \A i \in 1 .. Len(c) - 1 : Tail(c)[i] = c[i + 1]
    OBVIOUS
  <1> DEFINE T == ReplayFrames(Tail(c))
             U == ReplayFrames(c)
             g == [i \in T |-> i + 1]
  <1>2. \A i \in T : i \in Int /\ i + 1 \in U
    BY <1>1 DEF ReplayFrames
  <1> HIDE DEF T, U
  <1>3. g \in [T -> U] /\ \A i, j \in T : g[i] = g[j] => i = j
    BY <1>2
  <1>4. g \in Injection(T, U)
    BY <1>3 DEF Injection, IsInjective
  <1>5. IsFiniteSet(U)
    BY ReplayedBound DEF U
  <1> HIDE DEF g
  <1>6. Cardinality(T) <= Cardinality(U)
    BY <1>4, <1>5, FS_Injection
  <1> QED BY <1>6 DEF T, U

\* The reader checked before it pushes.
RoomKept ==
    /\ Replayed <= SendHeadroom
    /\ At(Reader, "push") => Replayed < SendHeadroom

\* The output lane is a frame ahead only while a must-deliver frame waits, and
\* the second select is reached only when none did.
AheadKept ==
    /\ ahead <= 1
    /\ loop.pc = "second" => ahead = 0
    /\ ahead > 0 => critCh # <<>>

\* While sendLoop writes, the socket's last chunk is the last one of its frame's;
\* between frames it was a frame's last.
FramesWhole ==
    /\ Writing /\ loop.off > 0 => tail = [frame |-> loop.frame, i |-> loop.off]
    /\ Writing /\ loop.off = 0 => tail.i = FrameLen
    /\ loop.pc \in {"first", "second", "settle"} => tail.i = FrameLen

LEMMA RoomStep == ASSUME TypeOK, RoomKept, [Next]_vars PROVE RoomKept'
  <1> USE ReaderIn
  <1>r. Reader \notin Senders /\ Reader \notin Outputs /\ SendHeadroom \in Nat
    BY ConnAssumption
  <1>0. critCh \in Seq(Frame) /\ Len(critCh) \in Nat /\ Replayed \in Nat /\ Replayed <= Len(critCh)
    BY ReplayedBound DEF TypeOK, Replayed
  <1>1. ASSUME UNCHANGED critCh, snd'[Reader].pc = "push" => snd[Reader].pc = "push"
        PROVE  RoomKept'
    BY <1>1 DEF RoomKept, Replayed, At
  <1>2. ASSUME UNCHANGED <<critCh, snd>> PROVE RoomKept'
    BY <1>1, <1>2
  <1>3. ASSUME NEW s \in Everyone, s # Reader, StartSend(s) \/ Check(s) \/ Count(s) \/ EnqueueDroppable(s)
        PROVE  RoomKept'
    <2>1. critCh' = critCh /\ snd'[Reader] = snd[Reader]
      BY <1>3 DEF StartSend, Begin, Check, Count, EnqueueDroppable, Goto, queues, TypeOK
    <2> QED BY <1>1, <2>1
  <1>4. ASSUME NEW s \in Everyone, StartSend(s) \/ Check(s) \/ EnqueueDroppable(s) \/ EnqueueCritical(s)
        PROVE  s # Reader
    BY <1>4, <1>r DEF StartSend, Check, EnqueueDroppable, EnqueueCritical
  <1>5. ASSUME Count(Reader) PROVE RoomKept'
    <2>1. critCh' = critCh /\ snd'[Reader].pc = "idle"
      BY <1>5 DEF Count, Goto, TypeOK
    <2> QED BY <1>1, <2>1
  <1>6. ASSUME NEW s \in Everyone, EnqueueCritical(s) PROVE RoomKept'
    <2>1. snd'[Reader] = snd[Reader]
      BY <1>4, <1>6 DEF EnqueueCritical, Push, Goto, TypeOK
    <2>2. CASE Len(critCh) < SendBufSize
      <3>1. critCh' = Append(critCh, <<s, snd[s].n>>) /\ <<s, snd[s].n>> \in Frame
        BY <1>6, <2>2, FrameOf DEF EnqueueCritical, Push
      <3>2. <<s, snd[s].n>>[1] # Reader
        BY <1>4, <1>6
      <3>3. Replayed' = Replayed
        BY <1>0, <3>1, <3>2, ReplayedAppend DEF Replayed
      <3> QED BY <2>1, <3>3 DEF RoomKept, At
    <2>3. CASE ~(Len(critCh) < SendBufSize)
      BY <1>1, <1>6, <2>1, <2>3 DEF EnqueueCritical
    <2> QED BY <2>2, <2>3
  <1>7. CASE StartReplay
    <2>1. critCh' = critCh /\ snd'[Reader].pc = "check"
      BY <1>7 DEF StartReplay, Begin, queues, TypeOK
    <2> QED BY <1>1, <2>1
  <1>8. CASE ReplayCheck
    <2>1. critCh' = critCh /\ (snd'[Reader].pc = "push" => HasRoom)
      BY <1>8 DEF ReplayCheck, Goto, queues, TypeOK
    <2> QED BY <1>0, <1>r, <2>1 DEF RoomKept, Replayed, At, HasRoom
  <1>9. CASE ReplayPush
    <2>1. CASE Len(critCh) < SendBufSize
      <3>1. critCh' = Append(critCh, <<Reader, snd[Reader].n>>) /\ <<Reader, snd[Reader].n>> \in Frame
        BY <1>9, <2>1, FrameOf DEF ReplayPush, Push
      <3>2. Replayed' = Replayed + 1
        BY <1>0, <3>1, ReplayedAppend DEF Replayed
      <3>3. snd'[Reader].pc = "count" /\ Replayed < SendHeadroom
        BY <1>9, <2>1 DEF ReplayPush, Push, Goto, RoomKept, TypeOK
      <3> QED BY <1>0, <1>r, <3>2, <3>3 DEF RoomKept, At
    <2>2. CASE ~(Len(critCh) < SendBufSize)
      <3>1. critCh' = critCh /\ snd'[Reader].pc = "wait"
        BY <1>9, <2>2 DEF ReplayPush, Goto, TypeOK
      <3> QED BY <1>1, <3>1
    <2> QED BY <2>1, <2>2
  <1>10. CASE ReplayWait \/ ReplayCancel
    <2>1. critCh' = critCh /\ snd'[Reader].pc \in {"idle", "check"}
      BY <1>10 DEF ReplayWait, ReplayCancel, Goto, queues, TypeOK
    <2> QED BY <1>1, <2>1
  <1>11. ASSUME NEW pc \in {"first", "second"}, LoopExit(pc) PROVE RoomKept'
    BY <1>2, <1>11 DEF LoopExit, queues
  <1>12. ASSUME NEW pc \in {"first", "second"}, TakeCritical(pc) PROVE RoomKept'
    <2>1. critCh # <<>> /\ critCh' = Tail(critCh) /\ snd' = snd
      BY <1>12 DEF TakeCritical
    <2>2. Replayed' <= Replayed /\ Replayed' \in Nat
      <3>1. Tail(critCh) \in Seq(Frame)
        BY <1>0, <2>1
      <3> QED BY <1>0, <2>1, <3>1, ReplayedTail, ReplayedBound DEF Replayed
    <2> QED BY <1>0, <1>r, <2>1, <2>2 DEF RoomKept, At
  <1>13. CASE ReplayReturn \/ FallThrough \/ TakeOutput \/ Place \/ Written \/ Settle \/ WriteFault
              \/ CloseStep \/ ReadError \/ FlushStep \/ UNCHANGED vars
    <2>1. UNCHANGED <<critCh, snd>>
      BY <1>13 DEF ReplayReturn, FallThrough, TakeOutput, Place, Written, Settle, WriteFault, Deadline,
                   WriteError, CloseStep, CloseSlow, ReaderClose, ReaderGone, ReadError, FlushStep,
                   StartFlush, PollFlush, vars, queues
    <2> QED BY <1>2, <2>1
  <1> QED
    BY <1>3, <1>4, <1>5, <1>6, <1>7, <1>8, <1>9, <1>10, <1>11, <1>12, <1>13
       DEF Next, SendStep, ReplayStep, LoopStep

LEMMA AheadStep == ASSUME TypeOK, AheadKept, [Next]_vars PROVE AheadKept'
  <1> USE ReaderIn
  <1>1. ASSUME UNCHANGED <<ahead, loop>>, critCh' = <<>> => critCh = <<>> PROVE AheadKept'
    BY <1>1 DEF AheadKept
  <1>2. ASSUME UNCHANGED <<ahead, critCh>>, loop'.pc # "second" PROVE AheadKept'
    BY <1>2 DEF AheadKept
  <1>3. ASSUME NEW s \in Everyone, Push(s) PROVE critCh' # <<>>
    <2>1. <<s, snd[s].n>> \in Frame /\ critCh \in Seq(Frame)
      BY FrameOf DEF TypeOK
    <2>2. critCh' = Append(critCh, <<s, snd[s].n>>)
      BY <1>3 DEF Push
    <2> QED BY <2>1, <2>2
  <1>4. ASSUME NEW s \in Everyone, StartSend(s) \/ Check(s) \/ Count(s) \/ EnqueueDroppable(s)
        PROVE  AheadKept'
    BY <1>1, <1>4 DEF StartSend, Check, Count, EnqueueDroppable, queues, hist
  <1>5. ASSUME NEW s \in Everyone, EnqueueCritical(s) PROVE AheadKept'
    <2>1. UNCHANGED <<ahead, loop>> /\ (critCh' = <<>> => critCh = <<>>)
      BY <1>3, <1>5 DEF EnqueueCritical
    <2> QED BY <1>1, <2>1
  <1>6. CASE ReplayPush
    <2>1. UNCHANGED <<ahead, loop>> /\ (critCh' = <<>> => critCh = <<>>)
      BY <1>3, <1>6 DEF ReplayPush
    <2> QED BY <1>1, <2>1
  <1>7. CASE StartReplay \/ ReplayCheck \/ ReplayWait \/ ReplayCancel \/ ReplayReturn
             \/ CloseStep \/ ReadError \/ FlushStep \/ UNCHANGED vars
    <2>1. UNCHANGED <<ahead, loop, critCh>>
      BY <1>7 DEF StartReplay, ReplayCheck, ReplayWait, ReplayCancel, ReplayReturn, CloseStep, CloseSlow,
                  ReaderClose, ReaderGone, ReadError, FlushStep, StartFlush, PollFlush, vars, queues, hist
    <2> QED BY <1>1, <2>1
  <1>8. ASSUME NEW pc \in {"first", "second"}, LoopExit(pc) PROVE AheadKept'
    <2>1. UNCHANGED <<ahead, critCh>> /\ loop'.pc = "dead"
      BY <1>8 DEF LoopExit, queues, hist, TypeOK
    <2> QED BY <1>2, <2>1
  <1>9. ASSUME NEW pc \in {"first", "second"}, TakeCritical(pc) PROVE AheadKept'
    <2>1. ahead' = 0 /\ loop'.pc = "crit"
      BY <1>9 DEF TakeCritical
    <2> QED BY <2>1 DEF AheadKept
  <1>10. CASE FallThrough
    <2>1. UNCHANGED <<ahead, critCh>> /\ critCh = <<>> /\ ahead \in Nat
      BY <1>10 DEF FallThrough, NothingCritical, queues, hist, TypeOK
    <2> QED BY <2>1 DEF AheadKept
  <1>11. CASE TakeOutput
    <2>1. ahead = 0 /\ ahead' = (IF critCh # <<>> THEN ahead + 1 ELSE 0) /\ critCh' = critCh
          /\ loop'.pc = "out"
      BY <1>11 DEF TakeOutput, AheadKept
    <2> QED BY <2>1 DEF AheadKept
  <1>12. CASE Place \/ Written \/ Settle \/ WriteFault
    <2>1. UNCHANGED <<ahead, critCh>>
      BY <1>12 DEF Place, Written, Settle, WriteFault, Deadline, WriteError, queues, hist
    <2>2. loop'.pc # "second"
      <3>1. CASE Place
        BY <3>1 DEF Place, Writing, TypeOK
      <3>2. CASE Written
        BY <3>2 DEF Written, Writing, TypeOK
      <3>3. CASE Settle
        BY <3>3 DEF Settle, TypeOK
      <3>4. CASE WriteFault
        BY <3>4 DEF WriteFault, Deadline, WriteError, Writing, Resume, TypeOK
      <3> QED BY <1>12, <3>1, <3>2, <3>3, <3>4
    <2> QED BY <1>2, <2>1, <2>2
  <1> QED
    BY <1>4, <1>5, <1>6, <1>7, <1>8, <1>9, <1>10, <1>11, <1>12
       DEF Next, SendStep, ReplayStep, LoopStep

\* A chunk follows its predecessor, and the loop's account of the stream holds.
Follows == tail' # tail => \/ tail'.frame = tail.frame /\ tail'.i = tail.i + 1
                           \/ tail.i = FrameLen /\ tail'.i = 1

LEMMA FramesStep == ASSUME TypeOK, FramesWhole, [Next]_vars PROVE FramesWhole' /\ Follows
  <1> USE ReaderIn
  <1>1. ASSUME UNCHANGED <<tail, loop>> PROVE FramesWhole' /\ Follows
    BY <1>1 DEF FramesWhole, Follows, Writing
  <1>f. FrameLen \in Nat /\ FrameLen > 0
    BY ConnAssumption
  <1>l. /\ DOMAIN loop = {"pc", "frame", "off", "base"} /\ loop.off \in 0 .. FrameLen
        /\ loop.pc \in {"first", "second", "crit", "out", "settle", "failed", "lost", "dead"}
    BY DEF TypeOK
  <1>2. ASSUME NEW s \in Everyone, StartSend(s) \/ Check(s) \/ EnqueueCritical(s) \/ Count(s) \/ EnqueueDroppable(s)
        PROVE  FramesWhole' /\ Follows
    BY <1>1, <1>2 DEF StartSend, Check, EnqueueCritical, Count, EnqueueDroppable, hist
  <1>3. CASE StartReplay \/ ReplayStep \/ ReplayCancel \/ CloseStep \/ ReadError \/ FlushStep \/ UNCHANGED vars
    BY <1>1, <1>3 DEF StartReplay, ReplayStep, ReplayCheck, ReplayPush, ReplayWait, ReplayCancel, ReplayReturn,
                      CloseStep, CloseSlow, ReaderClose, ReaderGone, ReadError, FlushStep, StartFlush,
                      PollFlush, vars, hist
  <1>4. ASSUME NEW pc \in {"first", "second"}, LoopExit(pc) PROVE FramesWhole' /\ Follows
    <2>1. tail' = tail /\ loop'.pc = "dead"
      BY <1>4, <1>l DEF LoopExit, hist
    <2> QED BY <2>1 DEF FramesWhole, Follows, Writing
  <1>5. ASSUME tail' = tail, tail.i = FrameLen, loop'.off = 0 \/ loop'.pc \in {"first", "second", "settle"},
               loop'.pc \in {"first", "second", "crit", "out", "settle"}
        PROVE  FramesWhole' /\ Follows
    BY <1>5 DEF FramesWhole, Follows, Writing
  <1>6. ASSUME NEW pc \in {"first", "second"}, TakeCritical(pc) PROVE FramesWhole' /\ Follows
    <2>1. tail' = tail /\ loop'.off = 0 /\ loop'.pc = "crit" /\ tail.i = FrameLen
      BY <1>6 DEF TakeCritical, FramesWhole
    <2> QED BY <1>5, <2>1
  <1>7. CASE FallThrough
    <2>1. tail' = tail /\ loop'.pc = "second" /\ tail.i = FrameLen
      BY <1>7, <1>l DEF FallThrough, NothingCritical, FramesWhole, hist
    <2> QED BY <1>5, <2>1
  <1>8. CASE TakeOutput
    <2>1. tail' = tail /\ loop'.off = 0 /\ loop'.pc = "out" /\ tail.i = FrameLen
      BY <1>8 DEF TakeOutput, FramesWhole
    <2> QED BY <1>5, <2>1
  <1>9. CASE Place
    <2>1. /\ Writing /\ loop'.pc = loop.pc /\ loop'.off = loop.off + 1 /\ loop'.frame = loop.frame
          /\ tail' = [frame |-> loop.frame, i |-> loop.off + 1]
      BY <1>9, <1>l DEF Place
    <2>2. FramesWhole'
      BY <1>l, <2>1 DEF FramesWhole, Writing
    <2>3. Follows
      BY <1>l, <2>1 DEF FramesWhole, Follows
    <2> QED BY <2>2, <2>3
  <1>10. CASE Written
    <2>1. Writing /\ loop.off = FrameLen /\ tail' = tail /\ loop'.pc \in {"settle", "first"}
      BY <1>10, <1>l DEF Written
    <2>2. tail.i = FrameLen
      BY <1>f, <2>1 DEF FramesWhole
    <2> QED BY <1>5, <2>1, <2>2
  <1>11. CASE Settle
    <2>1. /\ tail' = tail
          /\ \/ loop.pc = "settle" /\ loop'.pc = "first"
             \/ loop'.pc = "lost"
      BY <1>11, <1>l DEF Settle, hist
    <2> QED BY <2>1 DEF FramesWhole, Follows, Writing
  <1>12. CASE WriteFault
    <2>1. /\ tail' = tail /\ Writing
          /\ \/ loop'.pc = loop.pc /\ loop'.off = loop.off /\ loop'.frame = loop.frame
             \/ loop'.pc \in {"failed", "dead"}
      BY <1>12, <1>l DEF WriteFault, Deadline, WriteError, Resume, hist
    <2> QED BY <2>1 DEF FramesWhole, Follows, Writing
  <1> QED
    BY <1>2, <1>3, <1>4, <1>6, <1>7, <1>8, <1>9, <1>10, <1>11, <1>12 DEF Next, SendStep, LoopStep

\* One stream for both lanes, whatever fills them and however its writes fail:
\* a replay leaves the broadcasts room, output is at most one frame ahead of a
\* waiting must-deliver frame, and no frame is torn by another, for any queue
\* size, headroom and frame length.
THEOREM ConnStreamShared == Spec => StreamShared
  <1>1. Init => RoomKept /\ AheadKept /\ FramesWhole
    <2> SUFFICES ASSUME Init PROVE RoomKept /\ AheadKept /\ FramesWhole
      OBVIOUS
    <2>1. ReplayFrames(critCh) = {}
      BY DEF Init, ReplayFrames
    <2>2. Replayed = 0
      BY <2>1, FS_EmptySet DEF Replayed
    <2>3. RoomKept
      BY <2>2, ConnAssumption, ReaderIn DEF Init, RoomKept, At
    <2>4. AheadKept /\ FramesWhole
      BY DEF Init, AheadKept, FramesWhole, Writing
    <2> QED BY <2>3, <2>4
  <1>2. TypeOK /\ RoomKept /\ AheadKept /\ FramesWhole /\ [Next]_vars
          => RoomKept' /\ AheadKept' /\ FramesWhole' /\ [Follows]_vars
    BY RoomStep, AheadStep, FramesStep
  <1>3. RoomKept /\ AheadKept => LanesShared
    BY DEF RoomKept, AheadKept, LanesShared, ReplayLeavesRoom, OutputNeverStarvesState, Replayed, ReplayFrames
  <1>4. [Follows]_vars <=> [tail' # tail => \/ tail'.frame = tail.frame /\ tail'.i = tail.i + 1
                                            \/ tail.i = FrameLen /\ tail'.i = 1]_vars
    BY DEF Follows
  <1> QED BY <1>1, <1>2, <1>3, <1>4, ConnTypes, PTL DEF Spec, StreamShared, WellFramed
=============================================================================

-------------------------- MODULE RingBufferProofs --------------------------
(* Proofs about RingBuffer, for every capacity and every set of chunks.    *)
EXTENDS RingBuffer, SequenceTheorems, TLAPS

\* The indices of the code never exceed twice the capacity before they are
\* reduced, so % only ever subtracts the capacity once.
LEMMA ModOnce ==
    ASSUME NEW c \in Nat \ {0}, NEW x \in Nat, x < c + c
    PROVE  \/ x < c /\ x % c = x
           \/ c <= x /\ x % c = x - c
<1>1. CASE x < c
  BY <1>1, SMT
<1>2. CASE ~(x < c)
  <2> DEFINE q == x \div c
             r == x % c
  <2>1. q \in Nat /\ r \in Nat /\ r < c /\ x = q * c + r
    BY SMT
  <2> HIDE DEF q, r
  <2>2. q # 0
    BY <1>2, <2>1, SMT
  <2>3. CASE q >= 2
    <3>1. PICK k \in Nat : q = k + 2
      BY <2>1, <2>3, SMT
    <3>2. k * c \in Nat /\ q * c = k * c + c + c
      BY <3>1, SMT
    <3> QED BY <2>1, <3>2, SMT
  <2>4. CASE q = 1
    BY <1>2, <2>1, <2>4, SMT DEF r
  <2> QED BY <2>1, <2>2, <2>3, <2>4, SMT
<1> QED BY <1>1, <1>2

\* Indices below twice the capacity wrap at most once.
LEMMA ModCap ==
    \A x \in Nat : x < Capacity + Capacity =>
        \/ x < Capacity /\ x % Capacity = x
        \/ Capacity <= x /\ x % Capacity = x - Capacity
BY RingAssumption, ModOnce, Zenon

\* The slot of the k-th byte copied from slot f on.
Pos(f, k) == IF f + k - 1 < Capacity THEN f + k - 1 ELSE f + k - 1 - Capacity

\* What CopyOut returns.
LEMMA CopyAt ==
    ASSUME NEW b \in [Slot -> Byte], NEW f \in Slot, NEW n \in 0 .. Capacity
    PROVE  /\ CopyOut(b, f, n) \in Seq(Byte)
           /\ Len(CopyOut(b, f, n)) = n
           /\ \A k \in 1 .. n : Pos(f, k) \in Slot /\ CopyOut(b, f, n)[k] = b[Pos(f, k)]
<1> USE RingAssumption
<1>1. \A k \in 1 .. n : Pos(f, k) \in Slot /\ CopyOut(b, f, n)[k] = b[Pos(f, k)]
  BY DEF CopyOut, Slot, Pos
<1>2. CopyOut(b, f, n) = [k \in 1 .. n |-> CopyOut(b, f, n)[k]]
  BY DEF CopyOut
<1>3. CopyOut(b, f, n) \in [1 .. n -> Byte]
  BY <1>1, <1>2
<1>4. n \in Nat
  OBVIOUS
<1> QED BY <1>1, <1>3, <1>4

\* Bytes starts at the oldest slot.
LEMMA BytesCopy ==
    ASSUME NEW st \in Slot, NEW n \in 0 .. Capacity
    PROVE  (st + n - n) % Capacity = st
<1> USE RingAssumption
<1>1. st \in Nat /\ st < Capacity /\ st + n - n = st
  BY DEF Slot
<1> QED BY <1>1, ModOnce

\* Every step keeps the indices inside the array.
THEOREM TypeCorrect == Spec => []TypeOK
<1> USE RingAssumption
<1>1. Init => TypeOK
  BY DEF Init, NewRingBuffer, TypeOK, Slot, NoGen
<1>2. TypeOK /\ [Next]_vars => TypeOK'
  <2> SUFFICES ASSUME TypeOK, [Next]_vars PROVE TypeOK'
    OBVIOUS
  <2>1. ASSUME NEW p \in Chunks, Write(p) PROVE TypeOK'
    <3>1. p \in Seq(Byte) /\ Len(p) \in Nat /\ Len(p) > 0
      BY <2>1 DEF Write
    <3>2. UNCHANGED flush /\ gen' \in 0 .. MaxGen /\ input' \in Seq(Byte)
      BY <2>1, <3>1 DEF Write, TypeOK
    <3>3. CASE Len(p) >= Capacity
      <4>1. Overwrite(p)
        BY <2>1, <3>3 DEF Write
      <4> QED BY <3>1, <3>2, <3>3, <4>1 DEF Overwrite, TypeOK, Slot, flush
    <3>4. CASE ~(Len(p) >= Capacity)
      <4>1. AppendWrapped(p)
        BY <2>1, <3>4 DEF Write
      <4>2. PICK e \in Slot : e = (start + size) % Capacity
        <5>1. start + size \in Nat /\ start + size < Capacity + Capacity
          BY DEF TypeOK, Slot
        <5> QED BY <5>1, ModOnce DEF Slot
      <4>3. buf' \in [Slot -> Byte]
        BY <3>1, <3>4, <4>1, <4>2 DEF AppendWrapped, TypeOK, Slot
      <4>4. start' \in Slot /\ size' \in 0 .. Capacity
        <5> DEFINE g == start + (size + Len(p)) - Capacity
        <5>1. CASE size + Len(p) > Capacity
          <6>1. g \in Nat /\ g < Capacity + Capacity
            BY <3>1, <3>4, <5>1 DEF TypeOK, Slot
          <6>2. g % Capacity \in Slot
            <7> HIDE DEF g
            <7>1. \/ g < Capacity /\ g % Capacity = g
                  \/ Capacity <= g /\ g % Capacity = g - Capacity
              BY <6>1, ModOnce, Zenon
            <7> QED BY <6>1, <7>1 DEF Slot
          <6> QED BY <4>1, <5>1, <6>2 DEF AppendWrapped, TypeOK, Slot
        <5>2. CASE ~(size + Len(p) > Capacity)
          BY <3>1, <4>1, <5>2 DEF AppendWrapped, TypeOK, Slot
        <5> QED BY <5>1, <5>2
      <4> QED BY <3>2, <4>3, <4>4 DEF TypeOK, flush
    <3> QED BY <3>3, <3>4
  <2>2. CASE Reset
    BY <2>2 DEF Reset, TypeOK, Slot, flush
  <2>3. CASE FlushSkip
    BY <2>3 DEF FlushSkip, TypeOK, Slot, vars, ring, flush
  <2>4. CASE FlushGen
    BY <2>4 DEF FlushGen, TypeOK, Slot, ring
  <2>5. CASE FlushBytes
    <3>1. Bytes \in Seq(Byte)
      BY BytesCopy, CopyAt DEF TypeOK, Bytes, TailLocked
    <3> QED BY <2>5, <3>1 DEF FlushBytes, TypeOK, Slot, ring
  <2>6. CASE UNCHANGED vars
    BY <2>6 DEF TypeOK, Slot, vars, ring, flush
  <2> QED BY <2>1, <2>2, <2>3, <2>4, <2>5, <2>6 DEF Next
<1> QED BY <1>1, <1>2, PTL DEF Spec

-----------------------------------------------------------------------------
\* What the flush remembers is never ahead of the buffer; with SkipIsSound
\* this is inductive.
FlushInv ==
    /\ TypeOK
    /\ savedGen <= gen
    /\ flushPC = "bytes" => flushGen <= gen
    /\ SkipIsSound

\* A pane the flush skips has its current bytes on the flush's side: gen is
\* read before the bytes and every mutation bumps it.
THEOREM SkipSound == Spec => []SkipIsSound
<1> USE RingAssumption
<1>1. Init => FlushInv
  <2> SUFFICES ASSUME Init PROVE FlushInv
    OBVIOUS
  <2>1. TypeOK
    BY DEF Init, NewRingBuffer, TypeOK, Slot, NoGen
  <2> QED BY <2>1 DEF Init, NewRingBuffer, FlushInv, SkipIsSound, NoGen
<1>2. FlushInv /\ TypeOK' /\ [Next]_vars => FlushInv'
  <2> SUFFICES ASSUME FlushInv, TypeOK', [Next]_vars PROVE FlushInv'
    OBVIOUS
  <2>0. gen \in Nat /\ flushGen \in Nat /\ savedGen \in Int /\ gen' \in Nat
    BY DEF FlushInv, TypeOK, NoGen
  <2>1. ASSUME NEW p \in Chunks, Write(p) PROVE FlushInv'
    BY <2>0, <2>1 DEF Write, FlushInv, SkipIsSound, flush
  <2>2. CASE Reset
    BY <2>0, <2>2 DEF Reset, FlushInv, SkipIsSound, flush
  <2>3. ASSUME UNCHANGED vars PROVE FlushInv'
    BY <2>3 DEF FlushInv, SkipIsSound, Bytes, TailLocked, vars, ring, flush
  <2>4. CASE FlushSkip
    BY <2>3, <2>4 DEF FlushSkip
  <2>5. CASE FlushGen
    <3>1. Bytes' = Bytes
      BY <2>5 DEF FlushGen, Bytes, TailLocked, ring
    <3> QED BY <2>0, <2>5, <3>1 DEF FlushGen, FlushInv, SkipIsSound, ring
  <2>6. CASE FlushBytes
    <3>1. Bytes' = Bytes
      BY <2>6 DEF FlushBytes, Bytes, TailLocked, ring
    <3> QED BY <2>0, <2>6, <3>1 DEF FlushBytes, FlushInv, SkipIsSound, ring
  <2> QED BY <2>1, <2>2, <2>3, <2>4, <2>5, <2>6 DEF Next
<1> QED BY <1>1, <1>2, TypeCorrect, PTL DEF Spec, FlushInv

-----------------------------------------------------------------------------
\* The length of a subsequence that lies within its sequence.
LEMMA SubSeqLen ==
    ASSUME NEW S, NEW s \in Seq(S), NEW a \in 1 .. Len(s), NEW l \in a .. Len(s)
    PROVE  Len(SubSeq(s, a, l)) = l - a + 1
OBVIOUS

\* What LastN returns: the elements behind the dropped ones.
LEMMA LastNAt ==
    ASSUME NEW S, NEW s \in Seq(S), NEW n \in Nat \ {0},
           NEW d \in Nat, d = IF Len(s) <= n THEN 0 ELSE Len(s) - n
    PROVE  /\ Log!LastN(s, n) \in Seq(S)
           /\ Len(Log!LastN(s, n)) = Len(s) - d
           /\ \A k \in 1 .. Len(s) - d : Log!LastN(s, n)[k] = s[d + k]
<1>1. CASE Len(s) <= n
  BY <1>1 DEF Log!LastN
<1>2. CASE ~(Len(s) <= n)
  <2>1. Log!LastN(s, n) = SubSeq(s, d + 1, Len(s))
    BY <1>2 DEF Log!LastN
  <2>2. d + 1 \in 1 .. Len(s) /\ Len(s) \in d + 1 .. Len(s) /\ Len(s) \in Nat
    BY <1>2
  <2>3. SubSeq(s, d + 1, Len(s)) \in Seq(S)
    BY <2>2
  <2>4. Len(SubSeq(s, d + 1, Len(s))) = Len(s) - d
    <3>1. Len(SubSeq(s, d + 1, Len(s))) = Len(s) - (d + 1) + 1
      BY <2>2, SubSeqLen, Zenon
    <3>2. Len(s) - (d + 1) + 1 = Len(s) - d
      OBVIOUS
    <3> QED BY <3>1, <3>2, Zenon
  <2>5. ASSUME NEW k \in 1 .. Len(s) - d PROVE SubSeq(s, d + 1, Len(s))[k] = s[d + k]
    BY <2>2
  <2> QED BY <2>1, <2>3, <2>4, <2>5
<1> QED BY <1>1, <1>2

\* The arrays b and b2 before and after a chunk p of m < Capacity bytes went
\* behind the n bytes that start at slot f: e is the slot behind the newest
\* byte, d the number of old bytes trimmed, f2 the new start.
Appended(b, b2, f, f2, n, m, p, e, d) ==
    /\ b \in [Slot -> Byte] /\ b2 \in [Slot -> Byte]
    /\ f \in Slot /\ f2 \in Slot /\ e \in Slot
    /\ n \in 0 .. Capacity
    /\ m \in Nat /\ 0 < m /\ m < Capacity
    /\ p \in Seq(Byte) /\ Len(p) = m
    /\ e = f + n \/ e = f + n - Capacity
    /\ d \in Nat /\ d = IF n + m > Capacity THEN n + m - Capacity ELSE 0
    /\ f2 = f + d \/ f2 = f + d - Capacity
    /\ b2 = [i \in Slot |->
                     IF e <= i /\ i - e < m THEN p[i - e + 1]
                     ELSE IF i + (Capacity - e) < m
                          THEN p[i + (Capacity - e) + 1]
                          ELSE b[i]]

\* The region from the new start reads as the old bytes without the trimmed
\* ones, then the chunk.
LEMMA AppendCopies ==
    ASSUME NEW b, NEW b2, NEW f, NEW f2, NEW n, NEW m, NEW p, NEW e, NEW d,
           Appended(b, b2, f, f2, n, m, p, e, d)
    PROVE  CopyOut(b2, f2, n + m - d) = Log!LastN(CopyOut(b, f, n) \o p, Capacity)
<1> USE RingAssumption
<1> DEFINE old == CopyOut(b, f, n)
           new == CopyOut(b2, f2, n + m - d)
           all == old \o p
<1> USE DEF Appended
<1>1. /\ old \in Seq(Byte) /\ Len(old) = n
      /\ \A k \in 1 .. n : Pos(f, k) \in Slot /\ old[k] = b[Pos(f, k)]
  BY CopyAt
<1>2. n + m - d \in 0 .. Capacity
  OBVIOUS
<1>3. /\ new \in Seq(Byte) /\ Len(new) = n + m - d
      /\ \A k \in 1 .. n + m - d : Pos(f2, k) \in Slot /\ new[k] = b2[Pos(f2, k)]
  BY <1>2, CopyAt, ZenonT(60)
<1> HIDE DEF old, new
<1>4. /\ all \in Seq(Byte) /\ Len(all) = n + m
      /\ \A k \in 1 .. n + m : /\ k <= n => all[k] = old[k]
                               /\ ~(k <= n) => all[k] = p[k - n]
  <2>1. /\ old \o p \in Seq(Byte)
        /\ Len(old \o p) = Len(old) + Len(p)
        /\ \A i \in 1 .. Len(old) + Len(p) : (old \o p)[i] =
                     IF i <= Len(old) THEN old[i] ELSE p[i - Len(old)]
    BY <1>1, ConcatProperties, ZenonT(60)
  <2> QED BY <1>1, <2>1
<1> HIDE DEF all
<1>5. /\ Log!LastN(all, Capacity) \in Seq(Byte)
      /\ Len(Log!LastN(all, Capacity)) = n + m - d
      /\ \A k \in 1 .. n + m - d : Log!LastN(all, Capacity)[k] = all[d + k]
  <2>1. d = IF Len(all) <= Capacity THEN 0 ELSE Len(all) - Capacity
    BY <1>4
  <2>2. Capacity \in Nat \ {0} /\ all \in Seq(Byte) /\ d \in Nat
    BY <1>4
  <2>3. /\ Log!LastN(all, Capacity) \in Seq(Byte)
        /\ Len(Log!LastN(all, Capacity)) = Len(all) - d
        /\ \A k \in 1 .. Len(all) - d : Log!LastN(all, Capacity)[k] = all[d + k]
    BY <2>1, <2>2, LastNAt, ZenonT(60)
  <2> QED BY <1>4, <2>3
<1>6. ASSUME NEW k \in 1 .. n + m - d PROVE new[k] = all[d + k]
  <2>1. d + k \in 1 .. n + m
    OBVIOUS
  <2>2. CASE d + k <= n
    <3>1. Pos(f2, k) = Pos(f, d + k)
      BY <2>1, <2>2 DEF Pos, Slot
    <3>2. /\ ~(e <= Pos(f, d + k) /\ Pos(f, d + k) - e < m)
          /\ ~(Pos(f, d + k) + (Capacity - e) < m)
      BY <2>1, <2>2 DEF Pos, Slot
    <3>3. new[k] = b2[Pos(f, d + k)] /\ Pos(f, d + k) \in Slot
      BY <1>3, <3>1, ZenonT(60)
    <3>4. b2[Pos(f, d + k)] = b[Pos(f, d + k)]
      BY <3>2, <3>3
    <3>5. d + k \in 1 .. n /\ all[d + k] = old[d + k]
      BY <1>4, <2>1, <2>2
    <3> QED BY <1>1, <3>3, <3>4, <3>5
  <2>3. CASE ~(d + k <= n)
    <3>1. PICK x \in Slot : x = Pos(f2, k)
      BY <1>3
    <3>2. \/ e <= x /\ x - e < m /\ x - e + 1 = d + k - n
          \/ /\ ~(e <= x)
             /\ x + (Capacity - e) < m
             /\ x + (Capacity - e) + 1 = d + k - n
      BY <2>1, <2>3, <3>1 DEF Pos, Slot
    <3>3. b2[x] = p[d + k - n]
      BY <3>2
    <3>4. new[k] = b2[x]
      BY <1>3, <3>1
    <3>5. all[d + k] = p[d + k - n]
      BY <1>4, <2>1, <2>3
    <3> QED BY <3>3, <3>4, <3>5
  <2> QED BY <2>2, <2>3
<1>7. new = Log!LastN(all, Capacity)
  <2>1. \A k \in 1 .. n + m - d : new[k] = Log!LastN(all, Capacity)[k]
    BY <1>5, <1>6
  <2> QED BY <1>3, <1>5, <2>1, SeqEqual
<1> QED BY <1>7 DEF new, all, old

\* A write, seen through Bytes, appends and trims.
LEMMA WriteAppends ==
    ASSUME TypeOK, TypeOK', NEW p \in Chunks, Write(p)
    PROVE  Bytes' = Log!LastN(Bytes \o p, Capacity)
<1> USE RingAssumption
<1>1. Bytes = CopyOut(buf, start, size)
  BY BytesCopy DEF TypeOK, Bytes, TailLocked
<1>2. Bytes' = CopyOut(buf', start', size')
  BY BytesCopy DEF TypeOK, Bytes, TailLocked, Slot
<1>3. p \in Seq(Byte) /\ Len(p) \in Nat /\ Len(p) > 0
  BY DEF Write
<1>4. /\ buf \in [Slot -> Byte] /\ start \in Slot /\ size \in 0 .. Capacity
      /\ buf' \in [Slot -> Byte] /\ start' \in Slot /\ size' \in 0 .. Capacity
  BY DEF TypeOK, Slot
<1>5. CASE Len(p) >= Capacity
  <2> DEFINE all == Bytes \o p
             d == size + Len(p) - Capacity
  <2>1. Overwrite(p)
    BY <1>5 DEF Write
  <2>2. Bytes \in Seq(Byte) /\ Len(Bytes) = size
    BY <1>1, <1>4, CopyAt
  <2>3. /\ all \in Seq(Byte) /\ Len(all) = size + Len(p)
        /\ \A k \in size + 1 .. size + Len(p) : all[k] = p[k - size]
    BY <1>3, <1>4, <2>2
  <2>4. d \in Nat /\ d = IF Len(all) <= Capacity THEN 0 ELSE Len(all) - Capacity
    BY <1>3, <1>4, <1>5, <2>3
  <2> HIDE DEF all, d
  <2>5. /\ Log!LastN(all, Capacity) \in Seq(Byte)
        /\ Len(Log!LastN(all, Capacity)) = Len(all) - d
        /\ \A k \in 1 .. Len(all) - d : Log!LastN(all, Capacity)[k] = all[d + k]
    BY <2>3, <2>4, LastNAt, ZenonT(60)
  <2>6. Len(all) - d = Capacity
    BY <1>3, <1>4, <2>3 DEF d
  <2>7. /\ Bytes' \in Seq(Byte) /\ Len(Bytes') = Capacity
        /\ \A k \in 1 .. Capacity : Pos(0, k) \in Slot /\ Bytes'[k] = buf'[Pos(0, k)]
    <3>1. start' = 0 /\ size' = Capacity
      BY <2>1 DEF Overwrite
    <3>2. 0 \in Slot /\ Capacity \in 0 .. Capacity
      BY DEF Slot
    <3>3. Bytes' = CopyOut(buf', 0, Capacity)
      BY <1>2, <3>1
    <3>4. /\ CopyOut(buf', 0, Capacity) \in Seq(Byte)
          /\ Len(CopyOut(buf', 0, Capacity)) = Capacity
          /\ \A k \in 1 .. Capacity : /\ Pos(0, k) \in Slot
                                      /\ CopyOut(buf', 0, Capacity)[k] = buf'[Pos(0, k)]
      BY <1>4, <3>2, CopyAt
    <3> QED BY <3>3, <3>4, Zenon
  <2>8. ASSUME NEW k \in 1 .. Capacity PROVE Bytes'[k] = Log!LastN(all, Capacity)[k]
    <3>1. Pos(0, k) = k - 1 /\ k - 1 \in Slot
      BY DEF Pos, Slot
    <3>2. Bytes'[k] = p[Len(p) - Capacity + k]
      <4>1. Bytes'[k] = buf'[k - 1]
        BY <2>7, <3>1
      <4>2. buf'[k - 1] = p[Len(p) - Capacity + (k - 1) + 1]
        BY <2>1, <3>1 DEF Overwrite
      <4>3. Len(p) - Capacity + (k - 1) + 1 = Len(p) - Capacity + k
        BY <1>3
      <4> QED BY <4>1, <4>2, <4>3
    <3>3. d + k \in size + 1 .. size + Len(p) /\ (d + k) - size = Len(p) - Capacity + k
      BY <1>3, <1>4, <1>5 DEF d
    <3>4. all[d + k] = p[Len(p) - Capacity + k]
      <4> DEFINE j == d + k
      <4> HIDE DEF j
      <4>0. j \in size + 1 .. size + Len(p) /\ j - size = Len(p) - Capacity + k
        BY <3>3, Zenon DEF j
      <4>1. all[j] = p[j - size]
        BY <2>3, <4>0, Zenon
      <4>2. all[j] = p[Len(p) - Capacity + k]
        BY <4>0, <4>1, Zenon
      <4> QED BY <4>2, Zenon DEF j
    <3>5. Log!LastN(all, Capacity)[k] = all[d + k]
      BY <2>5, <2>6
    <3> QED BY <3>2, <3>4, <3>5
  <2>9. Bytes' = Log!LastN(all, Capacity)
    BY <2>5, <2>6, <2>7, <2>8, SeqEqual
  <2> QED BY <2>9 DEF all
<1>6. CASE ~(Len(p) >= Capacity)
  <2>1. AppendWrapped(p)
    BY <1>6 DEF Write
  <2> DEFINE m == Len(p)
             d == IF size + m > Capacity THEN size + m - Capacity ELSE 0
             e == (start + size) % Capacity
  <2>2. m \in Nat /\ 0 < m /\ m < Capacity
    BY <1>3, <1>6
  <2>3. d \in Nat
    BY <1>4, <2>2
  <2>4. e \in Slot /\ (e = start + size \/ e = start + size - Capacity)
    <3>1. start + size \in Nat /\ start + size < Capacity + Capacity
      BY <1>4 DEF Slot
    <3>2. \/ start + size < Capacity /\ e = start + size
          \/ Capacity <= start + size /\ e = (start + size) - Capacity
      <4> DEFINE x == start + size
      <4> HIDE DEF x
      <4>1. \/ x < Capacity /\ x % Capacity = x
            \/ Capacity <= x /\ x % Capacity = x - Capacity
        BY <3>1, ModCap DEF x
      <4> QED BY <4>1, Zenon DEF x
    <3> HIDE DEF e
    <3> QED BY <1>4, <3>1, <3>2 DEF Slot
  <2>5. size' = size + m - d
    BY <1>4, <2>1, <2>2 DEF AppendWrapped
  <2>6. start' = start + d \/ start' = start + d - Capacity
    <3>1. CASE size + m > Capacity
      <4>1. d = size + m - Capacity /\ start + (size + m) - Capacity = start + d
        BY <1>4, <2>2, <3>1 DEF Slot
      <4>2. start + d \in Nat /\ start + d < Capacity + Capacity
        BY <1>4, <2>2, <4>1 DEF Slot
      <4>3. start' = (start + d) % Capacity
        BY <2>1, <2>2, <3>1, <4>1 DEF AppendWrapped
      <4>4. \/ start + d < Capacity /\ (start + d) % Capacity = start + d
            \/ Capacity <= start + d /\ (start + d) % Capacity = (start + d) - Capacity
        <5> DEFINE x == start + d
        <5> HIDE DEF x
        <5>1. \/ x < Capacity /\ x % Capacity = x
              \/ Capacity <= x /\ x % Capacity = x - Capacity
          BY <4>2, ModCap DEF x
        <5> QED BY <5>1, Zenon DEF x
      <4> HIDE DEF d
      <4> QED BY <1>4, <2>3, <4>3, <4>4 DEF Slot
    <3>2. CASE ~(size + m > Capacity)
      BY <1>4, <2>1, <2>2, <2>3, <3>2 DEF AppendWrapped, Slot
    <3> QED BY <3>1, <3>2
  <2>7. buf' = [i \in Slot |->
                     IF e <= i /\ i - e < m THEN p[i - e + 1]
                     ELSE IF i + (Capacity - e) < m
                          THEN p[i + (Capacity - e) + 1]
                          ELSE buf[i]]
    BY <2>1 DEF AppendWrapped
  <2>8. CopyOut(buf', start', size + m - d) = Log!LastN(CopyOut(buf, start, size) \o p, Capacity)
    <3>1. d = (IF size + m > Capacity THEN size + m - Capacity ELSE 0) /\ m = Len(p)
      OBVIOUS
    <3> HIDE DEF m, d, e
    <3>2. Appended(buf, buf', start, start', size, m, p, e, d)
      BY <1>3, <1>4, <2>2, <2>3, <2>4, <2>6, <2>7, <3>1, Zenon DEF Appended
    <3> QED BY <3>2, AppendCopies
  <2> QED BY <1>1, <1>2, <2>5, <2>8
<1> QED BY <1>5, <1>6

\* The circular array of ringbuf.go implements the bounded log, for every
\* capacity and every interleaving of writes, resets and flushes.
THEOREM RingImplementsLog == Spec => ImplementsLog
<1> USE RingAssumption
<1>1. Init => Log!LogInit
  <2> SUFFICES ASSUME Init PROVE Bytes = <<>>
    BY DEF Log!LogInit, Init, NewRingBuffer
  <2> QED BY DEF Init, NewRingBuffer, Bytes, TailLocked, CopyOut
<1>2. TypeOK /\ TypeOK' /\ [Next]_vars => [Log!LogNext]_<<Bytes, input>>
  <2> SUFFICES ASSUME TypeOK, TypeOK', [Next]_vars
               PROVE  Log!LogNext \/ UNCHANGED <<Bytes, input>>
    OBVIOUS
  <2>1. ASSUME NEW p \in Chunks, Write(p) PROVE Log!LogNext
    BY <2>1, WriteAppends DEF Write, Log!LogNext, Log!LogAppend
  <2>2. CASE Reset
    <3>1. Bytes' = <<>>
      BY <2>2 DEF Reset, Bytes, TailLocked, CopyOut
    <3> QED BY <2>2, <3>1 DEF Reset, Log!LogNext, Log!LogClear
  <2>3. CASE FlushSkip
    BY <2>3 DEF FlushSkip, vars, ring, Bytes, TailLocked
  <2>4. CASE FlushGen
    BY <2>4 DEF FlushGen, ring, Bytes, TailLocked
  <2>5. CASE FlushBytes
    BY <2>5 DEF FlushBytes, ring, Bytes, TailLocked
  <2>6. CASE UNCHANGED vars
    BY <2>6 DEF vars, ring, Bytes, TailLocked
  <2> QED BY <2>1, <2>2, <2>3, <2>4, <2>5, <2>6 DEF Next
<1> QED BY <1>1, <1>2, TypeCorrect, PTL DEF Spec, ImplementsLog, Log!LogSpec
=============================================================================

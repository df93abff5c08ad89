--------------------------- MODULE SessionProofs ----------------------------
(***************************************************************************)
(* The session manager and the handlers that work on it, for any sets of   *)
(* projects, tabs and panes, any number of handlers and any cap.           *)
(***************************************************************************)
EXTENDS Workspace, SequenceTheorems, WellFoundedInduction, FiniteSetTheorems, TLAPS
-----------------------------------------------------------------------------
(* Orders: positions, insertion and removal                                  *)

\* A set of numbers has a least one.
LEMMA Least ==
  ASSUME NEW T, T \subseteq Nat, T # {}
  PROVE  \E m \in T : \A k \in T : m <= k
  <1>1. PICK m \in T : \A k \in T : <<k, m>> \notin OpToRel(<, Nat)
    BY NatLessThanWellFounded, WFMin
  <1>2. \A k \in T : ~(k < m)
    BY <1>1 DEF OpToRel
  <1> QED BY <1>2

\* indexOfString finds an element that is there.
LEMMA IndexIs ==
  ASSUME NEW X, NEW s \in Seq(X), NEW e, Contains(s, e)
  PROVE  IndexOf(s, e) \in 1 .. Len(s) /\ s[IndexOf(s, e)] = e
  <1>1. PICK T : T = {i \in 1 .. Len(s) : s[i] = e}
    OBVIOUS
  <1>2. T \subseteq Nat /\ T # {}
    BY <1>1 DEF Contains
  <1>3. PICK m \in T : \A k \in T : m <= k
    BY <1>2, Least
  <1>4. m \in 1 .. Len(s) /\ s[m] = e /\ \A j \in 1 .. m - 1 : s[j] # e
    <2>1. m \in 1 .. Len(s) /\ s[m] = e /\ Len(s) \in Nat
      BY <1>1, <1>3
    <2>2. ASSUME NEW j \in 1 .. m - 1, s[j] = e PROVE FALSE
      <3>1. j \in T /\ j < m
        BY <1>1, <2>1, <2>2
      <3> QED BY <1>3, <2>1, <3>1
    <2> QED BY <2>1, <2>2
  <1>5. \E i \in 1 .. Len(s) : s[i] = e /\ \A j \in 1 .. i - 1 : s[j] # e
    BY <1>4
  <1> QED BY <1>5 DEF IndexOf

\* What is left when one position goes.
LEMMA RemoveAtIs ==
  ASSUME NEW X, NEW s \in Seq(X), NEW k \in 1 .. Len(s)
  PROVE  /\ RemoveAt(s, k) \in Seq(X) /\ Len(RemoveAt(s, k)) = Len(s) - 1
         /\ \A i \in 1 .. Len(s) - 1 : RemoveAt(s, k)[i] = IF i < k THEN s[i] ELSE s[i + 1]
  <1>1. PICK u, v : u = SubSeq(s, 1, k - 1) /\ v = SubSeq(s, k + 1, Len(s))
    OBVIOUS
  <1>2. u \in Seq(X) /\ Len(u) = k - 1 /\ \A i \in 1 .. k - 1 : u[i] = s[i]
    <2>1. \A i \in 1 .. k - 1 : s[i] \in X
      OBVIOUS
    <2>2. 1 \in Int /\ k - 1 \in Int
      OBVIOUS
    <2> QED BY <1>1, <2>1, <2>2, SubSeqProperties
  <1>3. v \in Seq(X) /\ Len(v) = Len(s) - k /\ \A i \in 1 .. Len(s) - k : v[i] = s[k + i]
    <2>1. \A i \in k + 1 .. Len(s) : s[i] \in X
      OBVIOUS
    <2>2. k + 1 \in Int /\ Len(s) \in Int
      OBVIOUS
    <2> QED BY <1>1, <2>1, <2>2, SubSeqProperties
  <1>4. /\ u \o v \in Seq(X) /\ Len(u \o v) = Len(s) - 1
        /\ \A i \in 1 .. Len(s) - 1 : (u \o v)[i] = IF i < k THEN s[i] ELSE s[i + 1]
    <2>1. /\ u \o v \in Seq(X) /\ Len(u \o v) = Len(u) + Len(v)
          /\ \A i \in 1 .. Len(u) + Len(v) : (u \o v)[i] = IF i <= Len(u) THEN u[i] ELSE v[i - Len(u)]
      BY <1>2, <1>3, ConcatProperties
    <2> QED BY <1>2, <1>3, <2>1
  <1> QED BY <1>1, <1>4 DEF RemoveAt

\* What one more element at a position makes.
LEMMA InsertAtIs ==
  ASSUME NEW X, NEW s \in Seq(X), NEW k \in 1 .. Len(s) + 1, NEW e \in X
  PROVE  /\ InsertAt(s, k, e) \in Seq(X) /\ Len(InsertAt(s, k, e)) = Len(s) + 1
         /\ \A i \in 1 .. Len(s) + 1 :
               InsertAt(s, k, e)[i] = IF i < k THEN s[i] ELSE IF i = k THEN e ELSE s[i - 1]
  <1>1. PICK u, v, w : u = SubSeq(s, 1, k - 1) /\ v = SubSeq(s, k, Len(s)) /\ w = <<e>>
    OBVIOUS
  <1>2. u \in Seq(X) /\ Len(u) = k - 1 /\ \A i \in 1 .. k - 1 : u[i] = s[i]
    <2>1. \A i \in 1 .. k - 1 : s[i] \in X
      OBVIOUS
    <2>2. 1 \in Int /\ k - 1 \in Int
      OBVIOUS
    <2> QED BY <1>1, <2>1, <2>2, SubSeqProperties
  <1>3. v \in Seq(X) /\ Len(v) = Len(s) - k + 1 /\ \A i \in 1 .. Len(s) - k + 1 : v[i] = s[k + i - 1]
    <2>1. \A i \in k .. Len(s) : s[i] \in X
      OBVIOUS
    <2>2. k \in Int /\ Len(s) \in Int
      OBVIOUS
    <2> QED BY <1>1, <2>1, <2>2, SubSeqProperties
  <1>4. w \in Seq(X) /\ Len(w) = 1 /\ w[1] = e
    BY <1>1
  <1>5. /\ u \o w \in Seq(X) /\ Len(u \o w) = k
        /\ \A i \in 1 .. k : (u \o w)[i] = IF i < k THEN s[i] ELSE e
    <2>1. /\ u \o w \in Seq(X) /\ Len(u \o w) = Len(u) + Len(w)
          /\ \A i \in 1 .. Len(u) + Len(w) : (u \o w)[i] = IF i <= Len(u) THEN u[i] ELSE w[i - Len(u)]
      BY <1>2, <1>4, ConcatProperties
    <2> QED BY <1>2, <1>4, <2>1
  <1>6. PICK x : x = u \o w
    OBVIOUS
  <1>10. x \in Seq(X) /\ Len(x) = k /\ \A i \in 1 .. k : x[i] = IF i < k THEN s[i] ELSE e
    BY <1>5, <1>6
  <1>7. /\ x \o v \in Seq(X) /\ Len(x \o v) = Len(x) + Len(v)
        /\ \A i \in 1 .. Len(x) + Len(v) : (x \o v)[i] = IF i <= Len(x) THEN x[i] ELSE v[i - Len(x)]
    BY <1>3, <1>10, ConcatProperties
  <1>8. /\ x \o v \in Seq(X) /\ Len(x \o v) = Len(s) + 1
        /\ \A i \in 1 .. Len(s) + 1 :
              (x \o v)[i] = IF i < k THEN s[i] ELSE IF i = k THEN e ELSE s[i - 1]
    BY <1>3, <1>7, <1>10
  <1>9. InsertAt(s, k, e) = x \o v
    BY <1>1, <1>6 DEF InsertAt
  <1> QED BY <1>8, <1>9

\* removeString of an element that is listed once.
LEMMA RemoveIs ==
  ASSUME NEW X, NEW s \in Seq(X), NEW S, Enumerates(s, S), NEW e \in S
  PROVE  \E k \in 1 .. Len(s) :
            /\ s[k] = e /\ RemoveString(s, e) \in Seq(X) /\ Len(RemoveString(s, e)) = Len(s) - 1
            /\ \A i \in 1 .. Len(s) - 1 : RemoveString(s, e)[i] = IF i < k THEN s[i] ELSE s[i + 1]
  <1>1. Contains(s, e)
    BY DEF Contains, Enumerates, ToSet
  <1>2. IndexOf(s, e) \in 1 .. Len(s) /\ s[IndexOf(s, e)] = e
    BY <1>1, IndexIs
  <1>3. PICK k \in 1 .. Len(s) : k = IndexOf(s, e)
    BY <1>2
  <1>4. RemoveString(s, e) = RemoveAt(s, k)
    BY <1>1, <1>3 DEF RemoveString
  <1>5. /\ RemoveAt(s, k) \in Seq(X) /\ Len(RemoveAt(s, k)) = Len(s) - 1
        /\ \A i \in 1 .. Len(s) - 1 : RemoveAt(s, k)[i] = IF i < k THEN s[i] ELSE s[i + 1]
    BY RemoveAtIs
  <1> QED BY <1>2, <1>3, <1>4, <1>5

\* removeString leaves an order without the element.
LEMMA RemoveType ==
  ASSUME NEW X, NEW s \in Seq(X), NEW e
  PROVE  RemoveString(s, e) \in Seq(X)
  <1>1. CASE ~Contains(s, e)
    BY <1>1 DEF RemoveString
  <1>2. CASE Contains(s, e)
    <2>1. IndexOf(s, e) \in 1 .. Len(s)
      BY <1>2, IndexIs
    <2>2. PICK k \in 1 .. Len(s) : k = IndexOf(s, e)
      BY <2>1
    <2>3. RemoveAt(s, k) \in Seq(X)
      BY RemoveAtIs
    <2> QED BY <1>2, <2>2, <2>3 DEF RemoveString
  <1> QED BY <1>1, <1>2

\* What is not listed leaves the list as it is.
LEMMA RemoveNothing ==
  ASSUME NEW X, NEW s \in Seq(X), NEW S, Enumerates(s, S), NEW e, e \notin S
  PROVE  RemoveString(s, e) = s
  BY DEF RemoveString, Contains, Enumerates, ToSet

\* removeString lists the others once, in the order they had.
LEMMA RemoveSound ==
  ASSUME NEW X, NEW s \in Seq(X), NEW S, Enumerates(s, S), NEW e \in S
  PROVE  /\ RemoveString(s, e) \in Seq(X) /\ Len(RemoveString(s, e)) = Len(s) - 1
         /\ Enumerates(RemoveString(s, e), S \ {e})
         /\ \A a, b : Before(RemoveString(s, e), a, b) <=> (Before(s, a, b) /\ a # e /\ b # e)
  <1>10. PICK r : r = RemoveString(s, e)
    OBVIOUS
  <1>1. PICK k \in 1 .. Len(s) :
           /\ s[k] = e /\ r \in Seq(X) /\ Len(r) = Len(s) - 1
           /\ \A i \in 1 .. Len(s) - 1 : r[i] = IF i < k THEN s[i] ELSE s[i + 1]
    BY <1>10, RemoveIs
  <1>2. /\ Len(s) \in Nat /\ S = {s[i] : i \in 1 .. Len(s)}
        /\ \A i, j \in 1 .. Len(s) : s[i] = s[j] => i = j
    BY DEF Enumerates, ToSet
  <1>3. \A i, j \in 1 .. Len(r) : r[i] = r[j] => i = j
    BY <1>1, <1>2
  <1>4. \A i \in 1 .. Len(r) : r[i] \in S /\ r[i] # e
    BY <1>1, <1>2
  <1>5. ASSUME NEW i \in 1 .. Len(s), i # k, NEW j, j = IF i < k THEN i ELSE i - 1
        PROVE  j \in 1 .. Len(r) /\ r[j] = s[i]
    <2>1. CASE i < k
      BY <1>1, <1>5, <2>1
    <2>2. CASE i > k
      BY <1>1, <1>5, <2>2
    <2> QED BY <1>2, <1>5, <2>1, <2>2
  <1>6. ToSet(r) = S \ {e}
    <2>1. ASSUME NEW x \in S \ {e} PROVE \E j \in 1 .. Len(r) : r[j] = x
      <3>1. PICK i \in 1 .. Len(s) : s[i] = x
        BY <1>2
      <3>2. i # k
        BY <1>1, <3>1
      <3> QED BY <1>5, <3>1, <3>2
    <2>2. DOMAIN r = 1 .. Len(r)
      BY <1>1
    <2> QED BY <1>4, <2>1, <2>2 DEF ToSet
  <1>7. ASSUME NEW a, NEW b, Before(r, a, b) PROVE Before(s, a, b) /\ a # e /\ b # e
    <2>1. PICK i, j \in 1 .. Len(r) : i < j /\ r[i] = a /\ r[j] = b
      BY <1>7 DEF Before
    <2>2. PICK m, n : m = (IF i < k THEN i ELSE i + 1) /\ n = (IF j < k THEN j ELSE j + 1)
      OBVIOUS
    <2>3. m \in 1 .. Len(s) /\ n \in 1 .. Len(s) /\ m < n /\ s[m] = a /\ s[n] = b
      BY <1>1, <1>2, <2>1, <2>2
    <2>4. a # e /\ b # e
      BY <1>4, <2>1
    <2> QED BY <2>3, <2>4 DEF Before
  <1>8. ASSUME NEW a, NEW b, Before(s, a, b), a # e, b # e PROVE Before(r, a, b)
    <2>1. PICK i, j \in 1 .. Len(s) : i < j /\ s[i] = a /\ s[j] = b
      BY <1>8 DEF Before
    <2>2. i # k /\ j # k
      BY <1>1, <1>8, <2>1
    <2>3. PICK m, n : m = (IF i < k THEN i ELSE i - 1) /\ n = (IF j < k THEN j ELSE j - 1)
      OBVIOUS
    <2>4. m \in 1 .. Len(r) /\ n \in 1 .. Len(r) /\ r[m] = a /\ r[n] = b
      BY <1>5, <2>1, <2>2, <2>3
    <2>5. m < n
      BY <1>1, <2>1, <2>2, <2>3
    <2> QED BY <2>4, <2>5 DEF Before
  <1>9. Enumerates(r, S \ {e})
    BY <1>3, <1>6 DEF Enumerates
  <1> QED BY <1>1, <1>7, <1>8, <1>9, <1>10

\* s keeps the order of ids for the elements of P; s and u agree on D; e stands
\* in w where place k of s was.
Follows(s, ids, P) == \A a, b \in P : Before(ids, a, b) => Before(s, a, b)
SameOrder(s, u, D) == \A a, b \in D : Before(s, a, b) <=> Before(u, a, b)
Placed(w, s, k, e) ==
    \A i \in 1 .. Len(s) : IF i < k THEN Before(w, s[i], e) ELSE Before(w, e, s[i])

\* One more element: it stands behind the elements before its place and before
\* the others, which keep their order.
LEMMA InsertSound ==
  ASSUME NEW X, NEW s \in Seq(X), NEW S, Enumerates(s, S), NEW e \in X, e \notin S,
         NEW k \in 1 .. Len(s) + 1, NEW w, w = InsertAt(s, k, e)
  PROVE  w \in Seq(X) /\ Enumerates(w, S \cup {e}) /\ SameOrder(w, s, S) /\ Placed(w, s, k, e)
  <1>1. w = InsertAt(s, k, e)
    OBVIOUS
  <1>2. /\ w \in Seq(X) /\ Len(w) = Len(s) + 1
        /\ \A i \in 1 .. Len(s) + 1 : w[i] = IF i < k THEN s[i] ELSE IF i = k THEN e ELSE s[i - 1]
    BY <1>1, InsertAtIs, SMTT(20)
  <1>3. /\ Len(s) \in Nat /\ S = {s[i] : i \in 1 .. Len(s)}
        /\ \A i, j \in 1 .. Len(s) : s[i] = s[j] => i = j
    BY DEF Enumerates, ToSet
  <1>4. \A i \in 1 .. Len(s) : s[i] # e
    BY <1>3
  <1>5. ASSUME NEW i \in 1 .. Len(w), NEW j \in 1 .. Len(w), w[i] = w[j] PROVE i = j
    <2>1. CASE i = k \/ j = k
      BY <1>2, <1>4, <1>5, <2>1, SMTT(20)
    <2>2. CASE i # k /\ j # k
      <3>1. PICK m, n : m = (IF i < k THEN i ELSE i - 1) /\ n = (IF j < k THEN j ELSE j - 1)
        OBVIOUS
      <3>2. m \in 1 .. Len(s) /\ n \in 1 .. Len(s) /\ w[i] = s[m] /\ w[j] = s[n]
        BY <1>2, <1>3, <2>2, <3>1
      <3>3. m = n
        BY <1>3, <1>5, <3>2
      <3> QED BY <1>2, <2>2, <3>1, <3>3
    <2> QED BY <2>1, <2>2
  <1>6. ASSUME NEW i \in 1 .. Len(s)
        PROVE  \E j \in 1 .. Len(w) : w[j] = s[i] /\ j = IF i < k THEN i ELSE i + 1
    BY <1>2, <1>3
  <1>7. k \in 1 .. Len(w) /\ w[k] = e
    BY <1>2, <1>3
  <1>8. ToSet(w) = S \cup {e}
    <2>1. \A x \in S \cup {e} : \E j \in 1 .. Len(w) : w[j] = x
      BY <1>3, <1>6, <1>7
    <2>2. \A j \in 1 .. Len(w) : w[j] \in S \cup {e}
      BY <1>2, <1>3
    <2>3. DOMAIN w = 1 .. Len(w)
      BY <1>2
    <2> QED BY <2>1, <2>2, <2>3 DEF ToSet
  <1>9. ASSUME NEW a \in S, NEW b \in S, Before(w, a, b) PROVE Before(s, a, b)
    <2>1. PICK i, j \in 1 .. Len(w) : i < j /\ w[i] = a /\ w[j] = b
      BY <1>9 DEF Before
    <2>2. a # e /\ b # e
      OBVIOUS
    <2>3. i # k /\ j # k
      BY <1>7, <2>1, <2>2
    <2>4. PICK m, n : m = (IF i < k THEN i ELSE i - 1) /\ n = (IF j < k THEN j ELSE j - 1)
      OBVIOUS
    <2>5. m \in 1 .. Len(s) /\ n \in 1 .. Len(s) /\ m < n /\ s[m] = a /\ s[n] = b
      BY <1>2, <1>3, <2>1, <2>3, <2>4
    <2> QED BY <2>5 DEF Before
  <1>10. ASSUME NEW a \in S, NEW b \in S, Before(s, a, b) PROVE Before(w, a, b)
    <2>1. PICK i, j \in 1 .. Len(s) : i < j /\ s[i] = a /\ s[j] = b
      BY <1>10 DEF Before
    <2>2. PICK m, n : m = (IF i < k THEN i ELSE i + 1) /\ n = (IF j < k THEN j ELSE j + 1)
      OBVIOUS
    <2>3. m \in 1 .. Len(w) /\ n \in 1 .. Len(w) /\ w[m] = a /\ w[n] = b
      BY <1>6, <2>1, <2>2
    <2>4. m < n
      BY <2>1, <2>2
    <2> QED BY <2>3, <2>4 DEF Before
  <1>11. ASSUME NEW i \in 1 .. Len(s)
         PROVE  IF i < k THEN Before(w, s[i], e) ELSE Before(w, e, s[i])
    <2>1. CASE i < k
      BY <1>6, <1>7, <2>1 DEF Before
    <2>2. CASE ~(i < k)
      <3>1. i + 1 \in 1 .. Len(w) /\ w[i + 1] = s[i] /\ k < i + 1
        BY <1>6, <2>2
      <3> QED BY <1>7, <2>2, <3>1 DEF Before
    <2> QED BY <2>1, <2>2
  <1>12. Enumerates(w, S \cup {e})
    BY <1>5, <1>8 DEF Enumerates
  <1>13. SameOrder(w, s, S)
    BY <1>9, <1>10 DEF SameOrder
  <1>14. Placed(w, s, k, e)
    BY <1>11 DEF Placed
  <1> QED BY <1>2, <1>12, <1>13, <1>14

\* One more element at the end.
LEMMA AppendSound ==
  ASSUME NEW X, NEW s \in Seq(X), NEW S, Enumerates(s, S), NEW e \in X, e \notin S,
         NEW w, w = Append(s, e)
  PROVE  w \in Seq(X) /\ Enumerates(w, S \cup {e}) /\ SameOrder(w, s, S)
  <1>1. w = Append(s, e)
    OBVIOUS
  <1>2. /\ w \in Seq(X) /\ Len(w) = Len(s) + 1 /\ Len(s) \in Nat /\ DOMAIN w = 1 .. Len(w)
        /\ \A i \in 1 .. Len(w) : w[i] = IF i <= Len(s) THEN s[i] ELSE e
    BY <1>1
  <1>3. S = {s[i] : i \in 1 .. Len(s)} /\ \A i, j \in 1 .. Len(s) : s[i] = s[j] => i = j
    BY DEF Enumerates, ToSet
  <1>4. \A i, j \in 1 .. Len(w) : w[i] = w[j] => i = j
    BY <1>2, <1>3
  <1>5. ToSet(w) = S \cup {e}
    <2>1. \A x \in S \cup {e} : \E j \in 1 .. Len(w) : w[j] = x
      <3>1. Len(w) \in 1 .. Len(w) /\ w[Len(w)] = e
        BY <1>2
      <3>2. ASSUME NEW x \in S PROVE \E j \in 1 .. Len(w) : w[j] = x
        <4>1. PICK i \in 1 .. Len(s) : s[i] = x
          BY <1>3
        <4>2. i \in 1 .. Len(w) /\ w[i] = x
          BY <1>2, <4>1
        <4> QED BY <4>2
      <3> QED BY <3>1, <3>2
    <2>2. \A j \in 1 .. Len(w) : w[j] \in S \cup {e}
      BY <1>2, <1>3
    <2> QED BY <1>2, <2>1, <2>2 DEF ToSet
  <1>6. ASSUME NEW a \in S, NEW b \in S PROVE Before(w, a, b) <=> Before(s, a, b)
    <2>1. \A i \in 1 .. Len(w) : w[i] \in S => i \in 1 .. Len(s) /\ w[i] = s[i]
      BY <1>2
    <2>2. \A i \in 1 .. Len(s) : i \in 1 .. Len(w) /\ w[i] = s[i]
      BY <1>2
    <2>3. ASSUME Before(w, a, b) PROVE Before(s, a, b)
      <3>1. PICK i, j \in 1 .. Len(w) : i < j /\ w[i] = a /\ w[j] = b
        BY <2>3 DEF Before
      <3> QED BY <2>1, <3>1 DEF Before
    <2>4. ASSUME Before(s, a, b) PROVE Before(w, a, b)
      <3>1. PICK i, j \in 1 .. Len(s) : i < j /\ s[i] = a /\ s[j] = b
        BY <2>4 DEF Before
      <3> QED BY <2>2, <3>1 DEF Before
    <2> QED BY <2>3, <2>4
  <1>7. Enumerates(w, S \cup {e})
    BY <1>4, <1>5 DEF Enumerates
  <1>8. SameOrder(w, s, S)
    BY <1>6 DEF SameOrder
  <1> QED BY <1>2, <1>7, <1>8

\* slideString lists the same elements; the others keep their order.
LEMMA SlideSound ==
  ASSUME NEW X, NEW s \in Seq(X), NEW S, Enumerates(s, S), NEW e \in S, NEW idx \in Int,
         NEW w, w = SlideString(s, e, idx)
  PROVE  w \in Seq(X) /\ Enumerates(w, S) /\ Follows(s, w, S \ {e})
  <1>1. PICK r : r = RemoveString(s, e)
    OBVIOUS
  <1>2. /\ r \in Seq(X) /\ Len(r) = Len(s) - 1 /\ Enumerates(r, S \ {e})
        /\ \A a, b : Before(r, a, b) <=> (Before(s, a, b) /\ a # e /\ b # e)
    BY <1>1, RemoveSound
  <1>3. PICK k : k = IF idx < 1 THEN 1 ELSE IF idx > Len(s) THEN Len(s) ELSE idx
    OBVIOUS
  <1>4. Len(s) \in Nat /\ Len(s) >= 1 /\ e \in X
    BY DEF Enumerates, ToSet
  <1>5. k \in 1 .. Len(r) + 1
    BY <1>2, <1>3, <1>4
  <1>6. w = InsertAt(r, k, e)
    BY <1>1, <1>3 DEF SlideString
  <1>7. PICK R : R = S \ {e}
    OBVIOUS
  <1>8. e \notin R /\ Enumerates(r, R) /\ R \cup {e} = S
    BY <1>2, <1>7
  <1>9. w \in Seq(X) /\ Enumerates(w, R \cup {e}) /\ SameOrder(w, r, R)
    BY <1>2, <1>4, <1>5, <1>6, <1>8, InsertSound
  <1>10. Follows(s, w, S \ {e})
    BY <1>2, <1>7, <1>9 DEF Follows, SameOrder
  <1> QED BY <1>8, <1>9, <1>10

\* Positions follow the order.
LEMMA PlacesFollow ==
  ASSUME NEW X, NEW s \in Seq(X), NEW S, Enumerates(s, S), NEW i \in 1 .. Len(s), NEW j \in 1 .. Len(s),
         Before(s, s[i], s[j])
  PROVE  i < j
  BY DEF Before, Enumerates

\* A place in a list: behind its head, at the head of a longer one, or alone.
LEMMA ThreePlaces ==
  \A x, y \in Nat : x >= 1 /\ x <= y => x > 1 \/ (x = 1 /\ x < y) \/ (x = 1 /\ y = 1)
  OBVIOUS

\* reanchorTab: the order lists the same tabs, those but t as they stood, and
\* it agrees with the project's list, of which only t had moved.
LEMMA ReanchorSound ==
  ASSUME NEW X, NEW order \in Seq(X), NEW S, Enumerates(order, S),
         NEW ids \in Seq(X), NEW P, Enumerates(ids, P), P \subseteq S, NEW t \in P,
         Follows(order, ids, P \ {t}), NEW w, w = ReanchorTab(order, ids, t)
  PROVE  w \in Seq(X) /\ Enumerates(w, S) /\ Follows(w, ids, P) /\ SameOrder(w, order, S \ {t})
  <1>1. PICK rest, R : rest = RemoveString(order, t) /\ R = S \ {t}
    OBVIOUS
  <1>2. /\ rest \in Seq(X) /\ Enumerates(rest, R) /\ Len(rest) \in Nat
        /\ \A a, b : Before(rest, a, b) <=> (Before(order, a, b) /\ a # t /\ b # t)
    BY <1>1, RemoveSound
  <1>3. t \in X /\ t \notin R /\ R \cup {t} = S /\ P \ {t} \subseteq R
    BY <1>1 DEF Enumerates, ToSet
  <1>4. /\ P = {ids[i] : i \in 1 .. Len(ids)} /\ Len(ids) \in Nat
        /\ \A i, j \in 1 .. Len(ids) : ids[i] = ids[j] => i = j
    BY DEF Enumerates, ToSet
  <1>5. \A x : Contains(rest, x) <=> x \in R
    BY <1>2 DEF Contains, Enumerates, ToSet
  <1>6. PICK at \in 1 .. Len(ids) : at = IndexOf(ids, t) /\ ids[at] = t
    <2>1. Contains(ids, t)
      BY <1>4 DEF Contains
    <2> QED BY <2>1, IndexIs
  <1>7. \A a, b \in P \ {t} : Before(ids, a, b) => Before(rest, a, b)
    BY <1>2 DEF Follows
  <1>8. w = ReanchorTab(order, ids, t)
    OBVIOUS
  <1>9. /\ w \in Seq(X) /\ Enumerates(w, R \cup {t})
        /\ \A a, b \in R : Before(w, a, b) <=> Before(rest, a, b)
        /\ \A a \in P \ {t} : Before(ids, a, t) => Before(w, a, t)
        /\ \A b \in P \ {t} : Before(ids, t, b) => Before(w, t, b)
    <2>1. CASE at > 1
      <3>1. PICK q : q = ids[at - 1]
        OBVIOUS
      <3>2. q \in P \ {t} /\ q \in R /\ Contains(rest, q)
        BY <1>3, <1>4, <1>5, <1>6, <2>1, <3>1
      <3>3. PICK k \in 1 .. Len(rest) : k = IndexOf(rest, q) /\ rest[k] = q
        BY <1>2, <3>2, IndexIs
      <3>8. PICK l : l = k + 1
        OBVIOUS
      <3>4. w = InsertAt(rest, l, t) /\ l \in 1 .. Len(rest) + 1
        BY <1>1, <1>2, <1>6, <1>8, <2>1, <3>1, <3>2, <3>3, <3>8 DEF ReanchorTab
      <3>9. w \in Seq(X) /\ Enumerates(w, R \cup {t}) /\ SameOrder(w, rest, R) /\ Placed(w, rest, l, t)
        BY <1>2, <1>3, <3>4, InsertSound
      <3>5. /\ w \in Seq(X) /\ Enumerates(w, R \cup {t})
            /\ \A a, b \in R : Before(w, a, b) <=> Before(rest, a, b)
            /\ \A i \in 1 .. Len(rest) : IF i < k + 1 THEN Before(w, rest[i], t) ELSE Before(w, t, rest[i])
        BY <3>8, <3>9 DEF SameOrder, Placed
      <3>6. ASSUME NEW a \in P \ {t}, Before(ids, a, t) PROVE Before(w, a, t)
        <4>1. PICK i \in 1 .. Len(ids) : i < at /\ ids[i] = a
          BY <1>4, <1>6, <3>6 DEF Before
        <4>2. a = q \/ Before(ids, a, q)
          <5>1. CASE i = at - 1
            BY <3>1, <4>1, <5>1
          <5>2. CASE i < at - 1
            <6>1. at - 1 \in 1 .. Len(ids)
              BY <1>4, <1>6, <2>1
            <6> QED BY <3>1, <4>1, <5>2, <6>1 DEF Before
          <5> QED BY <1>4, <4>1, <5>1, <5>2
        <4>3. PICK m \in 1 .. Len(rest) : rest[m] = a
          BY <1>2, <1>3 DEF Enumerates, ToSet
        <4>4. m <= k
          <5>1. CASE a = q
            BY <1>2, <3>3, <4>3, <5>1 DEF Enumerates
          <5>2. CASE Before(ids, a, q)
            <6>1. Before(rest, rest[m], rest[k])
              BY <1>7, <3>2, <3>3, <4>3, <5>2
            <6> QED BY <1>2, <6>1, PlacesFollow
          <5> QED BY <4>2, <5>1, <5>2
        <4> QED BY <3>5, <4>3, <4>4
      <3>7. ASSUME NEW b \in P \ {t}, Before(ids, t, b) PROVE Before(w, t, b)
        <4>1. PICK j \in 1 .. Len(ids) : at < j /\ ids[j] = b
          BY <1>4, <1>6, <3>7 DEF Before
        <4>2. at - 1 \in 1 .. Len(ids) /\ at - 1 < j
          BY <1>4, <2>1, <4>1
        <4>3. Before(ids, q, b)
          BY <3>1, <4>1, <4>2 DEF Before
        <4>4. PICK m \in 1 .. Len(rest) : rest[m] = b
          BY <1>2, <1>3 DEF Enumerates, ToSet
        <4>5. Before(rest, rest[k], rest[m])
          BY <1>7, <3>2, <3>3, <4>3, <4>4
        <4>6. k < m
          BY <1>2, <4>5, PlacesFollow
        <4> QED BY <3>5, <4>4, <4>6
      <3> QED BY <3>5, <3>6, <3>7
    <2>2. CASE at = 1 /\ at < Len(ids)
      <3>1. PICK q : q = ids[at + 1]
        OBVIOUS
      <3>2. q \in P \ {t} /\ q \in R /\ Contains(rest, q)
        BY <1>3, <1>4, <1>5, <1>6, <2>2, <3>1
      <3>3. PICK k \in 1 .. Len(rest) : k = IndexOf(rest, q) /\ rest[k] = q
        BY <1>2, <3>2, IndexIs
      <3>4. w = InsertAt(rest, k, t) /\ k \in 1 .. Len(rest) + 1
        BY <1>1, <1>2, <1>6, <1>8, <2>2, <3>1, <3>2, <3>3 DEF ReanchorTab
      <3>5. /\ w \in Seq(X) /\ Enumerates(w, R \cup {t})
            /\ \A a, b \in R : Before(w, a, b) <=> Before(rest, a, b)
            /\ \A i \in 1 .. Len(rest) : IF i < k THEN Before(w, rest[i], t) ELSE Before(w, t, rest[i])
        <4>1. Enumerates(w, R \cup {t}) /\ w \in Seq(X) /\ SameOrder(w, rest, R) /\ Placed(w, rest, k, t)
          BY <1>2, <1>3, <3>4, InsertSound
        <4> QED BY <4>1 DEF SameOrder, Placed
      <3>6. ASSUME NEW a \in P \ {t}, Before(ids, a, t) PROVE FALSE
        BY <1>4, <1>6, <2>2, <3>6 DEF Before
      <3>7. ASSUME NEW b \in P \ {t}, Before(ids, t, b) PROVE Before(w, t, b)
        <4>1. PICK j \in 1 .. Len(ids) : at < j /\ ids[j] = b
          BY <1>4, <1>6, <3>7 DEF Before
        <4>2. b = q \/ Before(ids, q, b)
          <5>1. CASE j = at + 1
            BY <3>1, <4>1, <5>1
          <5>2. CASE j > at + 1
            BY <1>4, <2>2, <3>1, <4>1, <5>2 DEF Before
          <5> QED BY <1>4, <4>1, <5>1, <5>2
        <4>3. PICK m \in 1 .. Len(rest) : rest[m] = b
          BY <1>2, <1>3 DEF Enumerates, ToSet
        <4>4. k <= m
          <5>1. CASE b = q
            BY <1>2, <3>3, <4>3, <5>1 DEF Enumerates
          <5>2. CASE Before(ids, q, b)
            <6>1. Before(rest, rest[k], rest[m])
              BY <1>7, <3>2, <3>3, <4>3, <5>2
            <6> QED BY <1>2, <6>1, PlacesFollow
          <5> QED BY <4>2, <5>1, <5>2
        <4>5. ~(m < k)
          BY <1>2, <4>4
        <4> QED BY <3>5, <4>3, <4>5
      <3> QED BY <3>5, <3>6, <3>7
    <2>3. CASE at = 1 /\ Len(ids) = 1
      <3>1. w = Append(rest, t)
        BY <1>1, <1>6, <1>8, <2>3 DEF ReanchorTab
      <3>2. \A a, b : ~Before(ids, a, b)
        BY <2>3 DEF Before
      <3>3. /\ w \in Seq(X) /\ Enumerates(w, R \cup {t})
            /\ \A a, b \in R : Before(w, a, b) <=> Before(rest, a, b)
        <4>1. w \in Seq(X) /\ Enumerates(w, R \cup {t}) /\ SameOrder(w, rest, R)
          BY <1>2, <1>3, <3>1, AppendSound
        <4> QED BY <4>1 DEF SameOrder
      <3> QED BY <3>2, <3>3
    <2>4. at > 1 \/ (at = 1 /\ at < Len(ids)) \/ (at = 1 /\ Len(ids) = 1)
      <3>1. Len(ids) \in Nat /\ at \in Nat /\ at >= 1 /\ at <= Len(ids)
        BY <1>4, <1>6
      <3> QED BY <3>1, ThreePlaces
    <2> QED BY <2>1, <2>2, <2>3, <2>4
  <1>10. ~Before(ids, t, t)
    BY <1>4 DEF Before
  <1>11. Follows(w, ids, P)
    BY <1>3, <1>7, <1>9, <1>10 DEF Follows
  <1>12. SameOrder(w, order, S \ {t})
    BY <1>1, <1>2, <1>9 DEF SameOrder
  <1> QED BY <1>3, <1>9, <1>11, <1>12

\* reanchorTab returns an order, whatever it is given.
LEMMA ReanchorType ==
  ASSUME NEW X, NEW order \in Seq(X), NEW ids \in Seq(X), NEW t \in X, Contains(ids, t)
  PROVE  ReanchorTab(order, ids, t) \in Seq(X)
  <1>1. PICK rest : rest = RemoveString(order, t)
    OBVIOUS
  <1>2. rest \in Seq(X) /\ Len(rest) \in Nat
    BY <1>1, RemoveType
  <1>3. PICK at : at = IndexOf(ids, t)
    OBVIOUS
  <1>4. ASSUME NEW q, Contains(rest, q)
        PROVE  /\ InsertAt(rest, IndexOf(rest, q) + 1, t) \in Seq(X)
               /\ InsertAt(rest, IndexOf(rest, q), t) \in Seq(X)
    <2>1. IndexOf(rest, q) \in 1 .. Len(rest)
      BY <1>2, <1>4, IndexIs
    <2>2. PICK k, m : k = IndexOf(rest, q) /\ m = k + 1
      OBVIOUS
    <2>3. k \in 1 .. Len(rest) + 1 /\ m \in 1 .. Len(rest) + 1
      BY <1>2, <2>1, <2>2
    <2>4. InsertAt(rest, k, t) \in Seq(X) /\ InsertAt(rest, m, t) \in Seq(X)
      BY <1>2, <2>3, InsertAtIs
    <2> QED BY <2>2, <2>4
  <1>5. Append(rest, t) \in Seq(X)
    BY <1>2
  <1> QED BY <1>1, <1>4, <1>5 DEF ReanchorTab

-----------------------------------------------------------------------------
(* Loops over a list, as recursive functions                                 *)

-----------------------------------------------------------------------------
(* The loops over orders. *)

\* What holds at 0 and is passed on holds up to n.
LEMMA UpTo ==
  ASSUME NEW n \in Nat, NEW G, 0 \in G, \A i \in 1 .. n : i - 1 \in G => i \in G
  PROVE  \A i \in 0 .. n : i \in G
  <1> SUFFICES ASSUME NEW z \in 0 .. n, z \notin G PROVE FALSE
    OBVIOUS
  <1>1. PICK B : B = {i \in 0 .. n : i \notin G}
    OBVIOUS
  <1>2. PICK m \in B : \A k \in B : m <= k
    <2>1. B \subseteq Nat /\ B # {}
      BY <1>1
    <2> QED BY <2>1, Least
  <1>3. m \in 1 .. n /\ m \notin G
    BY <1>1, <1>2
  <1>4. m - 1 \in 0 .. n /\ m - 1 \notin B
    BY <1>1, <1>2, <1>3
  <1> QED BY <1>1, <1>3, <1>4

\* A loop of n turns over V: F[i] is what turn i does, f the values between.
Turns(F, n, V) == \A i \in 1 .. n, x \in V : F[i][x] \in V
Run(f, F, n, v, V) == f \in [0 .. n -> V] /\ f[0] = v /\ \A i \in 1 .. n : f[i] = F[i][f[i - 1]]

\* It runs to its end.
LEMMA Iteration ==
  ASSUME NEW V, NEW v \in V, NEW n \in Nat, NEW F, Turns(F, n, V)
  PROVE  \E f : Run(f, F, n, v, V)
  <1>1. PICK G : G = {m \in 0 .. n : \E f \in [0 .. m -> V] :
                         f[0] = v /\ \A i \in 1 .. m : f[i] = F[i][f[i - 1]]}
    OBVIOUS
  <1>2. 0 \in G
    <2>1. PICK f : f = [i \in 0 .. 0 |-> v]
      OBVIOUS
    <2>2. f \in [0 .. 0 -> V] /\ f[0] = v /\ \A i \in 1 .. 0 : f[i] = F[i][f[i - 1]]
      BY <2>1
    <2>3. 0 \in 0 .. n
      OBVIOUS
    <2> QED BY <1>1, <2>2, <2>3
  <1>3. ASSUME NEW m \in 1 .. n, m - 1 \in G PROVE m \in G
    <2>1. PICK f \in [0 .. m - 1 -> V] : f[0] = v /\ \A i \in 1 .. m - 1 : f[i] = F[i][f[i - 1]]
      BY <1>1, <1>3
    <2>2. F[m][f[m - 1]] \in V
      BY <2>1 DEF Turns
    <2>3. PICK h : h = [i \in 0 .. m |-> IF i = m THEN F[m][f[m - 1]] ELSE f[i]]
      OBVIOUS
    <2>4. h \in [0 .. m -> V] /\ h[0] = v
      BY <2>1, <2>2, <2>3
    <2>5. ASSUME NEW i \in 1 .. m PROVE h[i] = F[i][h[i - 1]]
      <3>1. h[i - 1] = f[i - 1]
        BY <2>3
      <3>2. CASE i = m
        BY <2>3, <3>1, <3>2
      <3>3. CASE i # m
        <4>1. i \in 1 .. m - 1 /\ h[i] = f[i]
          BY <2>3, <3>3
        <4> QED BY <2>1, <3>1, <4>1
      <3> QED BY <3>2, <3>3
    <2>6. m \in 0 .. n
      OBVIOUS
    <2> QED BY <1>1, <2>4, <2>5, <2>6
  <1>4. n \in G
    <2>1. \A m \in 1 .. n : m - 1 \in G => m \in G
      BY <1>3
    <2>2. \A m \in 0 .. n : m \in G
      BY <1>2, <2>1, UpTo
    <2> QED BY <2>2
  <1>5. PICK f \in [0 .. n -> V] : f[0] = v /\ \A i \in 1 .. n : f[i] = F[i][f[i - 1]]
    BY <1>1, <1>4
  <1> QED BY <1>5 DEF Run

\* The loop of removeString.
LEMMA RemoveEachIs ==
  ASSUME NEW X, NEW s \in Seq(X), NEW gone, Len(gone) \in Nat, NEW S
  PROVE  \E left : /\ RemoveEach(s, gone, S) = left[Len(gone)]
                   /\ left = [i \in 0 .. Len(gone) |->
                                IF i = 0 THEN s
                                ELSE IF gone[i] \in S THEN RemoveString(left[i - 1], gone[i]) ELSE left[i - 1]]
  <1>1. PICK F : F = [i \in 1 .. Len(gone) |->
                       [x \in Seq(X) |-> IF gone[i] \in S THEN RemoveString(x, gone[i]) ELSE x]]
    OBVIOUS
  <1>2. \A x \in Seq(X) : \A e : RemoveString(x, e) \in Seq(X)
    BY RemoveType
  <1>3. F \in [1 .. Len(gone) -> [Seq(X) -> Seq(X)]]
    BY <1>1, <1>2
  <1>8. PICK f : Run(f, F, Len(gone), s, Seq(X))
    <2>1. Turns(F, Len(gone), Seq(X))
      BY <1>3 DEF Turns
    <2> QED BY <2>1, Iteration
  <1>4. /\ f \in [0 .. Len(gone) -> Seq(X)] /\ f[0] = s
        /\ \A i \in 1 .. Len(gone) : f[i] = F[i][f[i - 1]]
    BY <1>8 DEF Run
  <1>5. \A i \in 1 .. Len(gone) :
           f[i] = IF gone[i] \in S THEN RemoveString(f[i - 1], gone[i]) ELSE f[i - 1]
    <2> SUFFICES ASSUME NEW i \in 1 .. Len(gone)
                 PROVE  F[i][f[i - 1]] = IF gone[i] \in S THEN RemoveString(f[i - 1], gone[i]) ELSE f[i - 1]
      BY <1>4
    <2>1. f[i - 1] \in Seq(X)
      BY <1>4
    <2> QED BY <1>1, <2>1
  <1>6. f = [i \in 0 .. Len(gone) |->
                IF i = 0 THEN s
                ELSE IF gone[i] \in S THEN RemoveString(f[i - 1], gone[i]) ELSE f[i - 1]]
    <2>1. \A i \in 0 .. Len(gone) : f[i] = IF i = 0 THEN s
                ELSE IF gone[i] \in S THEN RemoveString(f[i - 1], gone[i]) ELSE f[i - 1]
      BY <1>4, <1>5
    <2>2. f = [i \in 0 .. Len(gone) |-> f[i]]
      BY <1>4
    <2> QED BY <2>1, <2>2
  <1>7. \E left : left = [i \in 0 .. Len(gone) |->
                            IF i = 0 THEN s
                            ELSE IF gone[i] \in S THEN RemoveString(left[i - 1], gone[i]) ELSE left[i - 1]]
    BY <1>6
  <1> QED BY <1>7 DEF RemoveEach

\* What the loop takes out.
Taken(gone, S) == {gone[j] : j \in {i \in 1 .. Len(gone) : gone[i] \in S}}

\* ... leaves the others, once and as they stood.
LEMMA RemoveEachSound ==
  ASSUME NEW X, NEW s \in Seq(X), NEW T, Enumerates(s, T), NEW gone, Len(gone) \in Nat, NEW S,
         NEW w, w = RemoveEach(s, gone, S),
         NEW D, D = T \ Taken(gone, S)
  PROVE  w \in Seq(X) /\ Enumerates(w, D) /\ SameOrder(w, s, D)
  <1>1. PICK n, Gone : n = Len(gone) /\ Gone = [m \in 0 .. n |-> {gone[j] : j \in {i \in 1 .. m : gone[i] \in S}}]
    OBVIOUS
  <1>8. PICK f : /\ RemoveEach(s, gone, S) = f[Len(gone)]
                 /\ f = [i \in 0 .. Len(gone) |->
                           IF i = 0 THEN s
                           ELSE IF gone[i] \in S THEN RemoveString(f[i - 1], gone[i]) ELSE f[i - 1]]
    BY RemoveEachIs
  <1>2. /\ RemoveEach(s, gone, S) = f[n] /\ f[0] = s
        /\ \A i \in 1 .. n : f[i] = IF gone[i] \in S THEN RemoveString(f[i - 1], gone[i]) ELSE f[i - 1]
    BY <1>1, <1>8
  <1>3. PICK G : G = {m \in 0 .. n : /\ f[m] \in Seq(X) /\ Enumerates(f[m], T \ Gone[m])
                                     /\ \A a, b \in T \ Gone[m] : Before(f[m], a, b) <=> Before(s, a, b)}
    OBVIOUS
  <1>4. 0 \in G
    <2>1. 0 \in 0 .. n /\ Gone[0] = {} /\ f[0] = s
      BY <1>1, <1>2
    <2> QED BY <1>3, <2>1
  <1>5. ASSUME NEW m \in 1 .. n, m - 1 \in G PROVE m \in G
    <2>1. PICK r, A : r = f[m - 1] /\ A = T \ Gone[m - 1]
      OBVIOUS
    <2>2. r \in Seq(X) /\ Enumerates(r, A) /\ \A a, b \in A : Before(r, a, b) <=> Before(s, a, b)
      BY <1>3, <1>5, <2>1
    <2>3. m \in 0 .. n /\ m - 1 \in 0 .. n /\ n \in Nat
      BY <1>1
    <2>4. f[m] = IF gone[m] \in S THEN RemoveString(r, gone[m]) ELSE r
      BY <1>2, <2>1, <2>3
    <2>5. Gone[m] = IF gone[m] \in S THEN Gone[m - 1] \cup {gone[m]} ELSE Gone[m - 1]
      <3>1. {i \in 1 .. m : gone[i] \in S} =
               {i \in 1 .. m - 1 : gone[i] \in S} \cup IF gone[m] \in S THEN {m} ELSE {}
        BY <2>3
      <3> QED BY <1>1, <2>3, <3>1
    <2>6. CASE gone[m] \notin S
      BY <1>3, <2>1, <2>2, <2>3, <2>4, <2>5, <2>6
    <2>7. CASE gone[m] \in S
      <3>1. f[m] = RemoveString(r, gone[m]) /\ T \ Gone[m] = A \ {gone[m]}
        BY <2>1, <2>4, <2>5, <2>7
      <3>2. CASE gone[m] \in A
        <4>1. PICK g, y : g = gone[m] /\ y = RemoveString(r, g)
          OBVIOUS
        <4>2. /\ y \in Seq(X) /\ Enumerates(y, A \ {g})
              /\ \A a, b : Before(y, a, b) <=> (Before(r, a, b) /\ a # g /\ b # g)
          BY <2>2, <3>2, <4>1, RemoveSound
        <4>3. PICK E : E = A \ {g}
          OBVIOUS
        <4>4. y \in Seq(X) /\ Enumerates(y, E) /\ \A a, b \in E : Before(y, a, b) <=> Before(s, a, b)
          BY <2>2, <4>2, <4>3
        <4>5. f[m] = y /\ T \ Gone[m] = E
          BY <3>1, <4>1, <4>3
        <4> QED BY <1>3, <2>3, <4>4, <4>5
      <3>3. CASE gone[m] \notin A
        <4>1. f[m] = r /\ T \ Gone[m] = A
          BY <2>2, <3>1, <3>3, RemoveNothing
        <4> QED BY <1>3, <2>2, <2>3, <4>1
      <3> QED BY <3>2, <3>3
    <2> QED BY <2>6, <2>7
  <1>6. n \in Nat /\ n \in 0 .. n
    BY <1>1
  <1>7. n \in G
    <2>1. \A m \in 1 .. n : m - 1 \in G => m \in G
      BY <1>5
    <2>2. \A m \in 0 .. n : m \in G
      BY <1>4, <1>6, <2>1, UpTo
    <2> QED BY <1>6, <2>2
  <1>9. /\ f[n] \in Seq(X) /\ Enumerates(f[n], T \ Gone[n])
        /\ \A a, b \in T \ Gone[n] : Before(f[n], a, b) <=> Before(s, a, b)
    BY <1>3, <1>7
  <1>10. f[n] = w /\ T \ Gone[n] = D
    BY <1>1, <1>2, <1>6 DEF Taken
  <1> QED BY <1>9, <1>10 DEF SameOrder

-----------------------------------------------------------------------------
(* The order a merge leaves                                                  *)

\* Two lists without a common element.
LEMMA ConcatSound ==
  ASSUME NEW X, NEW s \in Seq(X), NEW t \in Seq(X), NEW S, NEW T, Enumerates(s, S), Enumerates(t, T),
         S \cap T = {}
  PROVE  s \o t \in Seq(X) /\ Enumerates(s \o t, S \cup T)
  <1>1. PICK w : w = s \o t
    OBVIOUS
  <1>2. /\ w \in Seq(X) /\ Len(w) = Len(s) + Len(t) /\ Len(s) \in Nat /\ Len(t) \in Nat
        /\ \A i \in 1 .. Len(s) + Len(t) : w[i] = IF i <= Len(s) THEN s[i] ELSE t[i - Len(s)]
    <2>1. Len(s) \in Nat /\ Len(t) \in Nat
      OBVIOUS
    <2> QED BY <1>1, <2>1, ConcatProperties
  <1>3. /\ S = {s[i] : i \in 1 .. Len(s)} /\ T = {t[i] : i \in 1 .. Len(t)}
        /\ \A i, j \in 1 .. Len(s) : s[i] = s[j] => i = j
        /\ \A i, j \in 1 .. Len(t) : t[i] = t[j] => i = j
    BY DEF Enumerates, ToSet
  <1>4. \A i \in 1 .. Len(w) : \/ i \in 1 .. Len(s) /\ w[i] = s[i] /\ w[i] \in S
                               \/ i - Len(s) \in 1 .. Len(t) /\ w[i] = t[i - Len(s)] /\ w[i] \in T
    BY <1>2, <1>3
  <1>5. ASSUME NEW i \in 1 .. Len(w), NEW j \in 1 .. Len(w), w[i] = w[j] PROVE i = j
    <2>1. CASE w[i] \in S
      <3>1. i \in 1 .. Len(s) /\ w[i] = s[i] /\ j \in 1 .. Len(s) /\ w[j] = s[j]
        BY <1>4, <1>5, <2>1
      <3> QED BY <1>3, <1>5, <3>1
    <2>2. CASE w[i] \in T
      <3>1. PICK m, n : m = i - Len(s) /\ n = j - Len(s)
        OBVIOUS
      <3>2. m \in 1 .. Len(t) /\ w[i] = t[m] /\ n \in 1 .. Len(t) /\ w[j] = t[n]
        BY <1>4, <1>5, <2>2, <3>1
      <3>3. m = n
        BY <1>3, <1>5, <3>2
      <3> QED BY <1>2, <3>1, <3>3
    <2> QED BY <1>4, <2>1, <2>2
  <1>6. ToSet(w) = S \cup T
    <2>1. ASSUME NEW x \in S PROVE \E i \in 1 .. Len(w) : w[i] = x
      <3>1. PICK i \in 1 .. Len(s) : s[i] = x
        BY <1>3
      <3>2. i \in 1 .. Len(w) /\ w[i] = x
        BY <1>2, <3>1
      <3> QED BY <3>2
    <2>2. ASSUME NEW x \in T PROVE \E i \in 1 .. Len(w) : w[i] = x
      <3>1. PICK i \in 1 .. Len(t) : t[i] = x
        BY <1>3
      <3>2. PICK j : j = i + Len(s)
        OBVIOUS
      <3>3. j \in 1 .. Len(w) /\ w[j] = x
        BY <1>2, <3>1, <3>2
      <3> QED BY <3>3
    <2>3. DOMAIN w = 1 .. Len(w)
      BY <1>2
    <2>4. \A i \in 1 .. Len(w) : w[i] \in S \cup T
      BY <1>4
    <2> QED BY <2>1, <2>2, <2>3, <2>4 DEF ToSet
  <1>7. Enumerates(w, S \cup T)
    BY <1>5, <1>6 DEF Enumerates
  <1> QED BY <1>1, <1>2, <1>7

\* The loop that collects the tabs.
LEMMA MovedIs ==
  ASSUME NEW into, NEW absorb, Len(absorb) \in Nat,
         \A p \in Live(projects) : projects[p].tabIDs \in Seq(Tabs)
  PROVE  \E after :
            /\ Moved(into, absorb) = after[Len(absorb)]
            /\ after = [i \in 0 .. Len(absorb) |->
                          IF i = 0 THEN <<>>
                          ELSE IF Drops(into, absorb, i) THEN after[i - 1] \o projects[absorb[i]].tabIDs
                          ELSE after[i - 1]]
  <1>1. PICK F : F = [i \in 1 .. Len(absorb) |->
                       [x \in Seq(Tabs) |-> IF Drops(into, absorb, i) THEN x \o projects[absorb[i]].tabIDs
                                            ELSE x]]
    OBVIOUS
  <1>2. ASSUME NEW i \in 1 .. Len(absorb), NEW x \in Seq(Tabs)
        PROVE  F[i][x] \in Seq(Tabs) /\ F[i][x] = IF Drops(into, absorb, i) THEN x \o projects[absorb[i]].tabIDs
                                                   ELSE x
    <2>1. ASSUME Drops(into, absorb, i) PROVE x \o projects[absorb[i]].tabIDs \in Seq(Tabs)
      <3>1. absorb[i] \in Live(projects)
        BY <2>1 DEF Drops
      <3> QED BY <3>1
    <2> QED BY <1>1, <2>1
  <1>3. <<>> \in Seq(Tabs)
    OBVIOUS
  <1>4. PICK f : Run(f, F, Len(absorb), <<>>, Seq(Tabs))
    <2>1. Turns(F, Len(absorb), Seq(Tabs))
      BY <1>2 DEF Turns
    <2> QED BY <1>3, <2>1, Iteration
  <1>5. /\ f \in [0 .. Len(absorb) -> Seq(Tabs)] /\ f[0] = <<>>
        /\ \A i \in 1 .. Len(absorb) : f[i] = F[i][f[i - 1]]
    BY <1>4 DEF Run
  <1>6. \A i \in 1 .. Len(absorb) :
           f[i] = IF Drops(into, absorb, i) THEN f[i - 1] \o projects[absorb[i]].tabIDs ELSE f[i - 1]
    <2> SUFFICES ASSUME NEW i \in 1 .. Len(absorb)
                 PROVE  F[i][f[i - 1]] = IF Drops(into, absorb, i)
                                         THEN f[i - 1] \o projects[absorb[i]].tabIDs ELSE f[i - 1]
      BY <1>5
    <2>1. f[i - 1] \in Seq(Tabs)
      BY <1>5
    <2> QED BY <1>2, <2>1
  <1>7. f = [i \in 0 .. Len(absorb) |->
                IF i = 0 THEN <<>>
                ELSE IF Drops(into, absorb, i) THEN f[i - 1] \o projects[absorb[i]].tabIDs ELSE f[i - 1]]
    <2>1. \A i \in 0 .. Len(absorb) :
             f[i] = IF i = 0 THEN <<>>
                    ELSE IF Drops(into, absorb, i) THEN f[i - 1] \o projects[absorb[i]].tabIDs ELSE f[i - 1]
      <3> SUFFICES ASSUME NEW i \in 0 .. Len(absorb)
                   PROVE  f[i] = IF i = 0 THEN <<>>
                                 ELSE IF Drops(into, absorb, i) THEN f[i - 1] \o projects[absorb[i]].tabIDs
                                 ELSE f[i - 1]
        OBVIOUS
      <3>1. CASE i = 0
        BY <1>5, <3>1
      <3>2. CASE i # 0
        <4>1. i \in 1 .. Len(absorb)
          BY <3>2
        <4> QED BY <1>6, <3>2, <4>1
      <3> QED BY <3>1, <3>2
    <2>2. f = [i \in 0 .. Len(absorb) |-> f[i]]
      BY <1>5
    <2> QED BY <2>1, <2>2
  <1>8. \E after : after = [i \in 0 .. Len(absorb) |->
                IF i = 0 THEN <<>>
                ELSE IF Drops(into, absorb, i) THEN after[i - 1] \o projects[absorb[i]].tabIDs
                ELSE after[i - 1]]
    BY <1>7
  <1> QED BY <1>8 DEF Moved

\* The tabs that move are those of the dropped projects.
LEMMA MovedSound ==
  ASSUME NEW into, NEW absorb, Len(absorb) \in Nat, DOMAIN absorb = 1 .. Len(absorb),
         \A p \in Live(projects) :
            /\ projects[p].tabIDs \in Seq(Tabs)
            /\ Enumerates(projects[p].tabIDs, {t \in Live(tabs) : tabs[t].project = p})
  PROVE  /\ Moved(into, absorb) \in Seq(Tabs)
         /\ Enumerates(Moved(into, absorb),
                       {t \in Live(tabs) : tabs[t].project \in Dropped(into, absorb)})
  <1>1. PICK n, D : /\ n = Len(absorb)
                    /\ D = [m \in 0 .. n |-> ({absorb[j] : j \in 1 .. m} \cap Live(projects)) \ {into}]
    OBVIOUS
  <1>2. PICK f : /\ Moved(into, absorb) = f[Len(absorb)]
                 /\ f = [i \in 0 .. Len(absorb) |->
                          IF i = 0 THEN <<>>
                          ELSE IF Drops(into, absorb, i) THEN f[i - 1] \o projects[absorb[i]].tabIDs
                          ELSE f[i - 1]]
    BY MovedIs
  <1>3. /\ Moved(into, absorb) = f[n] /\ f[0] = <<>>
        /\ \A i \in 1 .. n : f[i] = IF Drops(into, absorb, i) THEN f[i - 1] \o projects[absorb[i]].tabIDs
                                    ELSE f[i - 1]
    BY <1>1, <1>2
  <1>4. PICK Of : Of = [m \in 0 .. n |-> {t \in Live(tabs) : tabs[t].project \in D[m]}]
    OBVIOUS
  <1>5. PICK G : G = {m \in 0 .. n : f[m] \in Seq(Tabs) /\ Enumerates(f[m], Of[m])}
    OBVIOUS
  <1>6. n \in Nat /\ 0 \in 0 .. n /\ n \in 0 .. n
    BY <1>1
  <1>7. 0 \in G
    <2>1. D[0] = {}
      BY <1>1, <1>6
    <2>2. Of[0] = {}
      BY <1>4, <1>6, <2>1
    <2>3. ToSet(<<>>) = {} /\ Len(<<>>) = 0 /\ <<>> \in Seq(Tabs)
      BY DEF ToSet
    <2>4. PICK e, z : e = <<>> /\ z = {}
      OBVIOUS
    <2>5. e \in Seq(Tabs) /\ Enumerates(e, z)
      BY <2>3, <2>4 DEF Enumerates
    <2> QED BY <1>3, <1>5, <1>6, <2>2, <2>4, <2>5
  <1>8. ASSUME NEW m \in 1 .. n, m - 1 \in G PROVE m \in G
    <2>1. PICK r, A : r = f[m - 1] /\ A = Of[m - 1]
      OBVIOUS
    <2>2. r \in Seq(Tabs) /\ Enumerates(r, A)
      BY <1>5, <1>8, <2>1
    <2>3. m \in 0 .. n /\ m - 1 \in 0 .. n
      BY <1>6
    <2>4. {absorb[j] : j \in 1 .. m} = {absorb[j] : j \in 1 .. m - 1} \cup {absorb[m]}
      BY <2>3
    <2>5. PICK p : p = absorb[m]
      OBVIOUS
    <2>6. CASE Drops(into, absorb, m)
      <3>1. p \in Live(projects) /\ p # into /\ \A j \in 1 .. m - 1 : absorb[j] # p
        BY <2>5, <2>6 DEF Drops
      <3>2. D[m] = D[m - 1] \cup {p} /\ p \notin D[m - 1]
        BY <1>1, <2>3, <2>4, <2>5, <3>1
      <3>3. PICK B, ids : B = {t \in Live(tabs) : tabs[t].project = p} /\ ids = projects[p].tabIDs
        OBVIOUS
      <3>4. ids \in Seq(Tabs) /\ Enumerates(ids, B)
        BY <3>1, <3>3
      <3>5. A \cap B = {} /\ Of[m] = A \cup B
        BY <1>4, <2>1, <2>3, <3>2, <3>3
      <3>6. f[m] = r \o ids
        BY <1>3, <2>1, <2>5, <2>6, <3>3
      <3>7. PICK y, E : y = r \o ids /\ E = A \cup B
        OBVIOUS
      <3>8. y \in Seq(Tabs) /\ Enumerates(y, E)
        BY <2>2, <3>4, <3>5, <3>7, ConcatSound
      <3> QED BY <1>5, <2>3, <3>5, <3>6, <3>7, <3>8
    <2>7. CASE ~Drops(into, absorb, m)
      <3>1. D[m] = D[m - 1]
        BY <1>1, <2>3, <2>4, <2>5, <2>7 DEF Drops
      <3>2. Of[m] = A /\ f[m] = r
        BY <1>3, <1>4, <2>1, <2>3, <2>7, <3>1
      <3> QED BY <1>5, <2>2, <2>3, <3>2
    <2> QED BY <2>6, <2>7
  <1>9. n \in G
    <2>1. \A m \in 1 .. n : m - 1 \in G => m \in G
      BY <1>8
    <2>2. \A m \in 0 .. n : m \in G
      BY <1>6, <1>7, <2>1, UpTo
    <2> QED BY <1>6, <2>2
  <1>10. D[n] = Dropped(into, absorb)
    BY <1>1, <1>6 DEF Dropped, ToSet
  <1>11. Of[n] = {t \in Live(tabs) : tabs[t].project \in Dropped(into, absorb)}
    BY <1>4, <1>6, <1>10
  <1> QED BY <1>3, <1>5, <1>9, <1>11

\* The loop that re-anchors the tabs that move.
LEMMA MovedOrderIs ==
  ASSUME tabOrder \in Seq(Tabs), NEW ids \in Seq(Tabs), NEW kept \in 0 .. Len(ids)
  PROVE  \E after :
            /\ MovedOrder(ids, kept) = after[Len(ids) - kept]
            /\ after = [i \in 0 .. Len(ids) - kept |->
                          IF i = 0 THEN tabOrder
                          ELSE MoveTab(after[i - 1], SubSeq(ids, 1, kept + i), ids[kept + i])]
  <1>1. PICK n, F : /\ n = Len(ids) - kept
                    /\ F = [i \in 1 .. n |->
                             [x \in Seq(Tabs) |-> MoveTab(x, SubSeq(ids, 1, kept + i), ids[kept + i])]]
    OBVIOUS
  <1>2. n \in Nat /\ kept \in Nat /\ Len(ids) = kept + n
    BY <1>1
  <1>3. ASSUME NEW i \in 1 .. n, NEW x \in Seq(Tabs)
        PROVE  /\ F[i][x] = MoveTab(x, SubSeq(ids, 1, kept + i), ids[kept + i])
               /\ F[i][x] \in Seq(Tabs)
    <2>1. PICK u, t : u = SubSeq(ids, 1, kept + i) /\ t = ids[kept + i]
      OBVIOUS
    <2>2. kept + i \in 1 .. Len(ids) /\ 1 \in Int /\ kept + i \in Int
      BY <1>2
    <2>3. \A j \in 1 .. kept + i : ids[j] \in Tabs
      BY <2>2
    <2>4. u \in Seq(Tabs) /\ Len(u) = kept + i /\ \A j \in 1 .. kept + i : u[j] = ids[j]
      BY <2>1, <2>2, <2>3, SubSeqProperties
    <2>5. t \in Tabs /\ Contains(u, t)
      BY <2>1, <2>2, <2>4 DEF Contains
    <2>6. ReanchorTab(x, u, t) \in Seq(Tabs)
      BY <2>4, <2>5, ReanchorType
    <2> QED BY <1>1, <2>1, <2>6 DEF MoveTab
  <1>4. PICK f : Run(f, F, n, tabOrder, Seq(Tabs))
    <2>1. Turns(F, n, Seq(Tabs))
      BY <1>3 DEF Turns
    <2> QED BY <1>2, <2>1, Iteration
  <1>5. /\ f \in [0 .. n -> Seq(Tabs)] /\ f[0] = tabOrder
        /\ \A i \in 1 .. n : f[i] = F[i][f[i - 1]]
    BY <1>4 DEF Run
  <1>6. \A i \in 1 .. n : f[i] = MoveTab(f[i - 1], SubSeq(ids, 1, kept + i), ids[kept + i])
    <2> SUFFICES ASSUME NEW i \in 1 .. n
                 PROVE  F[i][f[i - 1]] = MoveTab(f[i - 1], SubSeq(ids, 1, kept + i), ids[kept + i])
      BY <1>5
    <2>1. i - 1 \in 0 .. n
      BY <1>2
    <2>2. f[i - 1] \in Seq(Tabs)
      BY <1>5, <2>1
    <2> QED BY <1>3, <2>2
  <1>7. f = [i \in 0 .. n |->
                IF i = 0 THEN tabOrder
                ELSE MoveTab(f[i - 1], SubSeq(ids, 1, kept + i), ids[kept + i])]
    <2>1. ASSUME NEW i \in 0 .. n
          PROVE  f[i] = IF i = 0 THEN tabOrder
                        ELSE MoveTab(f[i - 1], SubSeq(ids, 1, kept + i), ids[kept + i])
      <3>1. CASE i = 0
        BY <1>5, <3>1
      <3>2. CASE i # 0
        <4>1. i \in 1 .. n
          BY <1>2, <3>2
        <4> QED BY <1>6, <3>2, <4>1
      <3> QED BY <3>1, <3>2
    <2>2. f = [i \in 0 .. n |-> f[i]]
      BY <1>5
    <2> QED BY <2>1, <2>2
  <1>8. \E after : after = [i \in 0 .. Len(ids) - kept |->
                IF i = 0 THEN tabOrder
                ELSE MoveTab(after[i - 1], SubSeq(ids, 1, kept + i), ids[kept + i])]
    BY <1>1, <1>7
  <1> QED BY <1>8 DEF MovedOrder

\* The first kept tabs of ids stand as listed; the others are to move.
KeptSorted(ids, kept) == \A i, j \in 1 .. kept : i < j => Before(tabOrder, ids[i], ids[j])
Movers(ids, kept) == {ids[i] : i \in kept + 1 .. Len(ids)}

\* ... and the order then agrees with the survivor's whole list, with every
\* tab that stayed as it stood.
LEMMA MovedOrderSound ==
  ASSUME tabOrder \in Seq(Tabs), NEW S, Enumerates(tabOrder, S),
         NEW ids \in Seq(Tabs), NEW P, Enumerates(ids, P), P \subseteq S, NEW kept \in 0 .. Len(ids),
         KeptSorted(ids, kept),
         NEW w, w = MovedOrder(ids, kept), NEW M, M = Movers(ids, kept)
  PROVE  w \in Seq(Tabs) /\ Enumerates(w, S) /\ Follows(w, ids, P) /\ SameOrder(w, tabOrder, S \ M)
  <1>1. PICK n : n = Len(ids) - kept
    OBVIOUS
  <1>2. n \in Nat /\ kept \in Nat /\ Len(ids) = kept + n /\ 0 \in 0 .. n /\ n \in 0 .. n
    BY <1>1
  <1>3. PICK f : /\ MovedOrder(ids, kept) = f[Len(ids) - kept]
                 /\ f = [i \in 0 .. Len(ids) - kept |->
                          IF i = 0 THEN tabOrder
                          ELSE MoveTab(f[i - 1], SubSeq(ids, 1, kept + i), ids[kept + i])]
    BY MovedOrderIs
  <1>4. /\ MovedOrder(ids, kept) = f[n] /\ f[0] = tabOrder
        /\ \A i \in 1 .. n : f[i] = MoveTab(f[i - 1], SubSeq(ids, 1, kept + i), ids[kept + i])
    BY <1>1, <1>2, <1>3, SMTT(20)
  <1>5. P = {ids[i] : i \in 1 .. Len(ids)} /\ \A i, j \in 1 .. Len(ids) : ids[i] = ids[j] => i = j
    BY DEF Enumerates, ToSet
  <1>6. PICK G : G = {m \in 0 .. n :
                       /\ f[m] \in Seq(Tabs) /\ Enumerates(f[m], S)
                       /\ \A i, j \in 1 .. kept + m : i < j => Before(f[m], ids[i], ids[j])
                       /\ \A a, b \in S \ M : Before(f[m], a, b) <=> Before(tabOrder, a, b)}
    OBVIOUS
  <1>7. 0 \in G
    BY <1>2, <1>4, <1>6 DEF KeptSorted
  <1>8. ASSUME NEW m \in 1 .. n, m - 1 \in G PROVE m \in G
    <2>1. PICK r, u, t : r = f[m - 1] /\ u = SubSeq(ids, 1, kept + m) /\ t = ids[kept + m]
      OBVIOUS
    <2>2. /\ r \in Seq(Tabs) /\ Enumerates(r, S)
          /\ \A i, j \in 1 .. kept + m - 1 : i < j => Before(r, ids[i], ids[j])
          /\ \A a, b \in S \ M : Before(r, a, b) <=> Before(tabOrder, a, b)
      <3>1. kept + (m - 1) = kept + m - 1
        BY <1>2
      <3> QED BY <1>6, <1>8, <2>1, <3>1
    <2>3. kept + m \in 1 .. Len(ids) /\ 1 \in Int /\ kept + m \in Int /\ m \in 0 .. n
      BY <1>2
    <2>4. \A j \in 1 .. kept + m : ids[j] \in Tabs
      BY <2>3
    <2>5. u \in Seq(Tabs) /\ Len(u) = kept + m /\ \A j \in 1 .. kept + m : u[j] = ids[j]
      BY <2>1, <2>3, <2>4, SubSeqProperties
    <2>6. PICK Q : Q = {ids[j] : j \in 1 .. kept + m}
      OBVIOUS
    <2>7. Enumerates(u, Q) /\ Q \subseteq S /\ t \in Q
      <3>1. \A j \in 1 .. kept + m : j \in 1 .. Len(ids) /\ ids[j] \in P
        BY <1>5, <2>3
      <3>2. ToSet(u) = Q
        <4>1. DOMAIN u = 1 .. kept + m
          BY <2>5
        <4> QED BY <2>5, <2>6, <4>1 DEF ToSet
      <3>3. \A i, j \in 1 .. Len(u) : u[i] = u[j] => i = j
        BY <1>5, <2>5, <3>1
      <3> QED BY <2>1, <2>3, <2>6, <3>1, <3>2, <3>3 DEF Enumerates
    <2>8. ASSUME NEW a \in Q \ {t}, NEW b \in Q \ {t}, Before(u, a, b) PROVE Before(r, a, b)
      <3>1. PICK i, j \in 1 .. kept + m : i < j /\ ids[i] = a /\ ids[j] = b
        BY <2>5, <2>8 DEF Before
      <3>2. i # kept + m /\ j # kept + m
        BY <2>1, <3>1
      <3>3. i \in 1 .. kept + m - 1 /\ j \in 1 .. kept + m - 1
        BY <2>3, <3>1, <3>2
      <3> QED BY <2>2, <3>1, <3>3
    <2>9. PICK y : y = ReanchorTab(r, u, t)
      OBVIOUS
    <2>15. y \in Seq(Tabs) /\ Enumerates(y, S) /\ Follows(y, u, Q) /\ SameOrder(y, r, S \ {t})
      <3>1. Follows(r, u, Q \ {t})
        BY <2>8 DEF Follows
      <3>2. r \in Seq(Tabs) /\ Enumerates(r, S)
        BY <2>2
      <3>3. u \in Seq(Tabs)
        BY <2>5
      <3> QED BY <2>7, <2>9, <3>1, <3>2, <3>3, ReanchorSound
    <2>10. /\ y \in Seq(Tabs) /\ Enumerates(y, S)
           /\ \A a, b \in Q : Before(u, a, b) => Before(y, a, b)
           /\ \A a, b \in S \ {t} : Before(y, a, b) <=> Before(r, a, b)
      BY <2>15 DEF Follows, SameOrder
    <2>11. f[m] = y
      BY <1>4, <2>1, <2>9 DEF MoveTab
    <2>12. ASSUME NEW i \in 1 .. kept + m, NEW j \in 1 .. kept + m, i < j PROVE Before(y, ids[i], ids[j])
      <3>1. Before(u, ids[i], ids[j])
        BY <2>5, <2>12 DEF Before
      <3> QED BY <2>6, <2>10, <3>1
    <2>13. t \in M
      BY <1>2, <2>1, <2>3 DEF Movers
    <2>14. \A a, b \in S \ M : Before(y, a, b) <=> Before(tabOrder, a, b)
      BY <2>2, <2>10, <2>13
    <2> QED BY <1>6, <2>3, <2>10, <2>11, <2>12, <2>14
  <1>9. n \in G
    <2>1. \A m \in 1 .. n : m - 1 \in G => m \in G
      BY <1>8
    <2>2. \A m \in 0 .. n : m \in G
      BY <1>2, <1>7, <2>1, UpTo
    <2> QED BY <1>2, <2>2
  <1>10. w = f[n]
    BY <1>4
  <1>11. /\ w \in Seq(Tabs) /\ Enumerates(w, S)
         /\ \A i, j \in 1 .. Len(ids) : i < j => Before(w, ids[i], ids[j])
         /\ \A a, b \in S \ M : Before(w, a, b) <=> Before(tabOrder, a, b)
    BY <1>2, <1>6, <1>9, <1>10
  <1>12. ASSUME NEW a \in P, NEW b \in P, Before(ids, a, b) PROVE Before(w, a, b)
    <2>1. PICK i, j \in 1 .. Len(ids) : i < j /\ ids[i] = a /\ ids[j] = b
      BY <1>12 DEF Before
    <2> QED BY <1>11, <2>1
  <1>13. Follows(w, ids, P) /\ SameOrder(w, tabOrder, S \ M)
    BY <1>11, <1>12 DEF Follows, SameOrder
  <1> QED BY <1>11, <1>13

-----------------------------------------------------------------------------
(* The lists the invariant speaks of                                         *)

\* An empty list.
LEMMA EmptyList ==
  ASSUME NEW X, NEW e, e = <<>>, NEW z, z = {}
  PROVE  e \in Seq(X) /\ Enumerates(e, z) /\ Len(e) = 0
  BY DEF Enumerates, ToSet

\* Two elements do not both stand first.
LEMMA BeforeAsym ==
  ASSUME NEW X, NEW s \in Seq(X), NEW S, Enumerates(s, S), NEW a, NEW b, Before(s, a, b)
  PROVE  a # b /\ ~Before(s, b, a)
  <1>1. PICK i, j \in 1 .. Len(s) : i < j /\ s[i] = a /\ s[j] = b
    BY DEF Before
  <1>2. \A k, l \in 1 .. Len(s) : s[k] = s[l] => k = l
    BY DEF Enumerates
  <1>3. a # b
    BY <1>1, <1>2
  <1>4. ASSUME Before(s, b, a) PROVE FALSE
    <2>1. PICK k, l \in 1 .. Len(s) : k < l /\ s[k] = b /\ s[l] = a
      BY <1>4 DEF Before
    <2>2. k = j /\ l = i
      BY <1>1, <1>2, <2>1
    <2> QED BY <1>1, <2>1, <2>2
  <1> QED BY <1>3, <1>4

\* Elements of the list are members, and the first and any other one is.
LEMMA ListedMember ==
  ASSUME NEW X, NEW s \in Seq(X), NEW S, Enumerates(s, S)
  PROVE  /\ \A i \in 1 .. Len(s) : s[i] \in S
         /\ S \subseteq X /\ (s = <<>> <=> S = {}) /\ (s # <<>> => Head(s) \in S)
         /\ \A x : Contains(s, x) <=> x \in S
  <1>1. S = {s[i] : i \in 1 .. Len(s)} /\ Len(s) \in Nat
    BY DEF Enumerates, ToSet
  <1>2. \A i \in 1 .. Len(s) : s[i] \in S /\ s[i] \in X
    BY <1>1
  <1>3. S \subseteq X
    BY <1>1, <1>2
  <1>4. CASE s = <<>>
    <2>1. Len(s) = 0
      BY <1>4
    <2>2. S = {}
      BY <1>1, <2>1
    <2> QED BY <1>2, <1>3, <1>4, <2>1, <2>2 DEF Contains
  <1>5. CASE s # <<>>
    <2>1. Len(s) >= 1 /\ Head(s) = s[1]
      BY <1>5
    <2>2. s[1] \in S
      BY <1>1, <2>1
    <2>3. \A x : Contains(s, x) <=> x \in S
      BY <1>1 DEF Contains
    <2> QED BY <1>2, <1>3, <1>5, <2>1, <2>2, <2>3
  <1> QED BY <1>4, <1>5

\* An order that keeps a list's order still does when it changes elsewhere.
LEMMA FollowsSame ==
  ASSUME NEW s, NEW w, NEW ids, NEW P, NEW D, Follows(s, ids, P), SameOrder(w, s, D), P \subseteq D
  PROVE  Follows(w, ids, P)
  BY DEF Follows, SameOrder

\* A new element stands last in both.
LEMMA AppendFollows ==
  ASSUME NEW X, NEW s \in Seq(X), NEW S, Enumerates(s, S), NEW ids \in Seq(X), NEW P, Enumerates(ids, P),
         P \subseteq S, Follows(s, ids, P), NEW e \in X, e \notin S,
         NEW w, w = Append(s, e), NEW u, u = Append(ids, e)
  PROVE  Follows(w, u, P \cup {e})
  <1>1. w \in Seq(X) /\ Enumerates(w, S \cup {e}) /\ SameOrder(w, s, S)
    BY AppendSound
  <1>2. e \notin P
    OBVIOUS
  <1>3. u \in Seq(X) /\ Enumerates(u, P \cup {e}) /\ SameOrder(u, ids, P)
    BY <1>2, AppendSound
  <1>4. ASSUME NEW a \in S PROVE Before(w, a, e)
    <2>1. PICK i \in 1 .. Len(s) : s[i] = a
      BY DEF Enumerates, ToSet
    <2>2. PICK l : l = Len(s) + 1
      OBVIOUS
    <2>3. i \in 1 .. Len(w) /\ l \in 1 .. Len(w) /\ i < l /\ w[i] = a /\ w[l] = e
      BY <2>1, <2>2
    <2> QED BY <2>3 DEF Before
  <1>5. ASSUME NEW a \in P PROVE Before(u, a, e)
    <2>1. PICK i \in 1 .. Len(ids) : ids[i] = a
      BY DEF Enumerates, ToSet
    <2>2. PICK l : l = Len(ids) + 1
      OBVIOUS
    <2>3. i \in 1 .. Len(u) /\ l \in 1 .. Len(u) /\ i < l /\ u[i] = a /\ u[l] = e
      BY <2>1, <2>2
    <2> QED BY <2>3 DEF Before
  <1>6. ASSUME NEW b, Before(u, e, b), b \in P \cup {e} PROVE FALSE
    <2>1. e # b /\ ~Before(u, b, e)
      BY <1>3, <1>6, BeforeAsym
    <2> QED BY <1>5, <1>6, <2>1
  <1>7. ASSUME NEW a \in P, NEW b \in P, Before(u, a, b) PROVE Before(w, a, b)
    BY <1>1, <1>3, <1>7 DEF Follows, SameOrder
  <1> QED BY <1>4, <1>6, <1>7 DEF Follows

\* An element goes from both.
LEMMA RemoveFollows ==
  ASSUME NEW X, NEW s \in Seq(X), NEW S, Enumerates(s, S), NEW ids \in Seq(X), NEW P, Enumerates(ids, P),
         P \subseteq S, Follows(s, ids, P), NEW e \in P,
         NEW w, w = RemoveString(s, e), NEW u, u = RemoveString(ids, e)
  PROVE  Follows(w, u, P \ {e}) /\ SameOrder(w, s, S \ {e})
  <1>1. \A a, b : Before(w, a, b) <=> (Before(s, a, b) /\ a # e /\ b # e)
    BY RemoveSound
  <1>2. \A a, b : Before(u, a, b) <=> (Before(ids, a, b) /\ a # e /\ b # e)
    BY RemoveSound
  <1> QED BY <1>1, <1>2 DEF Follows, SameOrder

\* One element takes another's place.
LEMMA ReplaceSound ==
  ASSUME NEW X, NEW s \in Seq(X), NEW S, Enumerates(s, S), NEW old \in S, NEW e \in X, e \notin S,
         NEW w, w = ReplaceAt(s, IndexOf(s, old), e)
  PROVE  w \in Seq(X) /\ Enumerates(w, (S \ {old}) \cup {e})
  <1>1. Contains(s, old)
    BY ListedMember
  <1>2. PICK k \in 1 .. Len(s) : k = IndexOf(s, old) /\ s[k] = old
    BY <1>1, IndexIs
  <1>3. /\ w \in Seq(X) /\ Len(w) = Len(s) /\ DOMAIN w = 1 .. Len(w)
        /\ \A i \in 1 .. Len(s) : w[i] = IF i = k THEN e ELSE s[i]
    BY <1>2 DEF ReplaceAt
  <1>4. S = {s[i] : i \in 1 .. Len(s)} /\ \A i, j \in 1 .. Len(s) : s[i] = s[j] => i = j
    BY DEF Enumerates, ToSet
  <1>5. \A i, j \in 1 .. Len(w) : w[i] = w[j] => i = j
    BY <1>3, <1>4
  <1>6. ToSet(w) = (S \ {old}) \cup {e}
    <2>1. \A i \in 1 .. Len(w) : w[i] \in (S \ {old}) \cup {e}
      BY <1>2, <1>3, <1>4
    <2>2. ASSUME NEW x \in S \ {old} PROVE \E i \in 1 .. Len(w) : w[i] = x
      BY <1>2, <1>3, <1>4
    <2>3. k \in 1 .. Len(w) /\ w[k] = e
      BY <1>3
    <2> QED BY <1>3, <2>1, <2>2, <2>3 DEF ToSet
  <1> QED BY <1>3, <1>5, <1>6 DEF Enumerates

-----------------------------------------------------------------------------
(* The invariant of the session manager                                      *)

\* The conjuncts of SessionSound, sorted by what they are about.
TabsOf(p) == {t \in Live(tabs) : tabs[t].project = p}
PanesOf(t) == {q \in Live(panes) : panes[q].tab = t}
TabRecord == [panes : Seq(Panes), project : Projects]
PaneRecord == [tab : Tabs, overlay : BOOLEAN]
ProjectRecord == [tabIDs : Seq(Tabs), activeTab : Tabs \cup {None}, bootstrap : BOOLEAN]

\* Tabs point at live projects, the global order names each once.
TabsKept ==
    /\ Live(tabs) \subseteq Tabs
    /\ \A t \in Live(tabs) : tabs[t] \in TabRecord /\ tabs[t].project \in Live(projects)
    /\ tabOrder \in Seq(Tabs) /\ Enumerates(tabOrder, Live(tabs))
\* Panes point at live tabs, and a tab lists its own panes, each once.
PanesKept ==
    /\ Live(panes) \subseteq Panes
    /\ \A q \in Live(panes) : panes[q] \in PaneRecord /\ panes[q].tab \in Live(tabs)
    /\ \A t \in Live(tabs) : Enumerates(tabs[t].panes, PanesOf(t))
\* The order of the projects names each once.
ProjectsKept ==
    /\ Live(projects) \subseteq Projects
    /\ \A p \in Live(projects) : projects[p] \in ProjectRecord
    /\ projectOrder \in Seq(Projects) /\ Enumerates(projectOrder, Live(projects))
\* A project lists its own tabs, each once, in the global order.
ListsKept ==
    \A p \in Live(projects) : /\ Enumerates(projects[p].tabIDs, TabsOf(p))
                              /\ Follows(tabOrder, projects[p].tabIDs, TabsOf(p))
\* What is active exists, and there is an active project while there is any.
ActivesKept ==
    /\ activeTab \in Live(tabs) \cup {None}
    /\ activeProject \in Live(projects) \cup {None}
    /\ activeProject = None <=> Live(projects) = {}
    /\ \A p \in Live(projects) : projects[p].activeTab \in TabsOf(p) \cup {None}

\* The whole invariant.
AllKept == TabsKept /\ PanesKept /\ ProjectsKept /\ ListsKept /\ ActivesKept

\* The conjuncts put together are the property.
LEMMA SoundParts == SessionSound <=> AllKept
  <1> USE SessionAssumption DEF TabRecord, PaneRecord, ProjectRecord
  <1>1. ASSUME SessionSound PROVE AllKept
    <2>1. TabsKept
      BY <1>1 DEF SessionSound, LinksAgree, SessionTypeOK, TabsKept
    <2>2. PanesKept
      BY <1>1 DEF SessionSound, LinksAgree, SessionTypeOK, PanesKept, PanesOf
    <2>3. ProjectsKept
      BY <1>1 DEF SessionSound, LinksAgree, SessionTypeOK, ProjectsKept
    <2>4. ASSUME NEW p \in Live(projects)
          PROVE  /\ Enumerates(projects[p].tabIDs, TabsOf(p)) /\ ToSet(projects[p].tabIDs) = TabsOf(p)
                 /\ Follows(tabOrder, projects[p].tabIDs, TabsOf(p))
      <3>1. Enumerates(projects[p].tabIDs, TabsOf(p))
        BY <1>1 DEF SessionSound, OrdersAgree, TabsOf
      <3>2. ToSet(projects[p].tabIDs) = TabsOf(p)
        BY <3>1 DEF Enumerates
      <3>3. Follows(tabOrder, projects[p].tabIDs, TabsOf(p))
        BY <1>1, <3>2 DEF SessionSound, OrdersAgree, Follows
      <3> QED BY <3>1, <3>2, <3>3
    <2>5. ListsKept
      BY <2>4 DEF ListsKept
    <2>6. ActivesKept
      BY <1>1, <2>4 DEF SessionSound, ActiveOnesLive, ActivesKept
    <2> QED BY <2>1, <2>2, <2>3, <2>5, <2>6 DEF AllKept
  <1>2. ASSUME AllKept PROVE SessionSound
    <2>1. ASSUME NEW p \in Live(projects)
          PROVE  /\ Enumerates(projects[p].tabIDs, {t \in Live(tabs) : tabs[t].project = p})
                 /\ ToSet(projects[p].tabIDs) = TabsOf(p)
                 /\ \A t, u \in ToSet(projects[p].tabIDs) :
                       Before(projects[p].tabIDs, t, u) => Before(tabOrder, t, u)
      <3>1. Enumerates(projects[p].tabIDs, TabsOf(p)) /\ Follows(tabOrder, projects[p].tabIDs, TabsOf(p))
        BY <1>2 DEF AllKept, ListsKept
      <3>2. ToSet(projects[p].tabIDs) = TabsOf(p)
        BY <3>1 DEF Enumerates
      <3> QED BY <3>1, <3>2 DEF Follows, TabsOf
    <2>2. OrdersAgree
      BY <2>1 DEF OrdersAgree
    <2>3. SessionTypeOK
      <3>1. \A t \in Live(tabs) : tabs[t] \in TabRecord
        BY <1>2 DEF AllKept, TabsKept
      <3>2. \A q \in Live(panes) : panes[q] \in PaneRecord
        BY <1>2 DEF AllKept, PanesKept
      <3>3. \A p \in Live(projects) : projects[p] \in ProjectRecord
        BY <1>2 DEF AllKept, ProjectsKept
      <3>4. /\ Live(tabs) \subseteq Tabs /\ Live(panes) \subseteq Panes /\ Live(projects) \subseteq Projects
            /\ tabOrder \in Seq(Tabs) /\ projectOrder \in Seq(Projects)
            /\ activeTab \in Live(tabs) \cup {None} /\ activeProject \in Live(projects) \cup {None}
        BY <1>2 DEF AllKept, TabsKept, PanesKept, ProjectsKept, ActivesKept
      <3> QED BY <3>1, <3>2, <3>3, <3>4 DEF SessionTypeOK
    <2>4. LinksAgree
      BY <1>2, <2>3 DEF AllKept, TabsKept, PanesKept, ProjectsKept, PanesOf, LinksAgree
    <2>5. ActiveOnesLive
      BY <1>2, <2>1 DEF AllKept, ActivesKept, ActiveOnesLive
    <2> QED BY <2>2, <2>4, <2>5 DEF SessionSound
  <1> QED BY <1>1, <1>2

-----------------------------------------------------------------------------
(* What each call does to it                                                 *)

\* A step that leaves the tabs with their projects leaves the lists and the
\* remembered tabs as they are.
LEMMA TabsStay ==
  ASSUME AllKept, Live(tabs)' = Live(tabs), \A t \in Live(tabs) : tabs[t].project = tabs'[t].project,
         \A t \in Live(tabs) : tabs'[t] \in TabRecord,
         UNCHANGED <<tabOrder, projects, projectOrder, activeTab, activeProject>>
  PROVE  TabsKept' /\ ProjectsKept' /\ ListsKept' /\ ActivesKept'
  <1>1. TabsKept'
    BY DEF AllKept, TabsKept, Live
  <1>2. ProjectsKept'
    BY DEF AllKept, ProjectsKept, Live
  <1>3. Live(projects)' = Live(projects) /\ \A p \in Live(projects) : TabsOf(p)' = TabsOf(p)
    BY DEF TabsOf, Live
  <1>4. ListsKept'
    BY <1>3 DEF AllKept, ListsKept
  <1>5. ActivesKept'
    BY <1>3 DEF AllKept, ActivesKept
  <1> QED BY <1>1, <1>2, <1>4, <1>5

\* CreatePane.
LEMMA CreatePaneKeeps ==
  ASSUME AllKept, NEW t, NEW q, CreatePane(t, q)
  PROVE  AllKept'
  <1>1. /\ t \in Live(tabs) /\ q \in Panes /\ q \notin Live(panes)
        /\ panes' = [x \in Live(panes) \cup {q} |-> IF x = q THEN [tab |-> t, overlay |-> FALSE] ELSE panes[x]]
        /\ tabs' = [tabs EXCEPT ![t].panes = Append(@, q)]
        /\ UNCHANGED <<tabOrder, projects, projectOrder, activeTab, activeProject>>
    BY DEF CreatePane, Put, Live
  <1>2. /\ Live(tabs) \subseteq Tabs /\ \A u \in Live(tabs) : tabs[u] \in TabRecord
        /\ Live(panes) \subseteq Panes
        /\ \A x \in Live(panes) : panes[x] \in PaneRecord /\ panes[x].tab \in Live(tabs)
        /\ \A u \in Live(tabs) : Enumerates(tabs[u].panes, PanesOf(u))
    BY DEF AllKept, TabsKept, PanesKept
  <1>3. /\ Live(tabs)' = Live(tabs)
        /\ \A u \in Live(tabs) : tabs'[u] = IF u = t THEN [tabs[u] EXCEPT !.panes = Append(@, q)] ELSE tabs[u]
    BY <1>1 DEF Live
  <1>10. PICK v : v = Append(tabs[t].panes, q)
    OBVIOUS
  <1>11. v \in Seq(Panes) /\ tabs'[t] = [tabs[t] EXCEPT !.panes = v]
    <2>1. tabs[t].panes \in Seq(Panes)
      BY <1>1, <1>2 DEF TabRecord
    <2>2. v \in Seq(Panes)
      BY <1>1, <1>10, <2>1
    <2> QED BY <1>1, <1>3, <1>10, <2>2
  <1>4. /\ \A u \in Live(tabs) : tabs[u].project = tabs'[u].project
        /\ \A u \in Live(tabs) : tabs'[u] \in TabRecord
    <2>1. ASSUME NEW u \in Live(tabs) PROVE tabs[u].project = tabs'[u].project /\ tabs'[u] \in TabRecord
      <3>1. CASE u = t
        BY <1>2, <1>11, <3>1 DEF TabRecord
      <3>2. CASE u # t
        BY <1>2, <1>3, <3>2
      <3> QED BY <3>1, <3>2
    <2> QED BY <2>1
  <1>5. TabsKept' /\ ProjectsKept' /\ ListsKept' /\ ActivesKept'
    BY <1>1, <1>3, <1>4, TabsStay
  <1>6. /\ Live(panes)' = Live(panes) \cup {q}
        /\ \A x \in Live(panes) : panes'[x] = panes[x]
        /\ panes'[q] = [tab |-> t, overlay |-> FALSE]
    BY <1>1 DEF Live
  <1>7. ASSUME NEW x \in Live(panes)' PROVE panes'[x] \in PaneRecord /\ panes'[x].tab \in Live(tabs)'
    BY <1>1, <1>2, <1>3, <1>6 DEF PaneRecord
  <1>8. ASSUME NEW u \in Live(tabs) PROVE Enumerates(tabs'[u].panes, PanesOf(u)')
    <2>1. tabs[u].panes \in Seq(Panes) /\ Enumerates(tabs[u].panes, PanesOf(u))
      BY <1>2 DEF TabRecord
    <2>2. CASE u # t
      <3>1. PanesOf(u)' = PanesOf(u)
        BY <1>6, <2>2 DEF PanesOf
      <3> QED BY <1>3, <2>1, <2>2, <3>1
    <2>3. CASE u = t
      <3>1. PICK s, w : s = tabs[u].panes /\ w = Append(s, q)
        OBVIOUS
      <3>2. PICK S : S = PanesOf(u)
        OBVIOUS
      <3>3. q \notin S /\ S \cup {q} = PanesOf(u)'
        BY <1>1, <1>6, <2>3, <3>2 DEF PanesOf
      <3>4. Enumerates(w, S \cup {q})
        BY <1>1, <2>1, <3>1, <3>2, <3>3, AppendSound
      <3>5. tabs'[u].panes = w
        BY <1>2, <1>3, <2>3, <3>1 DEF TabRecord
      <3> QED BY <3>3, <3>4, <3>5
    <2> QED BY <2>2, <2>3
  <1>9. PanesKept'
    BY <1>1, <1>2, <1>3, <1>6, <1>7, <1>8 DEF PanesKept
  <1> QED BY <1>5, <1>9 DEF AllKept

\* ReplacePane.
LEMMA ReplacePaneKeeps ==
  ASSUME AllKept, NEW old, NEW q, ReplacePane(old, q)
  PROVE  AllKept'
  <1>10. PICK t : t = panes[old].tab
    OBVIOUS
  <1>1. /\ old \in Live(panes) /\ q \in Panes /\ q \notin Live(panes)
        /\ panes' = [x \in (Live(panes) \ {old}) \cup {q} |->
                        IF x = q THEN [tab |-> t, overlay |-> FALSE] ELSE panes[x]]
        /\ tabs' = [tabs EXCEPT ![t].panes = ReplaceAt(@, IndexOf(@, old), q)]
        /\ UNCHANGED <<tabOrder, projects, projectOrder, activeTab, activeProject>>
    BY <1>10 DEF ReplacePane, Put, Without, Live
  <1>2. /\ Live(tabs) \subseteq Tabs /\ \A u \in Live(tabs) : tabs[u] \in TabRecord
        /\ Live(panes) \subseteq Panes
        /\ \A x \in Live(panes) : panes[x] \in PaneRecord /\ panes[x].tab \in Live(tabs)
        /\ \A u \in Live(tabs) : Enumerates(tabs[u].panes, PanesOf(u))
    BY DEF AllKept, TabsKept, PanesKept
  <1>3. /\ Live(tabs)' = Live(tabs) /\ t \in Live(tabs)
        /\ \A u \in Live(tabs) :
              tabs'[u] = IF u = t THEN [tabs[u] EXCEPT !.panes = ReplaceAt(@, IndexOf(@, old), q)] ELSE tabs[u]
    BY <1>1, <1>2, <1>10 DEF Live
  <1>11. PICK s, S, w : /\ s = tabs[t].panes /\ S = PanesOf(t)
                        /\ w = ReplaceAt(s, IndexOf(s, old), q)
    OBVIOUS
  <1>12. s \in Seq(Panes) /\ Enumerates(s, S) /\ old \in S /\ q \notin S
    BY <1>1, <1>2, <1>3, <1>10, <1>11 DEF TabRecord, PanesOf
  <1>13. w \in Seq(Panes) /\ Enumerates(w, (S \ {old}) \cup {q})
    BY <1>1, <1>11, <1>12, ReplaceSound
  <1>14. tabs'[t] = [tabs[t] EXCEPT !.panes = w]
    BY <1>3, <1>11
  <1>4. /\ \A u \in Live(tabs) : tabs[u].project = tabs'[u].project
        /\ \A u \in Live(tabs) : tabs'[u] \in TabRecord
    <2>1. ASSUME NEW u \in Live(tabs) PROVE tabs[u].project = tabs'[u].project /\ tabs'[u] \in TabRecord
      <3>1. CASE u = t
        BY <1>2, <1>13, <1>14, <3>1 DEF TabRecord
      <3>2. CASE u # t
        BY <1>2, <1>3, <3>2
      <3> QED BY <3>1, <3>2
    <2> QED BY <2>1
  <1>5. TabsKept' /\ ProjectsKept' /\ ListsKept' /\ ActivesKept'
    BY <1>1, <1>3, <1>4, TabsStay
  <1>6. /\ Live(panes)' = (Live(panes) \ {old}) \cup {q}
        /\ \A x \in Live(panes) \ {old} : panes'[x] = panes[x]
        /\ panes'[q] = [tab |-> t, overlay |-> FALSE]
    BY <1>1 DEF Live
  <1>7. ASSUME NEW x \in Live(panes)' PROVE panes'[x] \in PaneRecord /\ panes'[x].tab \in Live(tabs)'
    BY <1>1, <1>2, <1>3, <1>6 DEF PaneRecord
  <1>8. ASSUME NEW u \in Live(tabs) PROVE Enumerates(tabs'[u].panes, PanesOf(u)')
    <2>2. CASE u # t
      <3>1. PanesOf(u)' = PanesOf(u)
        BY <1>6, <1>10, <2>2 DEF PanesOf
      <3> QED BY <1>2, <1>3, <2>2, <3>1
    <2>3. CASE u = t
      <3>1. PanesOf(u)' = (S \ {old}) \cup {q}
        BY <1>1, <1>6, <1>10, <1>11, <2>3 DEF PanesOf
      <3>2. tabs'[u].panes = w
        BY <1>2, <1>3, <1>14, <2>3 DEF TabRecord
      <3> QED BY <1>13, <3>1, <3>2
    <2> QED BY <2>2, <2>3
  <1>9. PanesKept'
    BY <1>1, <1>2, <1>3, <1>6, <1>7, <1>8 DEF PanesKept
  <1> QED BY <1>5, <1>9 DEF AllKept

\* DestroyPane.
LEMMA DestroyPaneKeeps ==
  ASSUME AllKept, NEW q, DestroyPane(q)
  PROVE  AllKept'
  <1>10. PICK t : t = panes[q].tab
    OBVIOUS
  <1>1. /\ q \in Live(panes)
        /\ panes' = [x \in Live(panes) \ {q} |-> panes[x]]
        /\ tabs' = [tabs EXCEPT ![t].panes = RemoveString(@, q)]
        /\ UNCHANGED <<tabOrder, projects, projectOrder, activeTab, activeProject>>
    BY <1>10 DEF DestroyPane, Without, Live
  <1>2. /\ Live(tabs) \subseteq Tabs /\ \A u \in Live(tabs) : tabs[u] \in TabRecord
        /\ Live(panes) \subseteq Panes
        /\ \A x \in Live(panes) : panes[x] \in PaneRecord /\ panes[x].tab \in Live(tabs)
        /\ \A u \in Live(tabs) : Enumerates(tabs[u].panes, PanesOf(u))
    BY DEF AllKept, TabsKept, PanesKept
  <1>3. /\ Live(tabs)' = Live(tabs) /\ t \in Live(tabs)
        /\ \A u \in Live(tabs) :
              tabs'[u] = IF u = t THEN [tabs[u] EXCEPT !.panes = RemoveString(@, q)] ELSE tabs[u]
    BY <1>1, <1>2, <1>10 DEF Live
  <1>11. PICK s, S, w : s = tabs[t].panes /\ S = PanesOf(t) /\ w = RemoveString(s, q)
    OBVIOUS
  <1>12. s \in Seq(Panes) /\ Enumerates(s, S) /\ q \in S
    BY <1>1, <1>2, <1>3, <1>10, <1>11 DEF TabRecord, PanesOf
  <1>13. w \in Seq(Panes) /\ Enumerates(w, S \ {q})
    BY <1>11, <1>12, RemoveSound
  <1>14. tabs'[t] = [tabs[t] EXCEPT !.panes = w]
    BY <1>3, <1>11
  <1>4. /\ \A u \in Live(tabs) : tabs[u].project = tabs'[u].project
        /\ \A u \in Live(tabs) : tabs'[u] \in TabRecord
    <2>1. ASSUME NEW u \in Live(tabs) PROVE tabs[u].project = tabs'[u].project /\ tabs'[u] \in TabRecord
      <3>1. CASE u = t
        BY <1>2, <1>13, <1>14, <3>1 DEF TabRecord
      <3>2. CASE u # t
        BY <1>2, <1>3, <3>2
      <3> QED BY <3>1, <3>2
    <2> QED BY <2>1
  <1>5. TabsKept' /\ ProjectsKept' /\ ListsKept' /\ ActivesKept'
    BY <1>1, <1>3, <1>4, TabsStay
  <1>6. Live(panes)' = Live(panes) \ {q} /\ \A x \in Live(panes) \ {q} : panes'[x] = panes[x]
    BY <1>1 DEF Live
  <1>8. ASSUME NEW u \in Live(tabs) PROVE Enumerates(tabs'[u].panes, PanesOf(u)')
    <2>2. CASE u # t
      <3>1. PanesOf(u)' = PanesOf(u)
        BY <1>6, <1>10, <2>2 DEF PanesOf
      <3> QED BY <1>2, <1>3, <2>2, <3>1
    <2>3. CASE u = t
      <3>1. PanesOf(u)' = S \ {q}
        BY <1>6, <1>11, <2>3 DEF PanesOf
      <3>2. tabs'[u].panes = w
        BY <1>2, <1>3, <1>14, <2>3 DEF TabRecord
      <3> QED BY <1>13, <3>1, <3>2
    <2> QED BY <2>2, <2>3
  <1>9. PanesKept'
    BY <1>1, <1>2, <1>3, <1>6, <1>8 DEF PanesKept
  <1> QED BY <1>5, <1>9 DEF AllKept

\* A step that leaves the tabs, the panes and each project's list.
LEMMA ListsStay ==
  ASSUME AllKept, UNCHANGED <<tabs, tabOrder, panes, projectOrder>>, Live(projects)' = Live(projects),
         \A p \in Live(projects) : projects'[p] \in ProjectRecord /\ projects'[p].tabIDs = projects[p].tabIDs
  PROVE  TabsKept' /\ PanesKept' /\ ProjectsKept' /\ ListsKept'
  <1>1. TabsKept'
    BY DEF AllKept, TabsKept, Live
  <1>2. Live(panes)' = Live(panes) /\ Live(tabs)' = Live(tabs) /\ \A t \in Live(tabs) : PanesOf(t)' = PanesOf(t)
    BY DEF PanesOf, Live
  <1>3. PanesKept'
    BY <1>2 DEF AllKept, PanesKept
  <1>4. ProjectsKept'
    BY DEF AllKept, ProjectsKept
  <1>5. \A p \in Live(projects) : TabsOf(p)' = TabsOf(p)
    BY <1>2 DEF TabsOf
  <1>6. ListsKept'
    BY <1>5 DEF AllKept, ListsKept
  <1> QED BY <1>1, <1>3, <1>4, <1>6

\* SwitchTab.
LEMMA SwitchTabKeeps ==
  ASSUME AllKept, NEW t, SwitchTab(t)
  PROVE  AllKept'
  <1>1. PICK p : p = tabs[t].project
    OBVIOUS
  <1>2. /\ t \in Live(tabs) /\ p \in Live(projects) /\ t \in Tabs /\ activeTab' = t
        /\ projects' = [projects EXCEPT ![p].activeTab = t]
        /\ UNCHANGED <<tabs, tabOrder, panes, projectOrder, activeProject>>
    BY <1>1 DEF SwitchTab, AllKept, TabsKept
  <1>3. /\ Live(projects)' = Live(projects)
        /\ \A x \in Live(projects) : projects'[x] = IF x = p THEN [projects[x] EXCEPT !.activeTab = t] ELSE projects[x]
    BY <1>2 DEF Live
  <1>4. \A x \in Live(projects) : projects[x] \in ProjectRecord
    BY DEF AllKept, ProjectsKept
  <1>5. ASSUME NEW x \in Live(projects)
        PROVE  /\ projects'[x] \in ProjectRecord /\ projects'[x].tabIDs = projects[x].tabIDs
               /\ projects'[x].activeTab = IF x = p THEN t ELSE projects[x].activeTab
    BY <1>2, <1>3, <1>4, SMTT(20) DEF ProjectRecord
  <1>6. TabsKept' /\ PanesKept' /\ ProjectsKept' /\ ListsKept'
    BY <1>2, <1>3, <1>5, ListsStay
  <1>7. Live(tabs)' = Live(tabs) /\ \A x \in Live(projects) : TabsOf(x)' = TabsOf(x)
    BY <1>2 DEF TabsOf, Live
  <1>8. t \in TabsOf(p)
    BY <1>1, <1>2 DEF TabsOf
  <1>9. ActivesKept'
    <2>1. /\ activeProject \in Live(projects) \cup {None} /\ (activeProject = None <=> Live(projects) = {})
          /\ \A x \in Live(projects) : projects[x].activeTab \in TabsOf(x) \cup {None}
      BY DEF AllKept, ActivesKept
    <2>2. \A x \in Live(projects) : projects'[x].activeTab \in TabsOf(x) \cup {None}
      BY <1>5, <1>8, <2>1
    <2>3. \A x \in Live(projects)' : projects'[x].activeTab \in TabsOf(x)' \cup {None}
      BY <1>3, <1>7, <2>2
    <2>4. activeTab' \in Live(tabs)' /\ activeProject' = activeProject
      BY <1>2, <1>7
    <2> QED BY <1>3, <2>1, <2>3, <2>4 DEF ActivesKept
  <1> QED BY <1>6, <1>9 DEF AllKept

\* SwitchProject.
LEMMA SwitchProjectKeeps ==
  ASSUME AllKept, NEW p, SwitchProject(p)
  PROVE  AllKept'
  <1>1. PICK t : t = LandingTab(p)
    OBVIOUS
  <1>2. /\ p \in Live(projects) /\ activeProject' = p
        /\ activeTab' = IF t = None THEN activeTab ELSE t
        /\ projects' = IF t = None THEN projects ELSE [projects EXCEPT ![p].activeTab = t]
        /\ UNCHANGED <<tabs, tabOrder, panes, projectOrder>>
    BY <1>1 DEF SwitchProject
  <1>3. /\ \A x \in Live(projects) : projects[x] \in ProjectRecord /\ projects[x].activeTab \in TabsOf(x) \cup {None}
        /\ p \in Projects /\ Live(tabs) \subseteq Tabs /\ None \notin Tabs /\ None \notin Projects
        /\ Enumerates(projects[p].tabIDs, TabsOf(p)) /\ projects[p].tabIDs \in Seq(Tabs)
    BY <1>2, SessionAssumption DEF AllKept, ProjectsKept, ActivesKept, ListsKept, TabsKept, ProjectRecord
  <1>4. t = None \/ t \in TabsOf(p)
    <2>1. projects[p].tabIDs # <<>> => Head(projects[p].tabIDs) \in TabsOf(p)
      BY <1>3, ListedMember
    <2>2. CASE projects[p].activeTab \in Live(tabs)
      <3>1. t = projects[p].activeTab
        BY <1>1, <2>2 DEF LandingTab
      <3> QED BY <1>2, <1>3, <3>1
    <2>3. CASE projects[p].activeTab \notin Live(tabs)
      <3>1. t = FirstOrNone(projects[p].tabIDs)
        BY <1>1, <2>3 DEF LandingTab
      <3>2. t = IF projects[p].tabIDs = <<>> THEN None ELSE Head(projects[p].tabIDs)
        BY <3>1 DEF FirstOrNone
      <3> QED BY <2>1, <3>2
    <2> QED BY <2>2, <2>3
  <1>5. \A x \in Live(projects) : TabsOf(x) \subseteq Live(tabs)
    BY DEF TabsOf
  <1>6. /\ Live(projects)' = Live(projects)
        /\ \A x \in Live(projects) : projects'[x] = IF x = p /\ t # None THEN [projects[x] EXCEPT !.activeTab = t]
                                                    ELSE projects[x]
    BY <1>2 DEF Live
  <1>7. ASSUME NEW x \in Live(projects)
        PROVE  /\ projects'[x] \in ProjectRecord /\ projects'[x].tabIDs = projects[x].tabIDs
               /\ projects'[x].activeTab = IF x = p /\ t # None THEN t ELSE projects[x].activeTab
    BY <1>2, <1>3, <1>4, <1>5, <1>6, SMTT(20) DEF ProjectRecord
  <1>8. TabsKept' /\ PanesKept' /\ ProjectsKept' /\ ListsKept'
    BY <1>2, <1>6, <1>7, ListsStay
  <1>9. Live(tabs)' = Live(tabs) /\ \A x \in Live(projects) : TabsOf(x)' = TabsOf(x)
    BY <1>2 DEF TabsOf, Live
  <1>10. \A x \in Live(projects)' : projects'[x].activeTab \in TabsOf(x)' \cup {None}
    BY <1>3, <1>4, <1>6, <1>7, <1>9
  <1>12. activeTab' \in Live(tabs)' \cup {None}
    BY <1>2, <1>4, <1>5, <1>9 DEF AllKept, ActivesKept
  <1>11. ActivesKept'
    BY <1>2, <1>3, <1>6, <1>10, <1>12 DEF ActivesKept
  <1> QED BY <1>8, <1>11 DEF AllKept

\* UpdateProject.
LEMMA UpdateProjectKeeps ==
  ASSUME AllKept, NEW p, NEW adopt, UpdateProject(p, adopt)
  PROVE  AllKept'
  <1>2. /\ p \in Live(projects) /\ projects' = [projects EXCEPT ![p].bootstrap = FALSE]
        /\ UNCHANGED <<tabs, tabOrder, panes, projectOrder, activeTab, activeProject>>
    BY DEF UpdateProject
  <1>3. \A x \in Live(projects) : projects[x] \in ProjectRecord
    BY DEF AllKept, ProjectsKept
  <1>4. /\ Live(projects)' = Live(projects)
        /\ \A x \in Live(projects) : projects'[x] = IF x = p THEN [projects[x] EXCEPT !.bootstrap = FALSE] ELSE projects[x]
    BY <1>2 DEF Live
  <1>5. ASSUME NEW x \in Live(projects)
        PROVE  /\ projects'[x] \in ProjectRecord /\ projects'[x].tabIDs = projects[x].tabIDs
               /\ projects'[x].activeTab = projects[x].activeTab
    BY <1>3, <1>4 DEF ProjectRecord
  <1>6. TabsKept' /\ PanesKept' /\ ProjectsKept' /\ ListsKept'
    BY <1>2, <1>4, <1>5, ListsStay
  <1>7. Live(tabs)' = Live(tabs) /\ \A x \in Live(projects) : TabsOf(x)' = TabsOf(x)
    BY <1>2 DEF TabsOf, Live
  <1>8. ActivesKept'
    BY <1>2, <1>4, <1>5, <1>7 DEF AllKept, ActivesKept
  <1> QED BY <1>6, <1>8 DEF AllKept

\* ReorderProject.
LEMMA ReorderProjectKeeps ==
  ASSUME AllKept, NEW p, NEW idx \in Int, ReorderProject(p, idx)
  PROVE  AllKept'
  <1>1. PICK w : w = SlideString(projectOrder, p, idx)
    OBVIOUS
  <1>2. p \in Live(projects) /\ projectOrder' = w /\ UNCHANGED <<tabs, tabOrder, panes, projects, activeTab, activeProject>>
    BY <1>1 DEF ReorderProject
  <1>3. w \in Seq(Projects) /\ Enumerates(w, Live(projects))
    BY <1>1, <1>2, SlideSound DEF AllKept, ProjectsKept
  <1>4. TabsKept' /\ PanesKept' /\ ListsKept' /\ ActivesKept'
    <2>1. Live(tabs)' = Live(tabs) /\ Live(panes)' = Live(panes) /\ Live(projects)' = Live(projects)
      BY <1>2 DEF Live
    <2>2. \A x : TabsOf(x)' = TabsOf(x) /\ PanesOf(x)' = PanesOf(x)
      BY <1>2, <2>1 DEF TabsOf, PanesOf
    <2> QED BY <1>2, <2>1, <2>2 DEF AllKept, TabsKept, PanesKept, ListsKept, ActivesKept
  <1>5. ProjectsKept'
    BY <1>2, <1>3 DEF AllKept, ProjectsKept, Live
  <1> QED BY <1>4, <1>5 DEF AllKept

\* CreateProject.
LEMMA CreateProjectKeeps ==
  ASSUME AllKept, NEW p, CreateProject(p)
  PROVE  AllKept'
  <1>1. PICK w : w = Append(projectOrder, p)
    OBVIOUS
  <1>2. /\ p \in Projects /\ p \notin Live(projects) /\ p # None
        /\ projects' = [x \in Live(projects) \cup {p} |-> IF x = p THEN NewProject(FALSE) ELSE projects[x]]
        /\ projectOrder' = w /\ activeProject' = IF activeProject = None THEN p ELSE activeProject
        /\ UNCHANGED <<tabs, tabOrder, panes, activeTab>>
    BY <1>1, SessionAssumption DEF CreateProject, Put, Live
  <1>3. /\ Live(projects)' = Live(projects) \cup {p} /\ Live(tabs)' = Live(tabs) /\ Live(panes)' = Live(panes)
        /\ projects'[p] = NewProject(FALSE) /\ \A x \in Live(projects) : projects'[x] = projects[x]
    BY <1>2 DEF Live
  <1>4. \A x : TabsOf(x)' = TabsOf(x) /\ PanesOf(x)' = PanesOf(x)
    BY <1>2, <1>3 DEF TabsOf, PanesOf
  <1>5. TabsKept'
    <2>1. \A t \in Live(tabs) : tabs[t] \in TabRecord /\ tabs[t].project \in Live(projects)
      BY DEF AllKept, TabsKept
    <2>2. \A t \in Live(tabs)' : tabs'[t] \in TabRecord /\ tabs'[t].project \in Live(projects)'
      BY <1>2, <1>3, <2>1
    <2> QED BY <1>2, <1>3, <2>2 DEF AllKept, TabsKept
  <1>6. PanesKept'
    BY <1>2, <1>3, <1>4 DEF AllKept, PanesKept
  <1>7. /\ NewProject(FALSE) \in ProjectRecord
        /\ NewProject(FALSE).tabIDs = <<>> /\ NewProject(FALSE).activeTab = None
    BY DEF NewProject, ProjectRecord
  <1>8. ProjectsKept'
    <2>1. w \in Seq(Projects) /\ Enumerates(w, Live(projects) \cup {p})
      BY <1>1, <1>2, AppendSound DEF AllKept, ProjectsKept
    <2>2. \A x \in Live(projects)' : projects'[x] \in ProjectRecord
      BY <1>3, <1>7 DEF AllKept, ProjectsKept
    <2> QED BY <1>2, <1>3, <2>1, <2>2 DEF AllKept, ProjectsKept
  <1>9. TabsOf(p) = {}
    BY <1>2 DEF TabsOf, AllKept, TabsKept
  <1>10. ListsKept'
    <2>1. Enumerates(projects'[p].tabIDs, TabsOf(p)')
      BY <1>3, <1>4, <1>7, <1>9, EmptyList
    <2>2. Follows(tabOrder', projects'[p].tabIDs, TabsOf(p)')
      BY <1>4, <1>9 DEF Follows
    <2> QED BY <1>2, <1>3, <1>4, <2>1, <2>2 DEF AllKept, ListsKept
  <1>11. ActivesKept'
    BY <1>2, <1>3, <1>4, <1>7 DEF AllKept, ActivesKept
  <1> QED BY <1>5, <1>6, <1>8, <1>10, <1>11 DEF AllKept

\* ReorderTab.
LEMMA ReorderTabKeeps ==
  ASSUME AllKept, NEW t, NEW idx \in Int, ReorderTab(t, idx)
  PROVE  AllKept'
  <1>1. PICK p, ids, u, w : /\ p = tabs[t].project /\ ids = projects[p].tabIDs
                            /\ u = SlideString(ids, t, idx) /\ w = ReanchorTab(tabOrder, u, t)
    OBVIOUS
  <1>2. /\ t \in Live(tabs) /\ p \in Live(projects)
        /\ projects' = [projects EXCEPT ![p].tabIDs = u] /\ tabOrder' = w
        /\ UNCHANGED <<tabs, panes, projectOrder, activeTab, activeProject>>
    BY <1>1 DEF ReorderTab, AllKept, TabsKept
  <1>3. PICK S, P : S = Live(tabs) /\ P = TabsOf(p)
    OBVIOUS
  <1>4. /\ tabOrder \in Seq(Tabs) /\ Enumerates(tabOrder, S) /\ ids \in Seq(Tabs) /\ Enumerates(ids, P)
        /\ Follows(tabOrder, ids, P) /\ t \in P /\ P \subseteq S
    BY <1>1, <1>2, <1>3 DEF AllKept, TabsKept, ListsKept, ProjectsKept, ProjectRecord, TabsOf
  <1>5. u \in Seq(Tabs) /\ Enumerates(u, P) /\ Follows(ids, u, P \ {t})
    BY <1>1, <1>4, SlideSound
  <1>6. Follows(tabOrder, u, P \ {t})
    BY <1>4, <1>5 DEF Follows
  <1>7. w \in Seq(Tabs) /\ Enumerates(w, S) /\ Follows(w, u, P) /\ SameOrder(w, tabOrder, S \ {t})
    BY <1>1, <1>4, <1>5, <1>6, ReanchorSound
  <1>8. /\ Live(projects)' = Live(projects) /\ Live(tabs)' = Live(tabs) /\ Live(panes)' = Live(panes)
        /\ \A x \in Live(projects) : projects'[x] = IF x = p THEN [projects[x] EXCEPT !.tabIDs = u] ELSE projects[x]
    BY <1>2 DEF Live
  <1>9. \A x \in Live(projects) : projects[x] \in ProjectRecord
    BY DEF AllKept, ProjectsKept
  <1>10. ASSUME NEW x \in Live(projects)
         PROVE  /\ projects'[x] \in ProjectRecord /\ projects'[x].activeTab = projects[x].activeTab
                /\ projects'[x].tabIDs = IF x = p THEN u ELSE projects[x].tabIDs
    <2>1. CASE x = p
      <3>1. projects'[x] = [projects[x] EXCEPT !.tabIDs = u] /\ projects[x] \in ProjectRecord
        BY <1>8, <1>9, <2>1
      <3> QED BY <1>5, <2>1, <3>1 DEF ProjectRecord
    <2>2. CASE x # p
      BY <1>8, <1>9, <2>2
    <2> QED BY <2>1, <2>2
  <1>11. \A x : TabsOf(x)' = TabsOf(x) /\ PanesOf(x)' = PanesOf(x)
    BY <1>2, <1>8 DEF TabsOf, PanesOf
  <1>12. TabsKept' /\ PanesKept'
    BY <1>2, <1>3, <1>7, <1>8, <1>11 DEF AllKept, TabsKept, PanesKept
  <1>13. ProjectsKept' /\ ActivesKept'
    BY <1>2, <1>8, <1>10, <1>11 DEF AllKept, ProjectsKept, ActivesKept
  <1>14. ASSUME NEW x \in Live(projects)
         PROVE  Enumerates(projects'[x].tabIDs, TabsOf(x)') /\ Follows(tabOrder', projects'[x].tabIDs, TabsOf(x)')
    <2>1. CASE x = p
      BY <1>2, <1>3, <1>5, <1>7, <1>10, <1>11, <2>1
    <2>2. CASE x # p
      <3>1. projects'[x].tabIDs = projects[x].tabIDs /\ TabsOf(x)' = TabsOf(x) /\ tabOrder' = w
        BY <1>2, <1>10, <1>11, <2>2
      <3>2. Enumerates(projects[x].tabIDs, TabsOf(x)) /\ Follows(tabOrder, projects[x].tabIDs, TabsOf(x))
        BY DEF AllKept, ListsKept
      <3>3. TabsOf(x) \subseteq S \ {t}
        BY <1>1, <1>3, <2>2 DEF TabsOf
      <3>4. Follows(w, projects[x].tabIDs, TabsOf(x))
        BY <1>7, <3>2, <3>3, FollowsSame
      <3> QED BY <3>1, <3>2, <3>4
    <2> QED BY <2>1, <2>2
  <1>15. ListsKept'
    BY <1>8, <1>14 DEF ListsKept
  <1> QED BY <1>12, <1>13, <1>15 DEF AllKept

\* CreateTab, and the project it makes up when there is none.
LEMMA CreateTabKeeps ==
  ASSUME AllKept, NEW p, NEW t, NEW boot, CreateTab(p, t, boot)
  PROVE  AllKept' /\ (activeProject' # activeProject =>
                        activeProject' \in Live(projects)' /\ Contains(projects'[activeProject'].tabIDs, activeTab'))
  <1>1. PICK g, known : /\ g = TabTarget(p, boot)
                        /\ known = IF g \in Live(projects) THEN projects ELSE Put(projects, g, NewProject(TRUE))
    OBVIOUS
  <1>2. /\ t \in Tabs /\ t \notin Live(tabs) /\ g \in Projects
        /\ projects' = [known EXCEPT ![g].tabIDs = Append(@, t), ![g].activeTab = IF @ = None THEN t ELSE @]
        /\ projectOrder' = IF g \in Live(projects) THEN projectOrder ELSE Append(projectOrder, g)
        /\ activeProject' = IF p \in Live(projects) THEN activeProject ELSE g
        /\ tabs' = Put(tabs, t, [panes |-> <<>>, project |-> g])
        /\ tabOrder' = Append(tabOrder, t)
        /\ activeTab' = IF activeTab = None THEN t ELSE activeTab
        /\ panes' = panes
    BY <1>1 DEF CreateTab
  <1>3. t # None /\ g # None
    BY <1>2, SessionAssumption
  <1>4. PICK old, u, w, a : /\ old = (IF g \in Live(projects) THEN projects[g] ELSE NewProject(TRUE))
                            /\ u = Append(old.tabIDs, t) /\ w = Append(tabOrder, t)
                            /\ a = IF old.activeTab = None THEN t ELSE old.activeTab
    OBVIOUS
  <1>5. DOMAIN known = Live(projects) \cup {g} /\ known[g] = old /\ \A x \in Live(projects) \ {g} : known[x] = projects[x]
    BY <1>1, <1>4 DEF Put, Live
  <1>6. /\ Live(projects)' = Live(projects) \cup {g}
        /\ \A x \in Live(projects) \ {g} : projects'[x] = projects[x]
        /\ projects'[g] = [[old EXCEPT !.tabIDs = u] EXCEPT !.activeTab = a]
    <2>1. DOMAIN projects' = DOMAIN known /\ \A x \in DOMAIN known \ {g} : projects'[x] = known[x]
      BY <1>2
    <2>2. projects'[g] = [known[g] EXCEPT !.tabIDs = Append(@, t), !.activeTab = IF @ = None THEN t ELSE @]
      BY <1>2, <1>5
    <2> QED BY <1>4, <1>5, <2>1, <2>2 DEF Live
  <1>7. PICK S, P : S = Live(tabs) /\ P = TabsOf(g)
    OBVIOUS
  <1>8. /\ old \in ProjectRecord /\ old.tabIDs \in Seq(Tabs) /\ Enumerates(old.tabIDs, P)
        /\ Follows(tabOrder, old.tabIDs, P) /\ old.activeTab \in P \cup {None}
    <2>1. CASE g \in Live(projects)
      BY <1>4, <1>7, <2>1 DEF AllKept, ProjectsKept, ListsKept, ActivesKept, ProjectRecord
    <2>2. CASE g \notin Live(projects)
      <3>1. old.tabIDs = <<>> /\ old.activeTab = None /\ old \in ProjectRecord
        BY <1>4, <2>2 DEF NewProject, ProjectRecord
      <3>2. P = {}
        BY <1>7, <2>2 DEF TabsOf, AllKept, TabsKept
      <3>3. old.tabIDs \in Seq(Tabs) /\ Enumerates(old.tabIDs, P)
        BY <3>1, <3>2, EmptyList
      <3> QED BY <3>1, <3>2, <3>3 DEF Follows
    <2> QED BY <2>1, <2>2
  <1>9. tabOrder \in Seq(Tabs) /\ Enumerates(tabOrder, S) /\ P \subseteq S /\ t \notin S /\ t \notin P /\ S \subseteq Tabs
    BY <1>2, <1>7 DEF AllKept, TabsKept, TabsOf
  <1>10. w \in Seq(Tabs) /\ Enumerates(w, S \cup {t}) /\ SameOrder(w, tabOrder, S)
    BY <1>2, <1>4, <1>9, AppendSound
  <1>11. u \in Seq(Tabs) /\ Enumerates(u, P \cup {t}) /\ Follows(w, u, P \cup {t})
    <2>1. PICK ids : ids = old.tabIDs
      OBVIOUS
    <2>2. u = Append(ids, t) /\ ids \in Seq(Tabs) /\ Enumerates(ids, P) /\ Follows(tabOrder, ids, P)
      BY <1>4, <1>8, <2>1
    <2>3. u \in Seq(Tabs) /\ Enumerates(u, P \cup {t})
      BY <1>2, <1>9, <2>2, AppendSound
    <2>4. Follows(w, u, P \cup {t})
      BY <1>2, <1>4, <1>9, <2>2, AppendFollows
    <2> QED BY <2>3, <2>4
  <1>12. a \in P \cup {t} /\ a \in Tabs
    BY <1>2, <1>4, <1>8, <1>9
  <1>13. /\ projects'[g] \in ProjectRecord /\ projects'[g].tabIDs = u /\ projects'[g].activeTab = a
    BY <1>6, <1>8, <1>11, <1>12 DEF ProjectRecord
  <1>14. /\ Live(tabs)' = S \cup {t} /\ tabs'[t] = [panes |-> <<>>, project |-> g]
         /\ \A x \in S : tabs'[x] = tabs[x]
    BY <1>2, <1>7, <1>9 DEF Put, Live
  <1>15. /\ TabsOf(g)' = P \cup {t} /\ \A x : x # g => TabsOf(x)' = TabsOf(x)
    BY <1>7, <1>9, <1>14 DEF TabsOf
  <1>16. TabsKept'
    <2>1. ASSUME NEW x \in Live(tabs)' PROVE tabs'[x] \in TabRecord /\ tabs'[x].project \in Live(projects)'
      <3>1. CASE x = t
        <4>1. PICK e : e = <<>>
          OBVIOUS
        <4>3. e \in Seq(Panes) /\ g \in Projects
          BY <1>2, <4>1
        <4>4. tabs'[x] = [panes |-> e, project |-> g]
          BY <1>14, <3>1, <4>1
        <4>2. tabs'[x] \in TabRecord /\ tabs'[x].project = g
          BY <4>3, <4>4 DEF TabRecord
        <4> QED BY <1>6, <4>2
      <3>2. CASE x # t
        <4>1. x \in Live(tabs) /\ tabs'[x] = tabs[x]
          BY <1>7, <1>14, <3>2
        <4> QED BY <1>6, <4>1 DEF AllKept, TabsKept
      <3> QED BY <3>1, <3>2
    <2> QED BY <1>2, <1>4, <1>9, <1>10, <1>14, <2>1 DEF TabsKept
  <1>17. PanesKept'
    <2>1. Live(panes)' = Live(panes) /\ \A x : PanesOf(x)' = PanesOf(x)
      BY <1>2 DEF Live, PanesOf
    <2>2. PanesOf(t) = {} /\ tabs'[t].panes = <<>>
      BY <1>2, <1>14 DEF PanesOf, AllKept, PanesKept
    <2>3. Enumerates(tabs'[t].panes, PanesOf(t)')
      BY <2>1, <2>2, EmptyList
    <2>4. \A x \in S : Enumerates(tabs'[x].panes, PanesOf(x)')
      BY <1>7, <1>14, <2>1 DEF AllKept, PanesKept
    <2>5. \A q \in Live(panes) : panes'[q] \in PaneRecord /\ panes'[q].tab \in Live(tabs)'
      BY <1>2, <1>7, <1>14 DEF AllKept, PanesKept
    <2> QED BY <1>14, <2>1, <2>3, <2>4, <2>5 DEF AllKept, PanesKept
  <1>18. ProjectsKept'
    <2>1. projectOrder' \in Seq(Projects) /\ Enumerates(projectOrder', Live(projects) \cup {g})
      <3>1. CASE g \in Live(projects)
        <4>1. Live(projects) \cup {g} = Live(projects) /\ projectOrder' = projectOrder
          BY <1>2, <3>1
        <4> QED BY <4>1 DEF AllKept, ProjectsKept
      <3>2. CASE g \notin Live(projects)
        BY <1>2, <3>2, AppendSound DEF AllKept, ProjectsKept
      <3> QED BY <3>1, <3>2
    <2>2. \A x \in Live(projects)' : projects'[x] \in ProjectRecord
      BY <1>6, <1>13 DEF AllKept, ProjectsKept
    <2> QED BY <1>2, <1>6, <2>1, <2>2 DEF AllKept, ProjectsKept
  <1>19. ASSUME NEW x \in Live(projects)'
         PROVE  Enumerates(projects'[x].tabIDs, TabsOf(x)') /\ Follows(tabOrder', projects'[x].tabIDs, TabsOf(x)')
    <2>1. CASE x = g
      BY <1>2, <1>4, <1>11, <1>13, <1>15, <2>1
    <2>2. CASE x # g
      <3>1. x \in Live(projects) /\ projects'[x].tabIDs = projects[x].tabIDs /\ TabsOf(x)' = TabsOf(x) /\ tabOrder' = w
        BY <1>2, <1>4, <1>6, <1>15, <2>2
      <3>2. Enumerates(projects[x].tabIDs, TabsOf(x)) /\ Follows(tabOrder, projects[x].tabIDs, TabsOf(x))
        BY <3>1 DEF AllKept, ListsKept
      <3>3. TabsOf(x) \subseteq S
        BY <1>7 DEF TabsOf
      <3>4. Follows(w, projects[x].tabIDs, TabsOf(x))
        BY <1>10, <3>2, <3>3, FollowsSame
      <3> QED BY <3>1, <3>2, <3>4
    <2> QED BY <2>1, <2>2
  <1>20. ListsKept'
    BY <1>19 DEF ListsKept
  <1>21. p \notin Live(projects) /\ activeProject \notin Live(projects) => Live(projects) = {} /\ S = {} /\ activeTab = None
    BY <1>7 DEF AllKept, ActivesKept, TabsKept
  <1>22. p \notin Live(projects) /\ activeProject \in Live(projects) => g = activeProject
    BY <1>1 DEF TabTarget
  <1>23. ActivesKept'
    <2>1. activeTab' \in Live(tabs)' \cup {None}
      BY <1>2, <1>7, <1>14 DEF AllKept, ActivesKept
    <2>2. activeProject' \in Live(projects)' \cup {None} /\ (activeProject' = None <=> Live(projects)' = {})
      BY <1>2, <1>3, <1>6 DEF AllKept, ActivesKept
    <2>3. \A x \in Live(projects)' : projects'[x].activeTab \in TabsOf(x)' \cup {None}
      BY <1>6, <1>12, <1>13, <1>15 DEF AllKept, ActivesKept
    <2> QED BY <2>1, <2>2, <2>3 DEF ActivesKept
  <1>24. ASSUME activeProject' # activeProject
         PROVE  activeProject' \in Live(projects)' /\ Contains(projects'[activeProject'].tabIDs, activeTab')
    <2>1. p \notin Live(projects) /\ activeProject \notin Live(projects) /\ activeProject' = g
      BY <1>2, <1>22, <1>24
    <2>2. activeTab' = t
      BY <1>2, <1>21, <2>1
    <2>3. Contains(u, t)
      BY <1>11, ListedMember
    <2> QED BY <1>6, <1>13, <2>1, <2>2, <2>3
  <1> QED BY <1>16, <1>17, <1>18, <1>20, <1>23, <1>24 DEF AllKept

\* DestroyTab.
LEMMA DestroyTabKeeps ==
  ASSUME AllKept, NEW t, DestroyTab(t)
  PROVE  AllKept'
  <1>1. PICK p, ids, u, w, next : /\ p = tabs[t].project /\ ids = projects[p].tabIDs
                                  /\ u = RemoveString(ids, t) /\ w = RemoveString(tabOrder, t)
                                  /\ next = Successor(t)
    OBVIOUS
  <1>2. PICK gone : gone = ToSet(tabs[t].panes)
    OBVIOUS
  <1>3. /\ t \in Live(tabs) /\ panes' = Without(panes, gone) /\ tabs' = Without(tabs, {t}) /\ tabOrder' = w
        /\ projects' = [projects EXCEPT ![p].tabIDs = RemoveString(@, t),
                                        ![p].activeTab = IF @ = t THEN next ELSE @]
        /\ activeTab' = IF activeTab # t THEN activeTab ELSE IF next # None THEN next ELSE FirstOrNone(w)
        /\ UNCHANGED <<projectOrder, activeProject>>
    BY <1>1, <1>2 DEF DestroyTab
  <1>4. PICK S, P : S = Live(tabs) /\ P = TabsOf(p)
    OBVIOUS
  <1>5. /\ tabOrder \in Seq(Tabs) /\ Enumerates(tabOrder, S) /\ p \in Live(projects) /\ projects[p] \in ProjectRecord
        /\ ids \in Seq(Tabs) /\ Enumerates(ids, P) /\ Follows(tabOrder, ids, P) /\ t \in P /\ P \subseteq S
        /\ S \subseteq Tabs /\ None \notin Tabs /\ projects[p].activeTab \in P \cup {None}
    BY <1>1, <1>3, <1>4, SessionAssumption
    DEF AllKept, TabsKept, ListsKept, ProjectsKept, ActivesKept, ProjectRecord, TabsOf
  <1>6. w \in Seq(Tabs) /\ Enumerates(w, S \ {t})
    BY <1>1, <1>5, RemoveSound
  <1>7. u \in Seq(Tabs) /\ Enumerates(u, P \ {t}) /\ Len(u) = Len(ids) - 1
    <2>1. u = RemoveString(ids, t)
      BY <1>1
    <2>2. ids \in Seq(Tabs) /\ Enumerates(ids, P) /\ t \in P
      BY <1>5
    <2> QED BY <2>1, <2>2, RemoveSound
  <1>8. Follows(w, u, P \ {t}) /\ SameOrder(w, tabOrder, S \ {t})
    BY <1>1, <1>5, RemoveFollows
  <1>9. next \in (P \ {t}) \cup {None}
    <2>1. PICK at \in 1 .. Len(ids) : at = IndexOf(ids, t)
      <3>1. Contains(ids, t)
        BY <1>5, ListedMember
      <3> QED BY <1>5, <3>1, IndexIs
    <2>2. next = IF u = <<>> THEN None ELSE u[IF at > Len(u) THEN Len(u) ELSE at]
      BY <1>1, <2>1 DEF Successor
    <2>3. CASE u = <<>>
      BY <2>2, <2>3
    <2>4. CASE u # <<>>
      <3>1. PICK k : k = IF at > Len(u) THEN Len(u) ELSE at
        OBVIOUS
      <3>2. k \in 1 .. Len(u)
        BY <1>7, <2>1, <2>4, <3>1
      <3>3. u[k] \in P \ {t}
        BY <1>7, <3>2, ListedMember
      <3> QED BY <2>2, <2>4, <3>1, <3>3
    <2> QED BY <2>3, <2>4
  <1>10. PICK a : a = IF projects[p].activeTab = t THEN next ELSE projects[p].activeTab
    OBVIOUS
  <1>11. a \in (P \ {t}) \cup {None}
    BY <1>5, <1>9, <1>10
  <1>12. /\ Live(projects)' = Live(projects) /\ \A x \in Live(projects) \ {p} : projects'[x] = projects[x]
         /\ projects'[p] = [[projects[p] EXCEPT !.tabIDs = u] EXCEPT !.activeTab = a]
    BY <1>1, <1>3, <1>5, <1>10 DEF Live
  <1>13. projects'[p] \in ProjectRecord /\ projects'[p].tabIDs = u /\ projects'[p].activeTab = a
    BY <1>5, <1>7, <1>11, <1>12 DEF ProjectRecord
  <1>14. Live(tabs)' = S \ {t} /\ \A x \in S \ {t} : tabs'[x] = tabs[x]
    BY <1>3, <1>4 DEF Without, Live
  <1>15. TabsOf(p)' = P \ {t} /\ \A x : x # p => TabsOf(x)' = TabsOf(x) /\ TabsOf(x) \subseteq S \ {t}
    BY <1>1, <1>4, <1>14 DEF TabsOf
  <1>16. TabsKept'
    <2>1. \A x \in Live(tabs)' : tabs'[x] \in TabRecord /\ tabs'[x].project \in Live(projects)'
      BY <1>4, <1>12, <1>14 DEF AllKept, TabsKept
    <2> QED BY <1>3, <1>5, <1>6, <1>14, <2>1 DEF TabsKept
  <1>17. PanesKept'
    <2>1. gone = PanesOf(t) /\ gone \subseteq Live(panes)
      BY <1>2, <1>3 DEF AllKept, PanesKept, Enumerates, PanesOf
    <2>2. Live(panes)' = Live(panes) \ gone /\ \A q \in Live(panes) \ gone : panes'[q] = panes[q]
      BY <1>3 DEF Without, Live
    <2>3. \A q \in Live(panes)' : panes'[q] \in PaneRecord /\ panes'[q].tab \in Live(tabs)'
      BY <1>4, <1>14, <2>1, <2>2 DEF AllKept, PanesKept, PanesOf
    <2>4. \A x \in S \ {t} : PanesOf(x)' = PanesOf(x)
      BY <2>1, <2>2 DEF PanesOf
    <2>5. \A x \in S \ {t} : Enumerates(tabs'[x].panes, PanesOf(x)')
      BY <1>4, <1>14, <2>4 DEF AllKept, PanesKept
    <2> QED BY <1>14, <2>2, <2>3, <2>5 DEF AllKept, PanesKept
  <1>18. ProjectsKept'
    BY <1>3, <1>12, <1>13 DEF AllKept, ProjectsKept
  <1>19. ASSUME NEW x \in Live(projects)'
         PROVE  Enumerates(projects'[x].tabIDs, TabsOf(x)') /\ Follows(tabOrder', projects'[x].tabIDs, TabsOf(x)')
    <2>1. CASE x = p
      BY <1>3, <1>7, <1>8, <1>13, <1>15, <2>1
    <2>2. CASE x # p
      <3>1. x \in Live(projects) /\ projects'[x].tabIDs = projects[x].tabIDs /\ TabsOf(x)' = TabsOf(x) /\ tabOrder' = w
        BY <1>3, <1>12, <1>15, <2>2
      <3>2. Enumerates(projects[x].tabIDs, TabsOf(x)) /\ Follows(tabOrder, projects[x].tabIDs, TabsOf(x))
        BY <3>1 DEF AllKept, ListsKept
      <3>3. TabsOf(x) \subseteq S \ {t}
        BY <1>15, <2>2
      <3>4. Follows(w, projects[x].tabIDs, TabsOf(x))
        BY <1>8, <3>2, <3>3, FollowsSame
      <3> QED BY <3>1, <3>2, <3>4
    <2> QED BY <2>1, <2>2
  <1>20. ListsKept'
    BY <1>19 DEF ListsKept
  <1>21. ActivesKept'
    <2>1. FirstOrNone(w) \in (S \ {t}) \cup {None}
      <3>1. w # <<>> => Head(w) \in S \ {t}
        BY <1>6, ListedMember
      <3> QED BY <3>1 DEF FirstOrNone
    <2>2. activeTab' \in Live(tabs)' \cup {None}
      BY <1>3, <1>4, <1>5, <1>9, <1>14, <2>1 DEF AllKept, ActivesKept
    <2>3. \A x \in Live(projects)' : projects'[x].activeTab \in TabsOf(x)' \cup {None}
      BY <1>11, <1>12, <1>13, <1>15 DEF AllKept, ActivesKept
    <2> QED BY <1>3, <1>12, <2>2, <2>3 DEF AllKept, ActivesKept
  <1> QED BY <1>16, <1>17, <1>18, <1>20, <1>21 DEF AllKept

\* DestroyProject.
LEMMA DestroyProjectKeeps ==
  ASSUME AllKept, NEW p, DestroyProject(p)
  PROVE  AllKept' /\ (activeProject' # activeProject /\ activeProject' # None =>
                        /\ activeProject' \in Live(projects)'
                        /\ \/ projects'[activeProject'].tabIDs = <<>>
                           \/ Contains(projects'[activeProject'].tabIDs, activeTab'))
  <1>1. PICK ids, gone, rest, order, active, w :
           /\ ids = projects[p].tabIDs /\ gone = ToSet(ids) /\ rest = Without(projects, {p})
           /\ order = RemoveString(projectOrder, p)
           /\ active = (IF activeProject = p THEN FirstOrNone(order) ELSE activeProject)
           /\ w = RemoveEach(tabOrder, ids, Live(tabs))
    OBVIOUS
  <1>2. PICK dead : dead = {q \in Live(panes) : panes[q].tab \in gone}
    OBVIOUS
  <1>3. /\ p \in Live(projects) /\ panes' = Without(panes, dead) /\ tabs' = Without(tabs, gone) /\ tabOrder' = w
        /\ projects' = rest /\ projectOrder' = order /\ activeProject' = active
        /\ activeTab' = IF active \notin Live(rest) THEN None
                        ELSE IF rest[active].activeTab # None THEN rest[active].activeTab
                        ELSE FirstOrNone(rest[active].tabIDs)
    BY <1>1, <1>2 DEF DestroyProject
  <1>4. PICK S, D : S = Live(tabs) /\ D = S \ gone
    OBVIOUS
  <1>5. /\ tabOrder \in Seq(Tabs) /\ Enumerates(tabOrder, S) /\ S \subseteq Tabs /\ ids \in Seq(Tabs)
        /\ Enumerates(ids, gone) /\ gone = TabsOf(p) /\ gone \subseteq S /\ None \notin Tabs /\ None \notin Projects
    BY <1>1, <1>3, <1>4, SessionAssumption
    DEF AllKept, TabsKept, ListsKept, ProjectsKept, ProjectRecord, TabsOf, Enumerates
  <1>6. w \in Seq(Tabs) /\ Enumerates(w, D) /\ SameOrder(w, tabOrder, D)
    <2>1. gone = Taken(ids, S)
      BY <1>1, <1>5 DEF ToSet, Taken
    <2>2. w = RemoveEach(tabOrder, ids, S) /\ Len(ids) \in Nat
      BY <1>1, <1>4, <1>5
    <2>3. D = S \ Taken(ids, S)
      BY <1>4, <2>1
    <2> QED BY <1>5, <2>2, <2>3, RemoveEachSound
  <1>7. /\ Live(projects)' = Live(projects) \ {p} /\ Live(rest) = Live(projects) \ {p}
        /\ \A x \in Live(projects) \ {p} : projects'[x] = projects[x] /\ rest[x] = projects[x]
    BY <1>1, <1>3 DEF Without, Live
  <1>8. order \in Seq(Projects) /\ Enumerates(order, Live(projects) \ {p})
    BY <1>1, <1>3, RemoveSound DEF AllKept, ProjectsKept
  <1>9. /\ Live(tabs)' = D /\ \A x \in D : tabs'[x] = tabs[x]
        /\ Live(panes)' = Live(panes) \ dead /\ \A q \in Live(panes) \ dead : panes'[q] = panes[q]
    BY <1>3, <1>4 DEF Without, Live
  <1>10. \A x \in Live(projects) \ {p} : TabsOf(x)' = TabsOf(x) /\ TabsOf(x) \subseteq D
    BY <1>4, <1>5, <1>9 DEF TabsOf
  <1>11. TabsKept'
    <2>1. \A x \in D : tabs[x] \in TabRecord /\ tabs[x].project \in Live(projects) /\ tabs[x].project # p
      BY <1>4, <1>5 DEF AllKept, TabsKept, TabsOf
    <2>2. \A x \in Live(tabs)' : tabs'[x] \in TabRecord /\ tabs'[x].project \in Live(projects)'
      BY <1>7, <1>9, <2>1
    <2> QED BY <1>3, <1>4, <1>5, <1>6, <1>9, <2>2 DEF TabsKept
  <1>12. PanesKept'
    <2>1. \A q \in Live(panes) \ dead : panes[q] \in PaneRecord /\ panes[q].tab \in D
      BY <1>2, <1>4 DEF AllKept, PanesKept
    <2>2. \A q \in Live(panes)' : panes'[q] \in PaneRecord /\ panes'[q].tab \in Live(tabs)'
      BY <1>9, <2>1
    <2>3. \A x \in D : PanesOf(x)' = PanesOf(x)
      BY <1>2, <1>4, <1>9 DEF PanesOf
    <2>4. \A x \in D : Enumerates(tabs'[x].panes, PanesOf(x)')
      BY <1>4, <1>9, <2>3 DEF AllKept, PanesKept
    <2> QED BY <1>9, <2>2, <2>4 DEF AllKept, PanesKept
  <1>13. ProjectsKept'
    BY <1>3, <1>7, <1>8 DEF AllKept, ProjectsKept
  <1>14. ASSUME NEW x \in Live(projects)'
         PROVE  Enumerates(projects'[x].tabIDs, TabsOf(x)') /\ Follows(tabOrder', projects'[x].tabIDs, TabsOf(x)')
    <2>1. x \in Live(projects) /\ projects'[x].tabIDs = projects[x].tabIDs /\ TabsOf(x)' = TabsOf(x) /\ tabOrder' = w
      BY <1>3, <1>7, <1>10
    <2>2. Enumerates(projects[x].tabIDs, TabsOf(x)) /\ Follows(tabOrder, projects[x].tabIDs, TabsOf(x))
      BY <2>1 DEF AllKept, ListsKept
    <2>3. TabsOf(x) \subseteq D
      BY <1>7, <1>10
    <2>4. Follows(w, projects[x].tabIDs, TabsOf(x))
      BY <1>6, <2>2, <2>3, FollowsSame
    <2> QED BY <2>1, <2>2, <2>4
  <1>15. ListsKept'
    BY <1>14 DEF ListsKept
  <1>16. active \in (Live(projects) \ {p}) \cup {None} /\ (active = None <=> Live(projects) \ {p} = {})
    <2>1. /\ order = <<>> <=> Live(projects) \ {p} = {}
          /\ order # <<>> => Head(order) \in Live(projects) \ {p}
      BY <1>8, ListedMember
    <2>2. Live(projects) \subseteq Projects
      BY DEF AllKept, ProjectsKept
    <2>3. CASE activeProject = p
      <3>1. active = IF order = <<>> THEN None ELSE Head(order)
        BY <1>1, <2>3 DEF FirstOrNone
      <3> QED BY <1>5, <2>1, <2>2, <3>1
    <2>4. CASE activeProject # p
      <3>1. active = activeProject
        BY <1>1, <2>4
      <3> QED BY <1>3, <2>2, <2>4, <3>1 DEF AllKept, ActivesKept
    <2> QED BY <2>3, <2>4
  <1>17. activeTab' \in D \cup {None} /\ (active # None => \/ projects'[active].tabIDs = <<>>
                                                           \/ Contains(projects'[active].tabIDs, activeTab'))
    <2>1. CASE active = None
      <3>1. active \notin Live(rest)
        BY <1>5, <1>7, <2>1 DEF AllKept, ProjectsKept
      <3> QED BY <1>3, <2>1, <3>1
    <2>2. CASE active # None
      <3>1. active \in Live(projects) \ {p} /\ active \in Live(rest)
        BY <1>7, <1>16, <2>2
      <3>2. PICK list, last : list = projects[active].tabIDs /\ last = projects[active].activeTab
        OBVIOUS
      <3>3. /\ list \in Seq(Tabs) /\ Enumerates(list, TabsOf(active)) /\ last \in TabsOf(active) \cup {None}
        BY <3>1, <3>2 DEF AllKept, ProjectsKept, ListsKept, ActivesKept, ProjectRecord
      <3>4. /\ list # <<>> => Head(list) \in TabsOf(active)
            /\ \A x : Contains(list, x) <=> x \in TabsOf(active)
        BY <3>3, ListedMember
      <3>5. activeTab' = IF last # None THEN last ELSE IF list = <<>> THEN None ELSE Head(list)
        BY <1>3, <1>7, <3>1, <3>2 DEF FirstOrNone
      <3>6. projects'[active].tabIDs = list /\ TabsOf(active) \subseteq D
        BY <1>7, <1>10, <3>1, <3>2
      <3> QED BY <3>3, <3>4, <3>5, <3>6
    <2> QED BY <2>1, <2>2
  <1>18. ActivesKept'
    <2>1. \A x \in Live(projects)' : projects'[x].activeTab \in TabsOf(x)' \cup {None}
      BY <1>7, <1>10 DEF AllKept, ActivesKept
    <2> QED BY <1>3, <1>7, <1>9, <1>16, <1>17, <2>1 DEF ActivesKept
  <1> QED BY <1>3, <1>7, <1>11, <1>12, <1>13, <1>15, <1>16, <1>17, <1>18 DEF AllKept

\* MergeProjects.
LEMMA MergeProjectsKeeps ==
  ASSUME AllKept, NEW into, NEW n \in Nat, NEW absorb \in [1 .. n -> Projects], MergeProjects(into, absorb)
  PROVE  AllKept' /\ (activeProject' # activeProject =>
                        /\ activeProject' \in Live(projects)'
                        /\ \/ projects'[activeProject'].tabIDs = <<>>
                           \/ Contains(projects'[activeProject'].tabIDs, activeTab'))
  <1>1. PICK own, last, dropped, moved, ids, active, act, w :
           /\ own = projects[into].tabIDs /\ last = projects[into].activeTab
           /\ dropped = Dropped(into, absorb) /\ moved = Moved(into, absorb) /\ ids = own \o moved
           /\ active = (IF activeProject \in dropped THEN into ELSE activeProject)
           /\ act = (IF active = into THEN MergedActive(ids, last) ELSE <<activeTab, last>>)
           /\ w = MovedOrder(ids, Len(own))
    OBVIOUS
  <1>2. /\ into \in Live(projects)
        /\ tabs' = [t \in Live(tabs) |-> IF Contains(moved, t) THEN [tabs[t] EXCEPT !.project = into] ELSE tabs[t]]
        /\ tabOrder' = w
        /\ projects' = [Without(projects, dropped) EXCEPT
                          ![into] = [tabIDs |-> ids, activeTab |-> act[2], bootstrap |-> FALSE]]
        /\ projectOrder' = RemoveEach(projectOrder, absorb, dropped)
        /\ activeProject' = active /\ activeTab' = act[1] /\ panes' = panes
    BY <1>1 DEF MergeProjects
  <1>3. PICK S, P, M, Q : /\ S = Live(tabs) /\ P = TabsOf(into) /\ M = {t \in S : tabs[t].project \in dropped}
                          /\ Q = P \cup M
    OBVIOUS
  <1>4. dropped \subseteq Live(projects) /\ into \notin dropped /\ into \in Projects /\ dropped \subseteq Projects
    BY <1>1, <1>2 DEF Dropped, AllKept, ProjectsKept
  <1>5. absorb \in Seq(Projects) /\ Len(absorb) = n /\ DOMAIN absorb = 1 .. Len(absorb)
    BY SeqDef
  <1>6. moved \in Seq(Tabs) /\ Enumerates(moved, M)
    <2>1. \A p \in Live(projects) :
             /\ projects[p].tabIDs \in Seq(Tabs)
             /\ Enumerates(projects[p].tabIDs, {t \in Live(tabs) : tabs[t].project = p})
      BY DEF AllKept, ProjectsKept, ProjectRecord, ListsKept, TabsOf
    <2>2. /\ Moved(into, absorb) \in Seq(Tabs)
          /\ Enumerates(Moved(into, absorb), {t \in Live(tabs) : tabs[t].project \in Dropped(into, absorb)})
      BY <1>5, <2>1, MovedSound
    <2>3. M = {t \in Live(tabs) : tabs[t].project \in Dropped(into, absorb)}
      BY <1>1, <1>3
    <2> QED BY <1>1, <2>2, <2>3
  <1>7. /\ own \in Seq(Tabs) /\ Enumerates(own, P) /\ Follows(tabOrder, own, P) /\ last \in P \cup {None}
        /\ tabOrder \in Seq(Tabs) /\ Enumerates(tabOrder, S) /\ P \subseteq S /\ S \subseteq Tabs /\ None \notin Tabs
    BY <1>1, <1>2, <1>3, SessionAssumption
    DEF AllKept, TabsKept, ListsKept, ProjectsKept, ActivesKept, ProjectRecord, TabsOf
  <1>8. P \cap M = {} /\ Q \subseteq S
    BY <1>3, <1>4, <1>7 DEF TabsOf
  <1>9. ids \in Seq(Tabs) /\ Enumerates(ids, Q)
    BY <1>1, <1>3, <1>6, <1>7, <1>8, ConcatSound
  <1>10. PICK kept : kept = Len(own)
    OBVIOUS
  <1>11. /\ kept \in Nat /\ Len(moved) \in Nat /\ Len(ids) = kept + Len(moved)
         /\ \A i \in 1 .. kept + Len(moved) : ids[i] = IF i <= kept THEN own[i] ELSE moved[i - kept]
    BY <1>1, <1>6, <1>7, <1>10, ConcatProperties
  <1>12. kept \in 0 .. Len(ids)
    BY <1>11
  <1>13. KeptSorted(ids, kept)
    <2>1. ASSUME NEW i \in 1 .. kept, NEW j \in 1 .. kept, i < j PROVE Before(tabOrder, ids[i], ids[j])
      <3>1. ids[i] = own[i] /\ ids[j] = own[j] /\ i \in 1 .. Len(own) /\ j \in 1 .. Len(own)
        BY <1>10, <1>11
      <3>2. Before(own, own[i], own[j])
        BY <2>1, <3>1 DEF Before
      <3>3. own[i] \in P /\ own[j] \in P
        BY <1>7, <3>1, ListedMember
      <3> QED BY <1>7, <3>1, <3>2, <3>3 DEF Follows
    <2> QED BY <2>1 DEF KeptSorted
  <1>14. M = Movers(ids, kept)
    <2>1. M = {moved[i] : i \in 1 .. Len(moved)}
      BY <1>6 DEF Enumerates, ToSet
    <2>2. \A i \in 1 .. Len(moved) : i + kept \in kept + 1 .. Len(ids) /\ ids[i + kept] = moved[i]
      BY <1>11
    <2>3. \A i \in kept + 1 .. Len(ids) : i - kept \in 1 .. Len(moved) /\ ids[i] = moved[i - kept]
      BY <1>11
    <2>4. PICK N : N = {ids[i] : i \in kept + 1 .. Len(ids)}
      OBVIOUS
    <2>5. M \subseteq N
      BY <2>1, <2>2, <2>4
    <2>6. N \subseteq M
      BY <2>1, <2>3, <2>4
    <2> QED BY <2>4, <2>5, <2>6 DEF Movers
  <1>15. w \in Seq(Tabs) /\ Enumerates(w, S) /\ Follows(w, ids, Q) /\ SameOrder(w, tabOrder, S \ M)
    <2>1. w = MovedOrder(ids, kept)
      BY <1>1, <1>10
    <2> QED BY <1>7, <1>8, <1>9, <1>12, <1>13, <1>14, <2>1, MovedOrderSound
  <1>16. \A t : Contains(moved, t) <=> t \in M
    BY <1>6, ListedMember
  <1>17. /\ Live(tabs)' = S /\ \A t \in S \ M : tabs'[t] = tabs[t]
         /\ \A t \in M : tabs'[t] = [tabs[t] EXCEPT !.project = into]
    BY <1>2, <1>3, <1>16 DEF Live
  <1>18. \A t \in S : tabs[t] \in TabRecord /\ tabs[t].project \in Live(projects)
    BY <1>3 DEF AllKept, TabsKept
  <1>19. /\ \A t \in S : tabs'[t] \in TabRecord /\ tabs'[t].panes = tabs[t].panes
         /\ \A t \in S \ M : tabs'[t].project = tabs[t].project
         /\ \A t \in M : tabs'[t].project = into
    <2>1. ASSUME NEW t \in M
          PROVE  tabs'[t] \in TabRecord /\ tabs'[t].panes = tabs[t].panes /\ tabs'[t].project = into
      BY <1>3, <1>4, <1>17, <1>18 DEF TabRecord
    <2> QED BY <1>17, <1>18, <2>1
  <1>20. PICK rec : rec = [tabIDs |-> ids, activeTab |-> act[2], bootstrap |-> FALSE]
    OBVIOUS
  <1>21. /\ Live(projects)' = Live(projects) \ dropped /\ projects'[into] = rec
         /\ \A p \in Live(projects) \ dropped : p # into => projects'[p] = projects[p]
    BY <1>2, <1>4, <1>20 DEF Without, Live
  <1>22. /\ TabsOf(into)' = Q
         /\ \A p : p # into /\ p \notin dropped => TabsOf(p)' = TabsOf(p) /\ TabsOf(p) \subseteq S \ M
    <2>1. \A t \in S : tabs'[t].project = IF t \in M THEN into ELSE tabs[t].project
      BY <1>19
    <2> QED BY <1>3, <1>17, <2>1 DEF TabsOf
  <1>23. TabsKept'
    <2>1. \A t \in S : tabs'[t].project \in Live(projects) \ dropped
      BY <1>2, <1>3, <1>4, <1>18, <1>19
    <2> QED BY <1>2, <1>7, <1>15, <1>17, <1>19, <1>21, <2>1 DEF TabsKept
  <1>24. PanesKept'
    <2>1. Live(panes)' = Live(panes) /\ \A t : PanesOf(t)' = PanesOf(t)
      BY <1>2 DEF PanesOf, Live
    <2> QED BY <1>2, <1>3, <1>17, <1>19, <2>1 DEF AllKept, PanesKept
  <1>25. /\ act[2] \in Q \cup {None} /\ act[1] \in S \cup {None}
         /\ active = into => ids = <<>> \/ Contains(ids, act[1])
    <2>1. /\ ids = <<>> <=> Q = {}
          /\ ids # <<>> => Head(ids) \in Q
          /\ \A x : Contains(ids, x) <=> x \in Q
      BY <1>9, ListedMember
    <2>2. activeTab \in S \cup {None}
      BY <1>3 DEF AllKept, ActivesKept
    <2>3. CASE active # into
      <3>1. act = <<activeTab, last>>
        BY <1>1, <2>3
      <3> QED BY <1>3, <1>7, <2>2, <2>3, <3>1
    <2>4. CASE active = into
      <3>1. act = MergedActive(ids, last)
        BY <1>1, <2>4
      <3>2. CASE Contains(ids, activeTab)
        <4>1. act = <<activeTab, activeTab>>
          BY <3>1, <3>2 DEF MergedActive
        <4> QED BY <1>8, <2>1, <3>2, <4>1
      <3>3. CASE ~Contains(ids, activeTab) /\ last # None /\ Contains(ids, last)
        <4>1. act = <<last, last>>
          BY <3>1, <3>3 DEF MergedActive
        <4> QED BY <1>8, <2>1, <3>3, <4>1
      <3>4. CASE ~Contains(ids, activeTab) /\ ~(last # None /\ Contains(ids, last))
        <4>1. act = IF ids # <<>> THEN <<Head(ids), Head(ids)>> ELSE <<activeTab, last>>
          BY <3>1, <3>4 DEF MergedActive
        <4>2. CASE ids # <<>>
          <5>1. act = <<Head(ids), Head(ids)>> /\ Head(ids) \in Q
            BY <2>1, <4>1, <4>2
          <5>2. PICK h : h = Head(ids)
            OBVIOUS
          <5>3. act[1] = h /\ act[2] = h /\ h \in Q /\ h \in S /\ Contains(ids, h)
            BY <1>8, <2>1, <5>1, <5>2
          <5> QED BY <5>3
        <4>3. CASE ids = <<>>
          <5>1. act[1] = activeTab /\ act[2] = last
            BY <4>1, <4>3
          <5> QED BY <1>3, <1>7, <2>2, <4>3, <5>1
        <4> QED BY <4>2, <4>3
      <3> QED BY <3>2, <3>3, <3>4
    <2> QED BY <2>3, <2>4
  <1>26. rec \in ProjectRecord /\ rec.tabIDs = ids /\ rec.activeTab = act[2]
    <2>1. act[2] \in Tabs \cup {None}
      BY <1>7, <1>8, <1>25
    <2> QED BY <1>9, <1>20, <2>1 DEF ProjectRecord
  <1>27. ProjectsKept'
    <2>1. /\ projectOrder \in Seq(Projects) /\ Enumerates(projectOrder, Live(projects))
          /\ \A p \in Live(projects) : projects[p] \in ProjectRecord
          /\ Live(projects) \subseteq Projects
      BY DEF AllKept, ProjectsKept
    <2>2. PICK o, D : o = RemoveEach(projectOrder, absorb, dropped) /\ D = Live(projects) \ dropped
      OBVIOUS
    <2>3. Taken(absorb, dropped) = dropped
      BY <1>1, <1>5 DEF Taken, Dropped, ToSet
    <2>4. D = Live(projects) \ Taken(absorb, dropped) /\ Len(absorb) \in Nat
      BY <1>5, <2>2, <2>3
    <2>5. o \in Seq(Projects) /\ Enumerates(o, D)
      BY <2>1, <2>2, <2>4, RemoveEachSound
    <2>6. \A p \in Live(projects)' : projects'[p] \in ProjectRecord
      BY <1>21, <1>26, <2>1
    <2> QED BY <1>2, <1>21, <2>1, <2>2, <2>5, <2>6 DEF ProjectsKept
  <1>28. ASSUME NEW x \in Live(projects)'
         PROVE  Enumerates(projects'[x].tabIDs, TabsOf(x)') /\ Follows(tabOrder', projects'[x].tabIDs, TabsOf(x)')
    <2>1. CASE x = into
      BY <1>2, <1>9, <1>15, <1>21, <1>22, <1>26, <2>1
    <2>2. CASE x # into
      <3>1. /\ x \in Live(projects) /\ x \notin dropped /\ projects'[x].tabIDs = projects[x].tabIDs
            /\ TabsOf(x)' = TabsOf(x) /\ tabOrder' = w
        BY <1>2, <1>21, <1>22, <2>2
      <3>2. Enumerates(projects[x].tabIDs, TabsOf(x)) /\ Follows(tabOrder, projects[x].tabIDs, TabsOf(x))
        BY <3>1 DEF AllKept, ListsKept
      <3>3. PICK D : D = S \ M
        OBVIOUS
      <3>4. TabsOf(x) \subseteq D /\ SameOrder(w, tabOrder, D)
        BY <1>15, <1>22, <2>2, <3>1, <3>3
      <3>5. Follows(w, projects[x].tabIDs, TabsOf(x))
        BY <3>2, <3>4, FollowsSame
      <3> QED BY <3>1, <3>2, <3>5
    <2> QED BY <2>1, <2>2
  <1>29. ListsKept'
    BY <1>28 DEF ListsKept
  <1>30. active \in Live(projects) \ dropped /\ active # None
    <2>1. activeProject \in Live(projects)
      BY <1>2 DEF AllKept, ActivesKept
    <2>2. active \in Live(projects) \ dropped
      BY <1>1, <1>2, <1>4, <2>1
    <2> QED BY <2>2, SessionAssumption DEF AllKept, ProjectsKept
  <1>31. ActivesKept'
    <2>1. ASSUME NEW x \in Live(projects)' PROVE projects'[x].activeTab \in TabsOf(x)' \cup {None}
      <3>1. CASE x = into
        BY <1>21, <1>22, <1>25, <1>26, <3>1
      <3>2. CASE x # into
        BY <1>21, <1>22, <3>2 DEF AllKept, ActivesKept
      <3> QED BY <3>1, <3>2
    <2>2. activeTab' \in Live(tabs)' \cup {None}
      BY <1>2, <1>17, <1>25
    <2> QED BY <1>2, <1>21, <1>30, <2>1, <2>2 DEF ActivesKept
  <1>32. ASSUME activeProject' # activeProject
         PROVE  /\ activeProject' \in Live(projects)'
                /\ \/ projects'[activeProject'].tabIDs = <<>>
                   \/ Contains(projects'[activeProject'].tabIDs, activeTab')
    <2>1. active = into
      BY <1>1, <1>2, <1>32
    <2>2. activeProject' = into /\ projects'[into].tabIDs = ids /\ activeTab' = act[1]
      BY <1>2, <1>21, <1>26, <2>1
    <2> QED BY <1>2, <1>4, <1>21, <1>25, <2>1, <2>2
  <1> QED BY <1>23, <1>24, <1>27, <1>29, <1>31, <1>32 DEF AllKept

-----------------------------------------------------------------------------
(* The session is sound                                                      *)

\* A new manager has nothing.
LEMMA ManagerStarts == NewSessionManager => AllKept
  <1> SUFFICES ASSUME NewSessionManager PROVE AllKept
    OBVIOUS
  <1>1. /\ Live(tabs) = {} /\ Live(panes) = {} /\ Live(projects) = {}
        /\ tabOrder = <<>> /\ projectOrder = <<>> /\ activeTab = None /\ activeProject = None
    BY DEF NewSessionManager, Live
  <1>2. tabOrder \in Seq(Tabs) /\ Enumerates(tabOrder, Live(tabs))
    BY <1>1, EmptyList
  <1>3. projectOrder \in Seq(Projects) /\ Enumerates(projectOrder, Live(projects))
    BY <1>1, EmptyList
  <1> QED BY <1>1, <1>2, <1>3 DEF AllKept, TabsKept, PanesKept, ProjectsKept, ListsKept, ActivesKept

\* What a step does to the active tab when it changes the active project.
FollowStep == activeProject' # activeProject /\ activeProject' # None =>
                 /\ activeProject' \in Live(projects)'
                 /\ \/ projects'[activeProject'].tabIDs = <<>>
                    \/ Contains(projects'[activeProject'].tabIDs, activeTab')

\* SwitchProject and CreateProject lead the active tab along.
LEMMA SwitchFollows ==
  ASSUME AllKept, NEW p, SwitchProject(p)
  PROVE  FollowStep
  <1>1. PICK t, ids, last : t = LandingTab(p) /\ ids = projects[p].tabIDs /\ last = projects[p].activeTab
    OBVIOUS
  <1>2. /\ p \in Live(projects) /\ activeProject' = p
        /\ activeTab' = IF t = None THEN activeTab ELSE t
        /\ projects' = IF t = None THEN projects ELSE [projects EXCEPT ![p].activeTab = t]
    BY <1>1 DEF SwitchProject
  <1>3. /\ ids \in Seq(Tabs) /\ Enumerates(ids, TabsOf(p)) /\ last \in TabsOf(p) \cup {None}
        /\ TabsOf(p) \subseteq Live(tabs) /\ Live(tabs) \subseteq Tabs /\ None \notin Tabs
        /\ projects[p] \in ProjectRecord
    BY <1>1, <1>2, SessionAssumption DEF AllKept, TabsKept, ProjectsKept, ListsKept, ActivesKept,
       TabsOf, ProjectRecord
  <1>4. /\ ids # <<>> => Head(ids) \in TabsOf(p)
        /\ \A x : Contains(ids, x) <=> x \in TabsOf(p)
    BY <1>3, ListedMember
  <1>5. t = IF last \in Live(tabs) THEN last ELSE IF ids = <<>> THEN None ELSE Head(ids)
    BY <1>1 DEF LandingTab, FirstOrNone
  <1>6. ids = <<>> \/ (t # None /\ t \in TabsOf(p))
    BY <1>3, <1>4, <1>5
  <1>7. Live(projects)' = Live(projects) /\ projects'[p].tabIDs = ids
    <2>1. CASE t = None
      BY <1>1, <1>2, <2>1 DEF Live
    <2>2. CASE t # None
      <3>1. projects'[p] = [projects[p] EXCEPT !.activeTab = t]
        BY <1>2, <2>2 DEF Live
      <3>2. Live(projects)' = Live(projects)
        BY <1>2, <2>2 DEF Live
      <3> QED BY <1>1, <1>3, <3>1, <3>2 DEF ProjectRecord
    <2> QED BY <2>1, <2>2
  <1> QED BY <1>2, <1>4, <1>6, <1>7 DEF FollowStep

\* A first project becomes the active one with no tab open.
LEMMA CreateFollows ==
  ASSUME AllKept, NEW p, CreateProject(p)
  PROVE  FollowStep
  <1>1. /\ projects' = [x \in Live(projects) \cup {p} |-> IF x = p THEN NewProject(FALSE) ELSE projects[x]]
        /\ activeProject' = IF activeProject = None THEN p ELSE activeProject
    BY DEF CreateProject, Put, Live
  <1>2. p \in Live(projects)' /\ projects'[p].tabIDs = <<>>
    BY <1>1 DEF Live, NewProject
  <1> QED BY <1>1, <1>2 DEF FollowStep

\* Every step keeps the manager sound and leads the active tab along.
LEMMA SessionSteps == AllKept /\ [SessionNext]_session => AllKept' /\ FollowStep
  <1> SUFFICES ASSUME AllKept, [SessionNext]_session PROVE AllKept' /\ FollowStep
    OBVIOUS
  <1>1. ASSUME NEW p, NEW t, NEW boot, CreateTab(p, t, boot) PROVE AllKept' /\ FollowStep
    BY <1>1, CreateTabKeeps DEF FollowStep
  <1>2. ASSUME NEW t, DestroyTab(t) PROVE AllKept' /\ FollowStep
    <2>1. activeProject' = activeProject
      BY <1>2 DEF DestroyTab
    <2> QED BY <1>2, <2>1, DestroyTabKeeps DEF FollowStep
  <1>3. ASSUME NEW t, SwitchTab(t) PROVE AllKept' /\ FollowStep
    <2>1. activeProject' = activeProject
      BY <1>3 DEF SwitchTab
    <2> QED BY <1>3, <2>1, SwitchTabKeeps DEF FollowStep
  <1>4. ASSUME NEW t, NEW i \in Int, ReorderTab(t, i) PROVE AllKept' /\ FollowStep
    <2>1. activeProject' = activeProject
      BY <1>4 DEF ReorderTab
    <2> QED BY <1>4, <2>1, ReorderTabKeeps DEF FollowStep
  <1>5. ASSUME NEW t, NEW q, CreatePane(t, q) PROVE AllKept' /\ FollowStep
    <2>1. activeProject' = activeProject
      BY <1>5 DEF CreatePane
    <2> QED BY <1>5, <2>1, CreatePaneKeeps DEF FollowStep
  <1>6. ASSUME NEW q, DestroyPane(q) PROVE AllKept' /\ FollowStep
    <2>1. activeProject' = activeProject
      BY <1>6 DEF DestroyPane
    <2> QED BY <1>6, <2>1, DestroyPaneKeeps DEF FollowStep
  <1>7. ASSUME NEW q, NEW r, ReplacePane(q, r) PROVE AllKept' /\ FollowStep
    <2>1. activeProject' = activeProject
      BY <1>7 DEF ReplacePane
    <2> QED BY <1>7, <2>1, ReplacePaneKeeps DEF FollowStep
  <1>8. ASSUME NEW p, CreateProject(p) PROVE AllKept' /\ FollowStep
    BY <1>8, CreateProjectKeeps, CreateFollows
  <1>9. ASSUME NEW p, DestroyProject(p) PROVE AllKept' /\ FollowStep
    BY <1>9, DestroyProjectKeeps DEF FollowStep
  <1>10. ASSUME NEW p, SwitchProject(p) PROVE AllKept' /\ FollowStep
    BY <1>10, SwitchProjectKeeps, SwitchFollows
  <1>11. ASSUME NEW p, NEW adopt, UpdateProject(p, adopt) PROVE AllKept' /\ FollowStep
    <2>1. activeProject' = activeProject
      BY <1>11 DEF UpdateProject
    <2> QED BY <1>11, <2>1, UpdateProjectKeeps DEF FollowStep
  <1>12. ASSUME NEW p, NEW n \in Nat, NEW absorb \in [1 .. n -> Projects], MergeProjects(p, absorb)
         PROVE  AllKept' /\ FollowStep
    BY <1>12, MergeProjectsKeeps DEF FollowStep
  <1>13. ASSUME NEW p, NEW i \in Int, ReorderProject(p, i) PROVE AllKept' /\ FollowStep
    <2>1. activeProject' = activeProject
      BY <1>13 DEF ReorderProject
    <2> QED BY <1>13, <2>1, ReorderProjectKeeps DEF FollowStep
  <1>14. CASE UNCHANGED session
    <2>1. UNCHANGED <<tabs, tabOrder, panes, projects, projectOrder, activeTab, activeProject>>
      BY <1>14 DEF session
    <2> QED BY <2>1 DEF FollowStep, AllKept, TabsKept, PanesKept, ProjectsKept, ListsKept, ActivesKept,
                        TabsOf, PanesOf, Live
  <1>15. CASE SessionNext
    <2>1. 1 .. Len(tabOrder) \subseteq Int /\ 1 .. Len(projectOrder) \subseteq Int /\ 1 .. MaxAbsorb \subseteq Nat
      OBVIOUS
    <2> QED BY <1>1, <1>2, <1>3, <1>4, <1>5, <1>6, <1>7, <1>8, <1>9, <1>10, <1>11, <1>12, <1>13, <1>15, <2>1
            DEF SessionNext
  <1> QED BY <1>14, <1>15

\* After any sequence of the manager's operations its maps, orders and
\* remembered tabs agree: each order lists what is live, once, a project's list
\* is its tabs in the order the global one has them, and no link dangles.
THEOREM SessionIsSound == SessionSpec => []SessionSound
  <1>1. SessionSpec => []AllKept
    BY ManagerStarts, SessionSteps, PTL DEF SessionSpec
  <1> QED BY <1>1, SoundParts, PTL

\* A change of the active project leads the active tab into it.
THEOREM ActiveTabFollows == SessionSpec => ActiveTabFollowsProject
  <1>1. SessionSpec => []AllKept
    BY ManagerStarts, SessionSteps, PTL DEF SessionSpec
  <1>2. AllKept /\ [SessionNext]_session =>
          [activeProject' # activeProject /\ activeProject' # None =>
             LET ids == projects'[activeProject'].tabIDs
             IN  ids = <<>> \/ Contains(ids, activeTab')]_session
    BY SessionSteps DEF FollowStep
  <1> QED BY <1>1, <1>2, PTL DEF SessionSpec, ActiveTabFollowsProject

-----------------------------------------------------------------------------
(* What the workspace handlers do with the session                           *)

\* What the handlers ask of the session manager, the overlay flag apart.
Calls ==
    \/ UNCHANGED session
    \/ \E p, t, boot : CreateTab(p, t, boot)
    \/ \E t : DestroyTab(t)
    \/ \E t : SwitchTab(t)
    \/ \E t, q : CreatePane(t, q)
    \/ \E q : DestroyPane(q)
    \/ \E q, r : ReplacePane(q, r)
    \/ \E p : CreateProject(p)
    \/ \E p : DestroyProject(p)
    \/ \E p : SwitchProject(p)
    \/ \E into, p : p \in Live(projects) /\ MergeProjects(into, <<p>>)

\* None of them makes an overlay, and the session stays sound.
LEMMA CallsKeep == ASSUME AllKept, Calls PROVE AllKept' /\ Overlays' \subseteq Overlays
  <1>1. ASSUME UNCHANGED panes PROVE Overlays' \subseteq Overlays
    BY <1>1 DEF Overlays, Live
  <1>2. ASSUME NEW S, panes' = Without(panes, S) PROVE Overlays' \subseteq Overlays
    BY <1>2 DEF Overlays, Live, Without
  <1>3. CASE UNCHANGED session
    <2>1. AllKept'
      BY <1>3, SessionSteps
    <2>2. UNCHANGED panes
      BY <1>3 DEF session
    <2> QED BY <1>1, <2>1, <2>2
  <1>4. ASSUME NEW p, NEW t, NEW boot, CreateTab(p, t, boot) PROVE AllKept' /\ Overlays' \subseteq Overlays
    BY <1>1, <1>4, CreateTabKeeps DEF CreateTab
  <1>5. ASSUME NEW t, DestroyTab(t) PROVE AllKept' /\ Overlays' \subseteq Overlays
    <2>1. panes' = Without(panes, ToSet(tabs[t].panes))
      BY <1>5 DEF DestroyTab
    <2> QED BY <1>2, <1>5, <2>1, DestroyTabKeeps
  <1>6. ASSUME NEW t, SwitchTab(t) PROVE AllKept' /\ Overlays' \subseteq Overlays
    BY <1>1, <1>6, SwitchTabKeeps DEF SwitchTab
  <1>7. ASSUME NEW t, NEW q, CreatePane(t, q) PROVE AllKept' /\ Overlays' \subseteq Overlays
    <2>1. panes' = [x \in Live(panes) \cup {q} |-> IF x = q THEN [tab |-> t, overlay |-> FALSE] ELSE panes[x]]
      BY <1>7 DEF CreatePane, Put, Live
    <2>2. ASSUME NEW x \in Overlays' PROVE x \in Overlays
      <3>1. x \in Live(panes) \cup {q} /\ panes'[x].overlay
        BY <2>1, <2>2 DEF Overlays, Live
      <3>2. x # q
        BY <2>1, <3>1
      <3> QED BY <2>1, <3>1, <3>2 DEF Overlays
    <2> QED BY <1>7, <2>2, CreatePaneKeeps
  <1>8. ASSUME NEW q, DestroyPane(q) PROVE AllKept' /\ Overlays' \subseteq Overlays
    <2>1. panes' = Without(panes, {q})
      BY <1>8 DEF DestroyPane
    <2> QED BY <1>2, <1>8, <2>1, DestroyPaneKeeps
  <1>9. ASSUME NEW q, NEW r, ReplacePane(q, r) PROVE AllKept' /\ Overlays' \subseteq Overlays
    <2>1. PICK t : t = panes[q].tab
      OBVIOUS
    <2>2. panes' = [x \in (Live(panes) \ {q}) \cup {r} |-> IF x = r THEN [tab |-> t, overlay |-> FALSE] ELSE panes[x]]
      BY <1>9, <2>1 DEF ReplacePane, Put, Without, Live
    <2>3. ASSUME NEW x \in Overlays' PROVE x \in Overlays
      <3>1. x \in (Live(panes) \ {q}) \cup {r} /\ panes'[x].overlay
        BY <2>2, <2>3 DEF Overlays, Live
      <3>2. x # r
        BY <2>2, <3>1
      <3> QED BY <2>2, <3>1, <3>2 DEF Overlays
    <2> QED BY <1>9, <2>3, ReplacePaneKeeps
  <1>10. ASSUME NEW p, CreateProject(p) PROVE AllKept' /\ Overlays' \subseteq Overlays
    BY <1>1, <1>10, CreateProjectKeeps DEF CreateProject
  <1>11. ASSUME NEW p, DestroyProject(p) PROVE AllKept' /\ Overlays' \subseteq Overlays
    <2>1. \E S : panes' = Without(panes, S)
      BY <1>11 DEF DestroyProject
    <2> QED BY <1>2, <1>11, <2>1, DestroyProjectKeeps
  <1>12. ASSUME NEW p, SwitchProject(p) PROVE AllKept' /\ Overlays' \subseteq Overlays
    BY <1>1, <1>12, SwitchProjectKeeps DEF SwitchProject
  <1>13. ASSUME NEW into, NEW p \in Live(projects), MergeProjects(into, <<p>>)
         PROVE  AllKept' /\ Overlays' \subseteq Overlays
    <2>1. p \in Projects
      BY DEF AllKept, ProjectsKept
    <2>2. <<p>> \in [1 .. 1 -> Projects] /\ 1 \in Nat
      BY <2>1
    <2>3. panes' = panes
      BY <1>13 DEF MergeProjects
    <2> QED BY <1>1, <1>13, <2>2, <2>3, MergeProjectsKeeps
  <1> QED BY <1>3, <1>4, <1>5, <1>6, <1>7, <1>8, <1>9, <1>10, <1>11, <1>12, <1>13 DEF Calls

\* The overlay flag changes nothing the session's invariant is about.
LEMMA SetOverlayKeeps == ASSUME AllKept, NEW q, SetOverlay(q) PROVE AllKept' /\ Overlays' = Overlays \cup {q}
  <1>1. /\ q \in Live(panes) /\ panes' = [panes EXCEPT ![q].overlay = TRUE]
        /\ UNCHANGED <<tabs, tabOrder, projects, projectOrder, activeTab, activeProject>>
    BY DEF SetOverlay
  <1>2. /\ Live(panes)' = Live(panes) /\ panes'[q] = [panes[q] EXCEPT !.overlay = TRUE]
        /\ \A x \in Live(panes) \ {q} : panes'[x] = panes[x]
    BY <1>1 DEF Live
  <1>3. \A x \in Live(panes) : panes[x] \in PaneRecord /\ panes[x].tab \in Live(tabs)
    BY DEF AllKept, PanesKept
  <1>4. panes'[q] \in PaneRecord /\ panes'[q].tab = panes[q].tab /\ panes'[q].overlay
    <2>1. PICK r : r = panes[q]
      OBVIOUS
    <2>2. r \in [tab : Tabs, overlay : BOOLEAN] /\ panes'[q] = [r EXCEPT !.overlay = TRUE]
      BY <1>1, <1>2, <1>3, <2>1 DEF PaneRecord
    <2>3. [r EXCEPT !.overlay = TRUE] \in [tab : Tabs, overlay : BOOLEAN]
      BY <2>2
    <2>4. panes'[q].tab = r.tab /\ panes'[q].overlay = TRUE
      BY <2>2
    <2> QED BY <2>1, <2>2, <2>3, <2>4 DEF PaneRecord
  <1>5. \A x \in Live(panes) : panes'[x] \in PaneRecord /\ panes'[x].tab = panes[x].tab
    BY <1>2, <1>3, <1>4
  <1>6. \A t : TabsOf(t)' = TabsOf(t) /\ PanesOf(t)' = PanesOf(t)
    BY <1>1, <1>2, <1>5 DEF TabsOf, PanesOf, Live
  <1>7. Live(tabs)' = Live(tabs) /\ Live(projects)' = Live(projects)
    BY <1>1 DEF Live
  <1>8. TabsKept' /\ ProjectsKept' /\ ListsKept' /\ ActivesKept'
    BY <1>1, <1>6, <1>7 DEF AllKept, TabsKept, ProjectsKept, ListsKept, ActivesKept
  <1>9. PanesKept'
    BY <1>1, <1>2, <1>3, <1>5, <1>6, <1>7 DEF AllKept, PanesKept
  <1>10. ASSUME NEW x PROVE x \in Overlays' <=> x \in Overlays \cup {q}
    <2>1. CASE x = q
      BY <1>1, <1>2, <1>4, <2>1 DEF Overlays
    <2>2. CASE x # q
      <3>1. x \in Live(panes)' <=> x \in Live(panes)
        BY <1>2
      <3>2. x \in Live(panes) => panes'[x] = panes[x]
        BY <1>2, <2>2
      <3> QED BY <2>2, <3>1, <3>2 DEF Overlays
    <2> QED BY <2>1, <2>2
  <1> QED BY <1>8, <1>9, <1>10 DEF AllKept

\* What a worker keeps between its steps.
WorkFields == {"pc", "tab", "proj", "pane", "kind", "todo"}
WorkShaped == DOMAIN work = Workers /\ \A w \in Workers : DOMAIN work[w] = WorkFields

\* A worker that has overlays to evict, or one to be counted.
Busy(w) == work[w].pc \in {"cap", "evict", "orphans"}
Doomed == UNION {work[w].todo : w \in {v \in Workers : work[v].pc \in {"evict", "orphans"}}}
Uncounted == {work[w].pane : w \in {v \in Workers : work[v].pc = "cap"}}

\* Overlays that nobody is about to evict or to count are within the cap.
Capped ==
    /\ IsFiniteSet(Overlays)
    /\ MaxLive > 0 => Cardinality((Overlays \ Doomed) \ Uncounted) <= MaxLive

\* Where Go leaves a worker.
LEMMA GoSays ==
  ASSUME WorkShaped, NEW w \in Workers, NEW pc, NEW mem, Go(w, pc, mem)
  PROVE  /\ WorkShaped' /\ \A v \in Workers : v # w => work'[v] = work[v]
         /\ work'[w].pc = pc
         /\ work'[w].pane = IF "pane" \in DOMAIN mem THEN mem["pane"] ELSE work[w].pane
         /\ work'[w].todo = IF "todo" \in DOMAIN mem THEN mem["todo"] ELSE work[w].todo
  <1>1. PICK r : r = [f \in WorkFields |-> IF f = "pc" THEN pc ELSE IF f \in DOMAIN mem THEN mem[f] ELSE work[w][f]]
    OBVIOUS
  <1>2. DOMAIN work = Workers /\ DOMAIN work[w] = WorkFields
    BY DEF WorkShaped
  <1>3. work' = [work EXCEPT ![w] = r]
    BY <1>1, <1>2 DEF Go
  <1>4. DOMAIN work' = Workers /\ work'[w] = r /\ \A v \in Workers : v # w => work'[v] = work[v]
    BY <1>2, <1>3
  <1>5. /\ DOMAIN r = WorkFields /\ r["pc"] = pc
        /\ r["pane"] = IF "pane" \in DOMAIN mem THEN mem["pane"] ELSE work[w]["pane"]
        /\ r["todo"] = IF "todo" \in DOMAIN mem THEN mem["todo"] ELSE work[w]["todo"]
    BY <1>1 DEF WorkFields
  <1>6. WorkShaped'
    BY <1>4, <1>5 DEF WorkShaped
  <1> QED BY <1>4, <1>5, <1>6

\* Finish: the worker forgets everything, the others are untouched.
LEMMA FinishSays ==
  ASSUME WorkShaped, NEW w \in Workers, Finish(w)
  PROVE  WorkShaped' /\ work'[w] = Idle /\ \A v \in Workers : v # w => work'[v] = work[v]
  <1>1. DOMAIN work = Workers /\ work' = [work EXCEPT ![w] = Idle]
    BY DEF WorkShaped, Finish
  <1>2. DOMAIN Idle = WorkFields
    BY DEF Idle, WorkFields
  <1>3. DOMAIN work' = Workers /\ work'[w] = Idle /\ \A v \in Workers : v # w => work'[v] = work[v]
    BY <1>1
  <1> QED BY <1>2, <1>3 DEF WorkShaped

\* Fewer overlays, and nobody forgets one it is to evict or to count.
LEMMA CappedMonotone ==
  ASSUME Capped, NEW O, O = Overlays', O \subseteq Overlays,
         NEW D, D = Doomed', \A q \in Doomed : q \in D \/ q \notin O,
         NEW U, U = Uncounted', Uncounted \subseteq U
  PROVE  Capped'
  <1>1. PICK A, B : A = (Overlays \ Doomed) \ Uncounted /\ B = (O \ D) \ U
    OBVIOUS
  <1>2. B \subseteq A /\ A \subseteq Overlays
    BY <1>1
  <1>3. IsFiniteSet(Overlays) /\ IsFiniteSet(A) /\ IsFiniteSet(B) /\ IsFiniteSet(O)
    BY <1>2, FS_Subset DEF Capped
  <1>4. Cardinality(B) <= Cardinality(A) /\ Cardinality(B) \in Nat /\ Cardinality(A) \in Nat
    BY <1>2, <1>3, FS_Subset, FS_CardinalityType
  <1>5. MaxLive > 0 => Cardinality(A) <= MaxLive
    BY <1>1 DEF Capped
  <1>6. MaxLive > 0 => Cardinality(B) <= MaxLive
    BY <1>4, <1>5, WorkspaceAssumption
  <1> QED BY <1>1, <1>3, <1>6 DEF Capped

\* What a worker makes of a request or of its next step, the flag and the
\* evictions apart.
Moves(w) == (\E pc, mem : Go(w, pc, mem)) \/ Finish(w) \/ UNCHANGED work
Plainly(w) == ~Busy(w) /\ Calls /\ Moves(w)

\* A worker's move leaves the others as they are.
LEMMA MovesSay ==
  ASSUME WorkShaped, NEW w \in Workers, Moves(w)
  PROVE  WorkShaped' /\ \A v \in Workers : v # w => work'[v] = work[v]
  <1>1. CASE UNCHANGED work
    BY <1>1 DEF WorkShaped
  <1> QED BY <1>1, GoSays, FinishSays DEF Moves

\* Others are as they were, and so is what they have to evict or to count.
LEMMA OthersKeep ==
  ASSUME NEW w \in Workers, \A v \in Workers : v # w => work'[v] = work[v]
  PROVE  /\ \A q \in Doomed : q \in Doomed' \/ (work[w].pc \in {"evict", "orphans"} /\ q \in work[w].todo)
         /\ \A q \in Uncounted : q \in Uncounted' \/ (work[w].pc = "cap" /\ q = work[w].pane)
  <1>1. ASSUME NEW q \in Doomed
        PROVE  q \in Doomed' \/ (work[w].pc \in {"evict", "orphans"} /\ q \in work[w].todo)
    <2>1. PICK v \in Workers : work[v].pc \in {"evict", "orphans"} /\ q \in work[v].todo
      BY DEF Doomed
    <2>2. CASE v # w
      BY <2>1, <2>2 DEF Doomed
    <2> QED BY <2>1, <2>2
  <1>2. ASSUME NEW q \in Uncounted PROVE q \in Uncounted' \/ (work[w].pc = "cap" /\ q = work[w].pane)
    <2>1. PICK v \in Workers : work[v].pc = "cap" /\ q = work[v].pane
      BY DEF Uncounted
    <2>2. CASE v # w
      BY <2>1, <2>2 DEF Uncounted
    <2> QED BY <2>1, <2>2
  <1> QED BY <1>1, <1>2

\* Such a step keeps the session sound and counts no overlay twice.
LEMMA PlainlyKeeps ==
  ASSUME AllKept, WorkShaped, Capped, NEW w \in Workers, Plainly(w)
  PROVE  AllKept' /\ WorkShaped' /\ Capped'
  <1>1. AllKept' /\ Overlays' \subseteq Overlays
    BY CallsKeep DEF Plainly
  <1>2. WorkShaped' /\ \A v \in Workers : v # w => work'[v] = work[v]
    BY MovesSay DEF Plainly
  <1>3. work[w].pc \notin {"evict", "orphans"} /\ work[w].pc # "cap"
    BY DEF Plainly, Busy
  <1>4. (\A q \in Doomed : q \in Doomed') /\ Uncounted \subseteq Uncounted'
    BY <1>2, <1>3, OthersKeep
  <1>5. PICK O, D, U : O = Overlays' /\ D = Doomed' /\ U = Uncounted'
    OBVIOUS
  <1>6. Capped'
    BY <1>1, <1>4, <1>5, CappedMonotone
  <1> QED BY <1>1, <1>2, <1>6

\* A request that is taken, and every step but the flag and the evictions: one
\* call of the session manager at most.
LEMMA RequestIsPlain ==
  ASSUME NEW w \in Workers, Request(w)
  PROVE  Plainly(w)
  <1>1. ASSUME NEW p, NEW kind, HandleCreateTab(w, p, kind) PROVE Plainly(w)
    <2>1. ~Busy(w)
      BY <1>1 DEF HandleCreateTab, Take, Busy
    <2>2. Calls
      BY <1>1 DEF HandleCreateTab, Calls
    <2>3. Moves(w)
      BY <1>1 DEF HandleCreateTab, Moves
    <2> QED BY <2>1, <2>2, <2>3 DEF Plainly
  <1>2. ASSUME NEW p, NEW kind, HandleCreateTabReq(w, p, kind) PROVE Plainly(w)
    <2>1. ~Busy(w)
      BY <1>2 DEF HandleCreateTabReq, Take, Busy
    <2>2. Calls
      BY <1>2 DEF HandleCreateTabReq, Calls
    <2>3. Moves(w)
      BY <1>2 DEF HandleCreateTabReq, Moves
    <2> QED BY <2>1, <2>2, <2>3 DEF Plainly
  <1>3. ASSUME HandleAttach(w) PROVE Plainly(w)
    <2>1. ~Busy(w)
      BY <1>3 DEF HandleAttach, Take, Busy
    <2>2. Calls
      BY <1>3 DEF HandleAttach, Calls
    <2>3. Moves(w)
      BY <1>3 DEF HandleAttach, Moves
    <2> QED BY <2>1, <2>2, <2>3 DEF Plainly
  <1>4. ASSUME NEW t, NEW kind, HandleCreatePane(w, t, kind) PROVE Plainly(w)
    <2>1. ~Busy(w)
      BY <1>4 DEF HandleCreatePane, Take, Busy
    <2>2. Calls
      BY <1>4 DEF HandleCreatePane, Calls
    <2>3. Moves(w)
      BY <1>4 DEF HandleCreatePane, Moves
    <2> QED BY <2>1, <2>2, <2>3 DEF Plainly
  <1>5. ASSUME SweepIdleOverlays(w) PROVE Plainly(w)
    <2>1. ~Busy(w)
      BY <1>5 DEF SweepIdleOverlays, Take, Busy
    <2>2. Calls
      BY <1>5 DEF SweepIdleOverlays, Calls
    <2>3. Moves(w)
      BY <1>5 DEF SweepIdleOverlays, Moves
    <2> QED BY <2>1, <2>2, <2>3 DEF Plainly
  <1>6. ASSUME NEW q, OnOverlayExit(w, q) PROVE Plainly(w)
    <2>1. ~Busy(w)
      BY <1>6 DEF OnOverlayExit, Take, Busy
    <2>2. Calls
      BY <1>6 DEF OnOverlayExit, Calls
    <2>3. Moves(w)
      BY <1>6 DEF OnOverlayExit, Moves
    <2> QED BY <2>1, <2>2, <2>3 DEF Plainly
  <1>7. ASSUME NEW q, HandleDestroyPane(w, q) PROVE Plainly(w)
    <2>1. ~Busy(w)
      BY <1>7 DEF HandleDestroyPane, Take, Busy
    <2>2. Calls
      BY <1>7 DEF HandleDestroyPane, Calls
    <2>3. Moves(w)
      BY <1>7 DEF HandleDestroyPane, Moves
    <2> QED BY <2>1, <2>2, <2>3 DEF Plainly
  <1>8. ASSUME NEW q, HandleReplacePane(w, q) PROVE Plainly(w)
    <2>1. ~Busy(w)
      BY <1>8 DEF HandleReplacePane, Take, Busy
    <2>2. Calls
      BY <1>8 DEF HandleReplacePane, Swap, Calls
    <2>3. Moves(w)
      BY <1>8 DEF HandleReplacePane, Swap, Moves
    <2> QED BY <2>1, <2>2, <2>3 DEF Plainly
  <1>9. ASSUME NEW t, HandleDestroyTab(w, t) PROVE Plainly(w)
    <2>1. ~Busy(w)
      BY <1>9 DEF HandleDestroyTab, Take, Busy
    <2>2. Calls
      BY <1>9 DEF HandleDestroyTab, Calls
    <2>3. Moves(w)
      BY <1>9 DEF HandleDestroyTab, Moves
    <2> QED BY <2>1, <2>2, <2>3 DEF Plainly
  <1>10. ASSUME NEW t, HandleSwitchTab(w, t) PROVE Plainly(w)
    <2>1. ~Busy(w)
      BY <1>10 DEF HandleSwitchTab, Take, Busy
    <2>2. Calls
      BY <1>10 DEF HandleSwitchTab, Calls
    <2>3. Moves(w)
      BY <1>10 DEF HandleSwitchTab, Moves
    <2> QED BY <2>1, <2>2, <2>3 DEF Plainly
  <1>11. ASSUME HandleCreateProject(w) PROVE Plainly(w)
    <2>1. ~Busy(w)
      BY <1>11 DEF HandleCreateProject, Take, Busy
    <2>2. Calls
      BY <1>11 DEF HandleCreateProject, Calls
    <2>3. Moves(w)
      BY <1>11 DEF HandleCreateProject, Moves
    <2> QED BY <2>1, <2>2, <2>3 DEF Plainly
  <1>12. ASSUME NEW p, HandleDestroyProject(w, p) PROVE Plainly(w)
    <2>1. ~Busy(w)
      BY <1>12 DEF HandleDestroyProject, Take, Busy
    <2>2. Calls
      BY <1>12 DEF HandleDestroyProject, Calls
    <2>3. Moves(w)
      BY <1>12 DEF HandleDestroyProject, Moves
    <2> QED BY <2>1, <2>2, <2>3 DEF Plainly
  <1>13. ASSUME NEW p, HandleSwitchProject(w, p) PROVE Plainly(w)
    <2>1. ~Busy(w)
      BY <1>13 DEF HandleSwitchProject, Take, Busy
    <2>2. Calls
      BY <1>13 DEF HandleSwitchProject, Calls
    <2>3. Moves(w)
      BY <1>13 DEF HandleSwitchProject, Moves
    <2> QED BY <2>1, <2>2, <2>3 DEF Plainly
  <1>14. ASSUME NEW into, NEW p \in Live(projects), HandleMergeProjects(w, into, p) PROVE Plainly(w)
    <2>1. ~Busy(w)
      BY <1>14 DEF HandleMergeProjects, Take, Busy
    <2>2. Calls
      BY <1>14 DEF HandleMergeProjects, Calls
    <2>3. Moves(w)
      BY <1>14 DEF HandleMergeProjects, Moves
    <2> QED BY <2>1, <2>2, <2>3 DEF Plainly
  <1> QED BY <1>1, <1>2, <1>3, <1>4, <1>5, <1>6, <1>7, <1>8, <1>9, <1>10, <1>11, <1>12, <1>13, <1>14 DEF Request

\* So is every later step but the flag, the cap and the evictions.
LEMMA StepIsPlain ==
  ASSUME NEW w \in Workers, Step(w)
  PROVE  Plainly(w) \/ Flag(w) \/ EnforceOverlayCap(w) \/ Evict(w) \/ Orphans(w)
  <1>1. ASSUME SwitchNew(w) PROVE Plainly(w)
    <2>1. ~Busy(w)
      BY <1>1 DEF SwitchNew, At, Busy
    <2>2. Calls
      BY <1>1 DEF SwitchNew, Calls
    <2>3. Moves(w)
      BY <1>1 DEF SwitchNew, Moves
    <2> QED BY <2>1, <2>2, <2>3 DEF Plainly
  <1>2. ASSUME FirstPane(w) PROVE Plainly(w)
    <2>1. ~Busy(w)
      BY <1>2 DEF FirstPane, At, Busy
    <2>2. Calls
      BY <1>2 DEF FirstPane, Calls
    <2>3. Moves(w)
      BY <1>2 DEF FirstPane, Moves
    <2> QED BY <2>1, <2>2, <2>3 DEF Plainly
  <1>3. ASSUME FirstPaneReq(w) PROVE Plainly(w)
    <2>1. ~Busy(w)
      BY <1>3 DEF FirstPaneReq, At, Busy
    <2>2. Calls
      BY <1>3 DEF FirstPaneReq, Calls
    <2>3. Moves(w)
      BY <1>3 DEF FirstPaneReq, Moves
    <2> QED BY <2>1, <2>2, <2>3 DEF Plainly
  <1>4. ASSUME Reject(w) PROVE Plainly(w)
    <2>1. ~Busy(w)
      BY <1>4 DEF Reject, At, Busy
    <2>2. Calls
      BY <1>4 DEF Reject, Discard, Calls
    <2>3. Moves(w)
      BY <1>4 DEF Reject, Moves
    <2> QED BY <2>1, <2>2, <2>3 DEF Plainly
  <1>5. ASSUME RejectReq(w) PROVE Plainly(w)
    <2>1. ~Busy(w)
      BY <1>5 DEF RejectReq, At, Busy
    <2>2. Calls
      BY <1>5 DEF RejectReq, Discard, Calls
    <2>3. Moves(w)
      BY <1>5 DEF RejectReq, Moves
    <2> QED BY <2>1, <2>2, <2>3 DEF Plainly
  <1>6. ASSUME AttachTab(w) PROVE Plainly(w)
    <2>1. ~Busy(w)
      BY <1>6 DEF AttachTab, At, Busy
    <2>2. Calls
      BY <1>6 DEF AttachTab, Calls
    <2>3. Moves(w)
      BY <1>6 DEF AttachTab, Moves
    <2> QED BY <2>1, <2>2, <2>3 DEF Plainly
  <1>7. ASSUME AttachPane(w) PROVE Plainly(w)
    <2>1. ~Busy(w)
      BY <1>7 DEF AttachPane, At, Busy
    <2>2. Calls
      BY <1>7 DEF AttachPane, Calls
    <2>3. Moves(w)
      BY <1>7 DEF AttachPane, Moves
    <2> QED BY <2>1, <2>2, <2>3 DEF Plainly
  <1>8. ASSUME DestroyThePane(w) PROVE Plainly(w)
    <2>1. ~Busy(w)
      BY <1>8 DEF DestroyThePane, At, Busy
    <2>2. Calls
      BY <1>8 DEF DestroyThePane, Discard, Calls
    <2>3. Moves(w)
      BY <1>8 DEF DestroyThePane, Moves
    <2> QED BY <2>1, <2>2, <2>3 DEF Plainly
  <1>9. ASSUME EnsureTabNotEmpty(w) PROVE Plainly(w)
    <2>1. ~Busy(w)
      BY <1>9 DEF EnsureTabNotEmpty, At, Busy
    <2>2. Calls
      BY <1>9 DEF EnsureTabNotEmpty, Calls
    <2>3. Moves(w)
      BY <1>9 DEF EnsureTabNotEmpty, Moves
    <2> QED BY <2>1, <2>2, <2>3 DEF Plainly
  <1>10. ASSUME Unspawned(w) PROVE Plainly(w)
    <2>1. ~Busy(w)
      BY <1>10 DEF Unspawned, At, Busy
    <2>2. Calls
      BY <1>10 DEF Unspawned, Discard, Calls
    <2>3. Moves(w)
      BY <1>10 DEF Unspawned, Moves
    <2> QED BY <2>1, <2>2, <2>3 DEF Plainly
  <1>11. ASSUME RecoverEmptyTab(w) PROVE Plainly(w)
    <2>1. ~Busy(w)
      BY <1>11 DEF RecoverEmptyTab, At, Busy
    <2>2. Calls
      BY <1>11 DEF RecoverEmptyTab, Calls
    <2>3. Moves(w)
      BY <1>11 DEF RecoverEmptyTab, Moves
    <2> QED BY <2>1, <2>2, <2>3 DEF Plainly
  <1>12. ASSUME RecoverPane(w) PROVE Plainly(w)
    <2>1. ~Busy(w)
      BY <1>12 DEF RecoverPane, At, Busy
    <2>2. Calls
      BY <1>12 DEF RecoverPane, Calls
    <2>3. Moves(w)
      BY <1>12 DEF RecoverPane, Moves
    <2> QED BY <2>1, <2>2, <2>3 DEF Plainly
  <1>13. ASSUME AddWorktree(w) PROVE Plainly(w)
    <2>1. ~Busy(w)
      BY <1>13 DEF AddWorktree, At, Busy
    <2>2. Calls
      BY <1>13 DEF AddWorktree, Calls
    <2>3. Moves(w)
      BY <1>13 DEF AddWorktree, Moves
    <2> QED BY <2>1, <2>2, <2>3 DEF Plainly
  <1>14. ASSUME SwapPlaceholder(w) PROVE Plainly(w)
    <2>1. ~Busy(w)
      BY <1>14 DEF SwapPlaceholder, At, Busy
    <2>2. Calls
      BY <1>14 DEF SwapPlaceholder, Swap, Calls
    <2>3. Moves(w)
      BY <1>14 DEF SwapPlaceholder, Swap, Moves
    <2> QED BY <2>1, <2>2, <2>3 DEF Plainly
  <1>15. ASSUME DestroyTheTab(w) PROVE Plainly(w)
    <2>1. ~Busy(w)
      BY <1>15 DEF DestroyTheTab, At, Busy
    <2>2. Calls
      BY <1>15 DEF DestroyTheTab, Calls
    <2>3. Moves(w)
      BY <1>15 DEF DestroyTheTab, Moves
    <2> QED BY <2>1, <2>2, <2>3 DEF Plainly
  <1>16. ASSUME DestroyTheProject(w) PROVE Plainly(w)
    <2>1. ~Busy(w)
      BY <1>16 DEF DestroyTheProject, At, Busy
    <2>2. Calls
      BY <1>16 DEF DestroyTheProject, Calls
    <2>3. Moves(w)
      BY <1>16 DEF DestroyTheProject, Moves
    <2> QED BY <2>1, <2>2, <2>3 DEF Plainly
  <1>17. ASSUME ReadActive(w) PROVE Plainly(w)
    <2>1. ~Busy(w)
      BY <1>17 DEF ReadActive, At, Busy
    <2>2. Calls
      BY <1>17 DEF ReadActive, Calls
    <2>3. Moves(w)
      BY <1>17 DEF ReadActive, Moves
    <2> QED BY <2>1, <2>2, <2>3 DEF Plainly
  <1>18. ASSUME RecoverEmptyProject(w) PROVE Plainly(w)
    <2>1. ~Busy(w)
      BY <1>18 DEF RecoverEmptyProject, At, Busy
    <2>2. Calls
      BY <1>18 DEF RecoverEmptyProject, Calls
    <2>3. Moves(w)
      BY <1>18 DEF RecoverEmptyProject, Moves
    <2> QED BY <2>1, <2>2, <2>3 DEF Plainly
  <1>19. ASSUME ShellTab(w) PROVE Plainly(w)
    <2>1. ~Busy(w)
      BY <1>19 DEF ShellTab, At, Busy
    <2>2. Calls
      BY <1>19 DEF ShellTab, Calls
    <2>3. Moves(w)
      BY <1>19 DEF ShellTab, Moves
    <2> QED BY <2>1, <2>2, <2>3 DEF Plainly
  <1>20. ASSUME ShellPane(w) PROVE Plainly(w)
    <2>1. ~Busy(w)
      BY <1>20 DEF ShellPane, At, Busy
    <2>2. Calls
      BY <1>20 DEF ShellPane, Calls
    <2>3. Moves(w)
      BY <1>20 DEF ShellPane, Moves
    <2> QED BY <2>1, <2>2, <2>3 DEF Plainly
  <1>21. ASSUME Landing(w) PROVE Plainly(w)
    <2>1. ~Busy(w)
      BY <1>21 DEF Landing, At, Busy
    <2>2. Calls
      BY <1>21 DEF Landing, Calls
    <2>3. Moves(w)
      BY <1>21 DEF Landing, Moves
    <2> QED BY <2>1, <2>2, <2>3 DEF Plainly
  <1>22. ASSUME Land(w) PROVE Plainly(w)
    <2>1. ~Busy(w)
      BY <1>22 DEF Land, At, Busy
    <2>2. Calls
      BY <1>22 DEF Land, Calls
    <2>3. Moves(w)
      BY <1>22 DEF Land, Moves
    <2> QED BY <2>1, <2>2, <2>3 DEF Plainly
  <1> QED BY <1>1, <1>2, <1>3, <1>4, <1>5, <1>6, <1>7, <1>8, <1>9, <1>10, <1>11, <1>12, <1>13,
            <1>14, <1>15, <1>16, <1>17, <1>18, <1>19, <1>20, <1>21, <1>22 DEF Step

-----------------------------------------------------------------------------
(* The overlay cap                                                           *)

\* Once destroyed a pane is no overlay.
LEMMA DiscardSays ==
  ASSUME AllKept, NEW q, Discard(q)
  PROVE  Calls /\ q \notin Overlays'
  <1>1. Calls
    BY DEF Discard, Calls
  <1>2. CASE q \in Live(panes)
    <2>1. panes' = Without(panes, {q})
      BY <1>2 DEF Discard, DestroyPane
    <2> QED BY <1>1, <2>1 DEF Overlays, Live, Without
  <1>3. CASE q \notin Live(panes)
    <2>1. panes' = panes
      BY <1>3 DEF Discard, session
    <2> QED BY <1>1, <1>3, <2>1 DEF Overlays, Live
  <1> QED BY <1>2, <1>3

\* The flag: one more overlay, and it is to be counted.
LEMMA FlagKeeps ==
  ASSUME AllKept, WorkShaped, Capped, NEW w \in Workers, Flag(w)
  PROVE  AllKept' /\ WorkShaped' /\ Capped'
  <1>1. PICK q : q = work[w].pane
    OBVIOUS
  <1>2. /\ work[w].pc = "flag" /\ Go(w, "cap", [tab |-> None])
        /\ IF q \in Live(panes) THEN SetOverlay(q) ELSE UNCHANGED session
    BY <1>1 DEF Flag, At
  <1>3. AllKept' /\ Overlays \subseteq Overlays' /\ Overlays' \subseteq Overlays \cup {q}
    <2>1. CASE q \in Live(panes)
      BY <1>2, <2>1, SetOverlayKeeps
    <2>2. CASE q \notin Live(panes)
      <3>1. AllKept' /\ Overlays' \subseteq Overlays
        BY <1>2, <2>2, CallsKeep DEF Calls
      <3>2. panes' = panes
        BY <1>2, <2>2 DEF session
      <3> QED BY <3>1, <3>2 DEF Overlays, Live
    <2> QED BY <2>1, <2>2
  <1>4. /\ WorkShaped' /\ \A v \in Workers : v # w => work'[v] = work[v]
        /\ work'[w].pc = "cap" /\ work'[w].pane = q
    BY <1>1, <1>2, GoSays
  <1>5. (\A x \in Doomed : x \in Doomed') /\ Uncounted \subseteq Uncounted' /\ q \in Uncounted'
    <2>1. (\A x \in Doomed : x \in Doomed') /\ Uncounted \subseteq Uncounted'
      BY <1>2, <1>4, OthersKeep
    <2>2. q \in Uncounted'
      BY <1>4 DEF Uncounted
    <2> QED BY <2>1, <2>2
  <1>6. PICK A, B : A = (Overlays \ Doomed) \ Uncounted /\ B = ((Overlays \ Doomed) \ Uncounted)'
    OBVIOUS
  <1>7. B \subseteq A /\ A \subseteq Overlays
    BY <1>3, <1>5, <1>6
  <1>8. IsFiniteSet(Overlays) /\ (MaxLive > 0 => Cardinality(A) <= MaxLive)
    BY <1>6 DEF Capped
  <1>9. IsFiniteSet(Overlays')
    <2>1. IsFiniteSet(Overlays \cup {q})
      BY <1>8, FS_AddElement
    <2> QED BY <1>3, <2>1, FS_Subset
  <1>10. Cardinality(B) <= Cardinality(A) /\ Cardinality(B) \in Nat /\ Cardinality(A) \in Nat
    <2>1. IsFiniteSet(A) /\ IsFiniteSet(B)
      BY <1>7, <1>8, FS_Subset
    <2> QED BY <1>7, <2>1, FS_Subset, FS_CardinalityType
  <1>11. MaxLive > 0 => Cardinality(B) <= MaxLive
    BY <1>8, <1>10, WorkspaceAssumption
  <1>12. Capped'
    BY <1>6, <1>9, <1>11 DEF Capped
  <1> QED BY <1>3, <1>4, <1>12

\* enforceOverlayCap: what it does not evict is within the cap, itself included.
LEMMA EnforceKeeps ==
  ASSUME AllKept, WorkShaped, Capped, NEW w \in Workers, EnforceOverlayCap(w)
  PROVE  AllKept' /\ WorkShaped' /\ Capped'
  <1>1. PICK q, others, excess :
           /\ q = work[w].pane /\ others = Overlays \ {q}
           /\ excess = IF MaxLive > 0 /\ Cardinality(others) > MaxLive - 1
                       THEN Cardinality(others) - (MaxLive - 1) ELSE 0
    OBVIOUS
  <1>2. PICK victims \in SUBSET others :
           Cardinality(victims) = excess /\ Go(w, "evict", [pane |-> None, todo |-> victims])
    BY <1>1 DEF EnforceOverlayCap, Keep
  <1>3. work[w].pc = "cap" /\ UNCHANGED session
    BY DEF EnforceOverlayCap, At
  <1>4. AllKept'
    BY <1>3, CallsKeep DEF Calls
  <1>5. Overlays' = Overlays
    BY <1>3 DEF session, Overlays, Live
  <1>6. /\ WorkShaped' /\ \A v \in Workers : v # w => work'[v] = work[v]
        /\ work'[w].pc = "evict" /\ work'[w].todo = victims
    BY <1>2, GoSays
  <1>7. victims \subseteq Doomed'
    BY <1>6 DEF Doomed
  <1>8. PICK B, rest : B = ((Overlays \ Doomed) \ Uncounted)' /\ rest = others \ victims
    OBVIOUS
  <1>9. B \subseteq rest \cup {q}
    BY <1>1, <1>5, <1>7, <1>8
  <1>10. /\ IsFiniteSet(Overlays) /\ IsFiniteSet(others) /\ IsFiniteSet(victims) /\ IsFiniteSet(rest)
         /\ IsFiniteSet(rest \cup {q})
    <2>1. IsFiniteSet(Overlays)
      BY DEF Capped
    <2>2. IsFiniteSet(others)
      BY <1>1, <2>1, FS_Subset
    <2>3. IsFiniteSet(victims) /\ IsFiniteSet(rest)
      BY <1>2, <1>8, <2>2, FS_Subset
    <2> QED BY <2>1, <2>2, <2>3, FS_AddElement
  <1>11. Cardinality(rest) = Cardinality(others) - Cardinality(victims)
    <2>1. PICK common : common = others \cap victims
      OBVIOUS
    <2>2. IsFiniteSet(others)
      BY <1>10
    <2>3. Cardinality(others \ victims) = Cardinality(others) - Cardinality(others \cap victims)
      BY ONLY <2>2, FS_Difference
    <2>4. common = victims
      BY <1>2, <2>1
    <2> QED BY <1>8, <2>1, <2>3, <2>4
  <1>12. Cardinality(rest) \in Nat /\ Cardinality(others) \in Nat /\ Cardinality(B) \in Nat
    BY <1>9, <1>10, FS_Subset, FS_CardinalityType
  <1>13. Cardinality(B) <= Cardinality(rest) + 1
    <2>1. Cardinality(B) <= Cardinality(rest \cup {q})
      BY <1>9, <1>10, FS_Subset
    <2>2. Cardinality(rest \cup {q}) <= Cardinality(rest) + 1
      BY <1>10, <1>12, FS_AddElement
    <2>3. Cardinality(rest \cup {q}) \in Nat
      BY <1>10, FS_CardinalityType
    <2> QED BY <1>12, <2>1, <2>2, <2>3
  <1>14. MaxLive > 0 => Cardinality(rest) <= MaxLive - 1
    BY <1>1, <1>2, <1>11, <1>12, WorkspaceAssumption
  <1>15. MaxLive > 0 => Cardinality(B) <= MaxLive
    BY <1>12, <1>13, <1>14, WorkspaceAssumption
  <1>16. Capped'
    BY <1>5, <1>8, <1>10, <1>15 DEF Capped
  <1> QED BY <1>4, <1>6, <1>16

\* One turn of a loop over destroyOverlay.
LEMMA TurnKeeps ==
  ASSUME AllKept, WorkShaped, Capped, NEW w \in Workers, NEW q, Discard(q),
         work[w].pc \in {"evict", "orphans"},
         Go(w, work[w].pc, [todo |-> work[w].todo \ {q}])
  PROVE  AllKept' /\ WorkShaped' /\ Capped'
  <1>1. Calls /\ q \notin Overlays'
    BY DiscardSays
  <1>2. AllKept' /\ Overlays' \subseteq Overlays
    BY <1>1, CallsKeep
  <1>3. /\ WorkShaped' /\ \A v \in Workers : v # w => work'[v] = work[v]
        /\ work'[w].pc = work[w].pc /\ work'[w].todo = work[w].todo \ {q}
    BY GoSays
  <1>4. \A x \in Doomed : x \in Doomed' \/ x \notin Overlays'
    <2>1. \A x \in work[w].todo \ {q} : x \in Doomed'
      BY <1>3 DEF Doomed
    <2> QED BY <1>1, <1>3, <2>1, OthersKeep
  <1>5. Uncounted \subseteq Uncounted'
    BY <1>3, OthersKeep
  <1>6. PICK O, D, U : O = Overlays' /\ D = Doomed' /\ U = Uncounted'
    OBVIOUS
  <1>7. Capped'
    BY <1>2, <1>4, <1>5, <1>6, CappedMonotone
  <1> QED BY <1>2, <1>3, <1>7

\* ... and its end.
LEMMA LoopEndKeeps ==
  ASSUME AllKept, WorkShaped, Capped, NEW w \in Workers, Calls, Finish(w),
         work[w].pc \in {"evict", "orphans"}, work[w].todo = {}
  PROVE  AllKept' /\ WorkShaped' /\ Capped'
  <1>1. AllKept' /\ Overlays' \subseteq Overlays
    BY CallsKeep
  <1>2. WorkShaped' /\ \A v \in Workers : v # w => work'[v] = work[v]
    BY FinishSays
  <1>3. (\A x \in Doomed : x \in Doomed') /\ Uncounted \subseteq Uncounted'
    BY <1>2, OthersKeep
  <1>4. PICK O, D, U : O = Overlays' /\ D = Doomed' /\ U = Uncounted'
    OBVIOUS
  <1>5. Capped'
    BY <1>1, <1>3, <1>4, CappedMonotone
  <1> QED BY <1>1, <1>2, <1>5

\* Every step of every handler.
LEMMA HandlersKeep ==
  AllKept /\ WorkShaped /\ Capped /\ [WNext]_wvars => AllKept' /\ WorkShaped' /\ Capped'
  <1> SUFFICES ASSUME AllKept, WorkShaped, Capped, [WNext]_wvars PROVE AllKept' /\ WorkShaped' /\ Capped'
    OBVIOUS
  <1>1. ASSUME NEW w \in Workers, Request(w) PROVE AllKept' /\ WorkShaped' /\ Capped'
    BY <1>1, RequestIsPlain, PlainlyKeeps
  <1>2. ASSUME NEW w \in Workers, Step(w) PROVE AllKept' /\ WorkShaped' /\ Capped'
    <2>1. CASE Plainly(w)
      BY <2>1, PlainlyKeeps
    <2>2. CASE Flag(w)
      BY <2>2, FlagKeeps
    <2>3. CASE EnforceOverlayCap(w)
      BY <2>3, EnforceKeeps
    <2>4. CASE Evict(w)
      <3>1. work[w].pc = "evict"
        BY <2>4 DEF Evict, At
      <3>2. CASE work[w].todo = {}
        <4>1. Finish(w) /\ Calls
          BY <2>4, <3>2 DEF Evict, Calls
        <4> QED BY <3>1, <3>2, <4>1, LoopEndKeeps
      <3>3. CASE work[w].todo # {}
        <4>1. PICK q : Discard(q) /\ Go(w, "evict", [todo |-> work[w].todo \ {q}])
          BY <2>4, <3>3 DEF Evict
        <4> QED BY <3>1, <4>1, TurnKeeps
      <3> QED BY <3>2, <3>3
    <2>5. CASE Orphans(w)
      <3>1. work[w].pc = "orphans"
        BY <2>5 DEF Orphans, At
      <3>2. CASE work[w].todo = {}
        <4>1. Finish(w) /\ Calls
          BY <2>5, <3>2 DEF Orphans, Calls
        <4> QED BY <3>1, <3>2, <4>1, LoopEndKeeps
      <3>3. CASE work[w].todo # {}
        <4>1. PICK q : Discard(q) /\ Go(w, "orphans", [todo |-> work[w].todo \ {q}])
          BY <2>5, <3>3 DEF Orphans
        <4> QED BY <3>1, <4>1, TurnKeeps
      <3> QED BY <3>2, <3>3
    <2> QED BY <1>2, <2>1, <2>2, <2>3, <2>4, <2>5, StepIsPlain
  <1>3. CASE UNCHANGED wvars
    <2>1. UNCHANGED session /\ UNCHANGED work
      BY <1>3 DEF wvars
    <2>2. AllKept'
      BY <2>1, SessionSteps
    <2>3. WorkShaped' /\ Doomed' = Doomed /\ Uncounted' = Uncounted
      BY <2>1 DEF WorkShaped, Doomed, Uncounted
    <2>4. Overlays' = Overlays
      BY <2>1 DEF session, Overlays, Live
    <2> QED BY <2>2, <2>3, <2>4 DEF Capped
  <1> QED BY <1>1, <1>2, <1>3 DEF WNext, Done

\* A sound session within its cap and idle workers satisfy the invariant.
LEMMA HandlersStart == WStart => AllKept /\ WorkShaped /\ Capped
  <1> SUFFICES ASSUME WStart PROVE AllKept /\ WorkShaped /\ Capped
    OBVIOUS
  <1>1. AllKept
    BY SoundParts DEF WStart
  <1>2. DOMAIN Idle = WorkFields /\ Idle.pc = "idle" /\ work = [w \in Workers |-> Idle]
    BY DEF WStart, Idle, WorkFields
  <1>3. WorkShaped
    BY <1>2 DEF WorkShaped
  <1>4. \A w \in Workers : work[w].pc = "idle"
    BY <1>2
  <1>5. Doomed = {} /\ Uncounted = {}
    BY <1>4 DEF Doomed, Uncounted
  <1>6. (Overlays \ Doomed) \ Uncounted = Overlays
    BY <1>5
  <1>7. Capped
    BY <1>6 DEF WStart, Capped
  <1> QED BY <1>1, <1>3, <1>7

\* At rest nobody is about to evict or to count.
LEMMA CappedAtRest == Capped => OverlaysWithinCap
  <1> SUFFICES ASSUME Capped, Quiet, MaxLive > 0 PROVE Cardinality(Overlays) <= MaxLive
    BY DEF OverlaysWithinCap
  <1>1. Doomed = {} /\ Uncounted = {}
    BY DEF Quiet, Doomed, Uncounted
  <1>2. (Overlays \ Doomed) \ Uncounted = Overlays
    BY <1>1
  <1> QED BY <1>2 DEF Capped

\* However the handlers of any number of requests interleave, the session
\* manager's maps, orders and remembered tabs agree between any two of their
\* calls: no handler leaves the manager in a state another could not use.
THEOREM HandlersKeepSession == WSpec => []SessionSound
  <1>1. WSpec => [](AllKept /\ WorkShaped /\ Capped)
    BY HandlersStart, HandlersKeep, PTL DEF WSpec
  <1> QED BY <1>1, SoundParts, PTL

\* Once the handlers are at rest no more overlays live than the cap allows,
\* however many were opened at once and whatever was closed beside them.
THEOREM OverlaysStayWithinCap == WSpec => []OverlaysWithinCap
  <1>1. WSpec => [](AllKept /\ WorkShaped /\ Capped)
    BY HandlersStart, HandlersKeep, PTL DEF WSpec
  <1> QED BY <1>1, CappedAtRest, PTL
-----------------------------------------------------------------------------
(* The books: who owes which tab a pane, and which project a tab             *)

\* Nobody but w is being served.
Alone(w) == \A v \in Workers : v # w => work[v].pc = "idle"

\* The labels at which a worker is yet to give its tab a pane, or its project
\* a tab.
Filling == {"switchNew", "firstPane", "firstPaneReq", "attachPane", "ensure", "orphans", "recoverTab",
            "recoverPane", "shellPane"}
Stocking == {"recoverProj", "shellTab"}

OwesTab(w, t) == work[w].pc \in Filling /\ work[w].tab = t
OwesProj(w, p) == work[w].pc \in Stocking /\ work[w].proj = p

Bare(p) == TabsOf(p) = {}

\* What a worker remembers of its pane, of the overlays it is to destroy, of its
\* tab, of the kind of its request and of the pane it is to flag.
PaneMem(w) ==
    work[w].pc \in {"destroyPane", "rejectReq", "unspawned"} /\ work[w].pane \in Live(panes)
        => panes[work[w].pane].tab = work[w].tab
TodoMem(w) ==
    work[w].pc \in {"evict", "orphans"}
        => \A q \in work[w].todo : q \in Live(panes) => panes[q].overlay
TabMem(w) ==
    work[w].pc = "destroyTab" /\ work[w].tab \in Live(tabs) => tabs[work[w].tab].project = work[w].proj
KindMem(w) ==
    /\ work[w].pc \in {"switchNew", "firstPane"} /\ work[w].kind = "badImage" => "badImage" \in Ops
    /\ work[w].pc = "reject" => "badImage" \in Ops
FlagMem(w) ==
    work[w].pc = "flag" =>
        /\ "overlay" \in Ops
        /\ "badImage" \notin Ops => \A t \in Live(tabs) : Normal(t) \ {work[w].pane} # {}

Mem(w) == PaneMem(w) /\ TodoMem(w) /\ TabMem(w) /\ KindMem(w) /\ FlagMem(w)

\* Every tab without a pane and every project without a tab is somebody's debt.
Filled ==
    "badImage" \notin Ops =>
        \A t \in Live(tabs) : Lacking(t) => \E v \in Workers : OwesTab(v, t)
Peopled == \A p \in Live(projects) : Bare(p) => \E v \in Workers : OwesProj(v, p)

\* No tab is active only where the active project has none.
ActiveBare == activeTab = None /\ activeProject \in Live(projects) => Bare(activeProject)

\* One request at a time, where the mix says so.
Solo == mix.width = 1 => \A v, u \in Workers : work[v].pc # "idle" /\ work[u].pc # "idle" => u = v

Debts == Orderly /\ Solo /\ Filled /\ Peopled /\ ActiveBare /\ \A v \in Workers : Mem(v)

-----------------------------------------------------------------------------
(* What a call of the session manager leaves lacking                         *)

\* Panes stay in their tabs, and no overlay becomes a pane of the other kind.
PanesStay ==
    \A q \in Live(panes)' :
        \/ q = NewPane
        \/ q \in Live(panes) /\ panes'[q].tab = panes[q].tab /\ (panes[q].overlay => panes'[q].overlay)
\* Tabs stay in their projects.
Homes == \A t \in Live(tabs)' : t = NewTab \/ (t \in Live(tabs) /\ tabs'[t].project = tabs[t].project)

\* Only the tabs of L may have come to lack a pane, and those of F no longer do;
\* only the projects of B may have come to lack a tab, and those of S do not.
Effect(L, F, B, S) ==
    /\ \A t \in Live(tabs)' : t = NewTab \/ t \in Live(tabs)
    /\ \A t \in Live(tabs)' : Lacking(t)' => t \in L \/ (t \in Live(tabs) /\ Lacking(t) /\ t \notin F)
    /\ \A p \in Live(projects)' : Bare(p)' => p \in B \/ (p \in Live(projects) /\ Bare(p) /\ p \notin S)
    /\ PanesStay
    /\ ActiveBare'

\* A project's list is empty when it has no tab.
LEMMA ListBare ==
  ASSUME NEW ids \in Seq(Tabs), NEW T, Enumerates(ids, T)
  PROVE  /\ ids = <<>> <=> T = {}
         /\ FirstOrNone(ids) = None => ids = <<>>
  <1>1. (ids = <<>> <=> T = {}) /\ (ids # <<>> => Head(ids) \in T) /\ T \subseteq Tabs
    BY ListedMember
  <1>2. None \notin Tabs
    BY SessionAssumption
  <1> QED BY <1>1, <1>2 DEF FirstOrNone

\* ... so the list tells whether a project is bare, before a call and after it.
LEMMA BareNow ==
  ASSUME AllKept, NEW p \in Live(projects)
  PROVE  /\ projects[p].tabIDs = <<>> <=> Bare(p)
         /\ FirstOrNone(projects[p].tabIDs) = None => Bare(p)
  <1>1. projects[p].tabIDs \in Seq(Tabs) /\ Enumerates(projects[p].tabIDs, TabsOf(p))
    BY DEF AllKept, ProjectsKept, ProjectRecord, ListsKept
  <1> QED BY <1>1, ListBare DEF Bare

\* The same of the list a call leaves.
LEMMA BareThen ==
  ASSUME AllKept', NEW p \in Live(projects)'
  PROVE  /\ projects'[p].tabIDs \in Seq(Tabs)
         /\ projects'[p].tabIDs = <<>> <=> Bare(p)'
         /\ FirstOrNone(projects'[p].tabIDs) = None => Bare(p)'
  <1>1. projects'[p].tabIDs \in Seq(Tabs) /\ Enumerates(projects'[p].tabIDs, TabsOf(p)')
    BY DEF AllKept, ProjectsKept, ProjectRecord, ListsKept
  <1>2. PICK ids, T : ids = projects'[p].tabIDs /\ T = TabsOf(p)'
    OBVIOUS
  <1>3. (ids = <<>> <=> T = {}) /\ (FirstOrNone(ids) = None => ids = <<>>)
    BY <1>1, <1>2, ListBare
  <1> QED BY <1>1, <1>2, <1>3 DEF Bare

\* A call that leaves panes, tabs and projects where they are.
LEMMA NothingMoves ==
  ASSUME UNCHANGED <<panes, tabs>>, Live(projects)' = Live(projects), ActiveBare'
  PROVE  Effect({}, {}, {}, {}) /\ Homes
  <1>1. PanesStay /\ Homes
    BY DEF PanesStay, Homes, Live
  <1>2. \A t : Lacking(t)' => Lacking(t)
    BY DEF Lacking, Normal, Live
  <1>3. \A p : Bare(p)' => Bare(p)
    BY DEF Bare, TabsOf, Live
  <1>4. Live(tabs)' = Live(tabs)
    BY DEF Live
  <1> QED BY <1>1, <1>2, <1>3, <1>4 DEF Effect

\* No call at all, and the two switches.
LEMMA NoCall ==
  ASSUME ActiveBare, UNCHANGED session
  PROVE  Effect({}, {}, {}, {}) /\ Homes
  <1>1. UNCHANGED <<panes, tabs>> /\ Live(projects)' = Live(projects)
    BY DEF session, Live
  <1>2. ActiveBare'
    BY DEF session, ActiveBare, Bare, TabsOf, Live
  <1> QED BY <1>1, <1>2, NothingMoves

\* SwitchTab: only what is active changes.
LEMMA SwitchTabEffect ==
  ASSUME AllKept, NEW t, SwitchTab(t)
  PROVE  Effect({}, {}, {}, {}) /\ Homes
  <1>1. UNCHANGED <<panes, tabs>> /\ Live(projects)' = Live(projects)
    BY DEF SwitchTab, Live
  <1>2. activeTab' # None
    BY SessionAssumption DEF SwitchTab, AllKept, TabsKept
  <1> QED BY <1>1, <1>2, NothingMoves DEF ActiveBare

\* SwitchProject lands on no tab only where the project has none.
LEMMA SwitchProjectEffect ==
  ASSUME AllKept, ActiveBare, NEW p, SwitchProject(p)
  PROVE  Effect({}, {}, {}, {}) /\ Homes
  <1>1. /\ UNCHANGED <<panes, tabs>> /\ p \in Live(projects) /\ activeProject' = p
        /\ activeTab' = IF LandingTab(p) = None THEN activeTab ELSE LandingTab(p)
        /\ projects' = IF LandingTab(p) = None THEN projects
                       ELSE [projects EXCEPT ![p].activeTab = LandingTab(p)]
    BY DEF SwitchProject
  <1>2. Live(projects)' = Live(projects)
    BY <1>1 DEF Live
  <1>3. CASE LandingTab(p) # None
    BY <1>1, <1>2, <1>3, NothingMoves DEF ActiveBare
  <1>4. CASE LandingTab(p) = None
    <2>1. None \notin Live(tabs)
      BY SessionAssumption DEF AllKept, TabsKept
    <2>2. FirstOrNone(projects[p].tabIDs) = None
      BY <1>4, <2>1 DEF LandingTab
    <2>3. Bare(p)
      BY <1>1, <2>2, BareNow
    <2>4. Bare(p)'
      BY <1>1, <2>3 DEF Bare, TabsOf, Live
    <2>5. ActiveBare'
      BY <1>1, <2>4 DEF ActiveBare
    <2> QED BY <1>1, <1>2, <2>5, NothingMoves
  <1> QED BY <1>3, <1>4

\* CreatePane: its tab lacks nothing any more.
LEMMA CreatePaneEffect ==
  ASSUME ActiveBare, NEW t, CreatePane(t, NewPane)
  PROVE  /\ Effect({}, {t}, {}, {}) /\ Homes /\ t \in Live(tabs) /\ Live(tabs)' = Live(tabs)
         /\ NewPane \notin Live(panes) /\ \A u : Normal(u) \subseteq Normal(u)'
  <1>1. PICK q : q = NewPane
    OBVIOUS
  <1>2. /\ t \in Live(tabs) /\ q \notin Live(panes)
        /\ panes' = [x \in Live(panes) \cup {q} |-> IF x = q THEN [tab |-> t, overlay |-> FALSE] ELSE panes[x]]
        /\ tabs' = [tabs EXCEPT ![t].panes = Append(@, q)]
        /\ UNCHANGED <<projects, activeTab, activeProject>>
    BY <1>1 DEF CreatePane, Put, Live
  <1>3. /\ Live(panes)' = Live(panes) \cup {q} /\ \A x \in Live(panes) : panes'[x] = panes[x]
        /\ panes'[q].tab = t /\ panes'[q].overlay = FALSE
    BY <1>2 DEF Live
  <1>4. Live(tabs)' = Live(tabs) /\ \A u \in Live(tabs) : tabs'[u].project = tabs[u].project
    BY <1>2 DEF Live
  <1>5. \A u : Normal(u) \subseteq Normal(u)'
    BY <1>3 DEF Normal
  <1>6. q \in Normal(t)'
    BY <1>3 DEF Normal
  <1>7. \A u : Lacking(u)' => Lacking(u) /\ u # t
    BY <1>5, <1>6 DEF Lacking
  <1>8. Live(projects)' = Live(projects) /\ \A p : TabsOf(p)' = TabsOf(p)
    BY <1>2, <1>4 DEF TabsOf, Live
  <1>9. ActiveBare' /\ \A p : Bare(p)' => Bare(p)
    BY <1>2, <1>8 DEF ActiveBare, Bare
  <1>10. PanesStay /\ Homes
    BY <1>1, <1>3, <1>4 DEF PanesStay, Homes
  <1> QED BY <1>1, <1>2, <1>4, <1>5, <1>7, <1>8, <1>9, <1>10 DEF Effect

\* The tabs that lose a pane a user can see with q.
LeftBy(q) == {t \in Live(tabs) : q \in Normal(t)}

\* DestroyPane, where the pane is still there.
LEMMA DiscardEffect ==
  ASSUME AllKept, ActiveBare, NEW q, Discard(q)
  PROVE  Effect(LeftBy(q), {}, {}, {}) /\ Homes
  <1>1. CASE q \notin Live(panes)
    <2>1. UNCHANGED session
      BY <1>1 DEF Discard
    <2>2. Effect({}, {}, {}, {}) /\ Homes
      BY <2>1, NoCall
    <2> QED BY <2>2 DEF Effect
  <1>2. CASE q \in Live(panes)
    <2>1. /\ panes' = [x \in Live(panes) \ {q} |-> panes[x]]
          /\ tabs' = [tabs EXCEPT ![panes[q].tab].panes = RemoveString(@, q)]
          /\ UNCHANGED <<projects, activeTab, activeProject>>
      BY <1>2 DEF Discard, DestroyPane, Without, Live
    <2>2. Live(panes)' = Live(panes) \ {q} /\ \A x \in Live(panes) \ {q} : panes'[x] = panes[x]
      BY <2>1 DEF Live
    <2>3. Live(tabs)' = Live(tabs) /\ \A u \in Live(tabs) : tabs'[u].project = tabs[u].project
      BY <2>1 DEF Live
    <2>4. \A u : Normal(u)' = Normal(u) \ {q}
      BY <2>2 DEF Normal
    <2>5. \A u \in Live(tabs) : Lacking(u)' => Lacking(u) \/ u \in LeftBy(q)
      BY <2>4 DEF Lacking, LeftBy
    <2>6. Live(projects)' = Live(projects) /\ \A p : TabsOf(p)' = TabsOf(p)
      BY <2>1, <2>3 DEF TabsOf, Live
    <2>7. ActiveBare' /\ \A p : Bare(p)' => Bare(p)
      BY <2>1, <2>6 DEF ActiveBare, Bare
    <2>8. PanesStay /\ Homes
      BY <2>2, <2>3 DEF PanesStay, Homes
    <2> QED BY <2>3, <2>5, <2>6, <2>7, <2>8 DEF Effect
  <1> QED BY <1>1, <1>2

\* ReplacePane: a pane takes the other's place.
LEMMA ReplaceEffect ==
  ASSUME AllKept, ActiveBare, NEW old, ReplacePane(old, NewPane)
  PROVE  /\ Effect({}, {}, {}, {}) /\ Homes /\ NewPane \in Live(panes)'
         /\ panes'[NewPane].tab = panes[old].tab
  <1>1. PICK q, t : q = NewPane /\ t = panes[old].tab
    OBVIOUS
  <1>2. /\ old \in Live(panes) /\ q \notin Live(panes)
        /\ panes' = [x \in (Live(panes) \ {old}) \cup {q} |->
                        IF x = q THEN [tab |-> t, overlay |-> FALSE] ELSE panes[x]]
        /\ tabs' = [tabs EXCEPT ![t].panes = ReplaceAt(@, IndexOf(@, old), q)]
        /\ UNCHANGED <<projects, activeTab, activeProject>>
    BY <1>1 DEF ReplacePane, Put, Without, Live
  <1>3. /\ Live(panes)' = (Live(panes) \ {old}) \cup {q}
        /\ \A x \in Live(panes) \ {old} : panes'[x] = panes[x]
        /\ panes'[q].tab = t /\ panes'[q].overlay = FALSE
    BY <1>2 DEF Live
  <1>4. Live(tabs)' = Live(tabs) /\ \A u \in Live(tabs) : tabs'[u].project = tabs[u].project
    BY <1>2 DEF Live
  <1>5. \A u : Normal(u) # {} => Normal(u)' # {}
    <2> SUFFICES ASSUME NEW u, NEW x \in Normal(u) PROVE Normal(u)' # {}
      OBVIOUS
    <2>1. CASE x # old
      BY <1>3, <2>1 DEF Normal
    <2>2. CASE x = old
      <3>1. u = t
        BY <1>1, <2>2 DEF Normal
      <3> QED BY <1>3, <3>1 DEF Normal
    <2> QED BY <2>1, <2>2
  <1>6. Live(projects)' = Live(projects) /\ \A p : TabsOf(p)' = TabsOf(p)
    BY <1>2, <1>4 DEF TabsOf, Live
  <1>7. ActiveBare' /\ \A p : Bare(p)' => Bare(p)
    BY <1>2, <1>6 DEF ActiveBare, Bare
  <1>8. PanesStay /\ Homes
    BY <1>1, <1>3, <1>4 DEF PanesStay, Homes
  <1> QED BY <1>1, <1>3, <1>4, <1>5, <1>6, <1>7, <1>8 DEF Effect, Lacking

\* createTabLocked: the new tab lacks a pane, its project no tab any more.
LEMMA CreateTabEffect ==
  ASSUME AllKept, NEW p, CreateTab(p, NewTab, NewProj)
  PROVE  Effect({NewTab}, {}, {}, {p}) /\ Homes
  <1>1. PICK t, target : t = NewTab /\ target = TabTarget(p, NewProj)
    OBVIOUS
  <1>2. PICK known : known = IF target \in Live(projects) THEN projects
                             ELSE Put(projects, target, NewProject(TRUE))
    OBVIOUS
  <1>3. /\ t \in Tabs /\ t \notin Live(tabs) /\ panes' = panes
        /\ projects' = [known EXCEPT ![target].tabIDs = Append(@, t),
                                     ![target].activeTab = IF @ = None THEN t ELSE @]
        /\ tabs' = [x \in Live(tabs) \cup {t} |-> IF x = t THEN [panes |-> <<>>, project |-> target] ELSE tabs[x]]
        /\ activeTab' = IF activeTab = None THEN t ELSE activeTab
    BY <1>1, <1>2 DEF CreateTab, Put, Live
  <1>4. Live(projects)' = Live(projects) \cup {target}
    <2>1. DOMAIN projects' = DOMAIN known
      BY <1>3
    <2>2. DOMAIN known = Live(projects) \cup {target}
      BY <1>2 DEF Put, Live
    <2> QED BY <2>1, <2>2 DEF Live
  <1>5. /\ Live(tabs)' = Live(tabs) \cup {t} /\ \A u \in Live(tabs) : tabs'[u] = tabs[u]
        /\ tabs'[t].project = target
    BY <1>3 DEF Live
  <1>6. \A u : Lacking(u)' => Lacking(u)
    BY <1>3 DEF Lacking, Normal, Live
  <1>7. p \in Live(projects) => target = p
    BY <1>1 DEF TabTarget
  <1>8. ASSUME NEW x \in Live(projects)', Bare(x)' PROVE x \in Live(projects) /\ Bare(x) /\ x # p
    <2>1. x # target
      BY <1>5, <1>8 DEF Bare, TabsOf
    <2>2. x \in Live(projects)
      BY <1>4, <2>1
    <2>3. Bare(x)
      BY <1>5, <1>8 DEF Bare, TabsOf
    <2> QED BY <1>7, <2>1, <2>2, <2>3
  <1>9. ActiveBare'
    BY <1>3, SessionAssumption DEF ActiveBare
  <1>10. PanesStay /\ Homes
    BY <1>1, <1>3, <1>5 DEF PanesStay, Homes, Live
  <1> QED BY <1>1, <1>5, <1>6, <1>8, <1>9, <1>10 DEF Effect

\* CreateProject: the new project has no tab.
LEMMA CreateProjectEffect ==
  ASSUME AllKept, ActiveBare, NEW p, CreateProject(p)
  PROVE  Effect({}, {}, {p}, {}) /\ Homes
  <1>1. /\ p \notin Live(projects) /\ UNCHANGED <<tabs, panes, activeTab>>
        /\ Live(projects)' = Live(projects) \cup {p}
        /\ activeProject' = IF activeProject = None THEN p ELSE activeProject
    BY DEF CreateProject, Put, Live
  <1>2. \A t \in Live(tabs) : tabs[t].project \in Live(projects)
    BY DEF AllKept, TabsKept
  <1>3. \A x : Bare(x)' <=> Bare(x)
    BY <1>1 DEF Bare, TabsOf, Live
  <1>4. Bare(p)
    BY <1>1, <1>2 DEF Bare, TabsOf
  <1>5. ActiveBare'
    <2>1. CASE activeProject = None
      BY <1>1, <1>3, <1>4, <2>1 DEF ActiveBare
    <2>2. CASE activeProject # None
      <3>1. activeProject \in Live(projects)
        BY <2>2 DEF AllKept, ActivesKept
      <3> QED BY <1>1, <1>3, <2>2, <3>1 DEF ActiveBare
    <2> QED BY <2>1, <2>2
  <1>6. \A u : Lacking(u)' => Lacking(u)
    BY <1>1 DEF Lacking, Normal, Live
  <1>7. PanesStay /\ Homes /\ Live(tabs)' = Live(tabs)
    BY <1>1 DEF PanesStay, Homes, Live
  <1> QED BY <1>1, <1>3, <1>5, <1>6, <1>7 DEF Effect

\* DestroyTab: its project may be left without one.
LEMMA DestroyTabEffect ==
  ASSUME AllKept, AllKept', ActiveBare, NEW t, DestroyTab(t), NEW p, p = tabs[t].project
  PROVE  Effect({}, {}, {p}, {}) /\ Homes
  <1>1. /\ t \in Live(tabs) /\ tabs' = [x \in Live(tabs) \ {t} |-> tabs[x]]
        /\ panes' = [x \in Live(panes) \ ToSet(tabs[t].panes) |-> panes[x]]
        /\ activeTab' = IF activeTab # t THEN activeTab
                        ELSE IF Successor(t) # None THEN Successor(t)
                        ELSE FirstOrNone(tabOrder')
        /\ activeProject' = activeProject
    BY DEF DestroyTab, Without, Live
  <1>2. ToSet(tabs[t].panes) = PanesOf(t)
    BY <1>1 DEF AllKept, PanesKept, Enumerates
  <1>3. Live(tabs)' = Live(tabs) \ {t} /\ \A u \in Live(tabs) \ {t} : tabs'[u] = tabs[u]
    BY <1>1 DEF Live
  <1>4. Live(panes)' = Live(panes) \ PanesOf(t) /\ \A x \in Live(panes) \ PanesOf(t) : panes'[x] = panes[x]
    BY <1>1, <1>2 DEF Live
  <1>5. \A u \in Live(tabs)' : Lacking(u)' => Lacking(u)
    <2> SUFFICES ASSUME NEW u \in Live(tabs)', NEW x \in Normal(u) PROVE x \in Normal(u)'
      BY DEF Lacking
    <2>1. x \notin PanesOf(t)
      BY <1>3 DEF Normal, PanesOf
    <2> QED BY <1>4, <2>1 DEF Normal
  <1>6. Live(projects)' = Live(projects)
    BY DEF DestroyTab, Live
  <1>7. \A x : (Bare(x) => Bare(x)') /\ (x # p /\ Bare(x)' => Bare(x))
    BY <1>3 DEF Bare, TabsOf
  <1>8. ActiveBare'
    <2>1. CASE activeTab # t
      BY <1>1, <1>6, <1>7, <2>1 DEF ActiveBare
    <2>2. CASE activeTab = t /\ activeTab' = None
      <3>1. FirstOrNone(tabOrder') = None
        BY <1>1, <2>2
      <3>2. tabOrder' \in Seq(Tabs) /\ Enumerates(tabOrder', Live(tabs)')
        BY DEF AllKept, TabsKept
      <3>3. PICK s, T : s = tabOrder' /\ T = Live(tabs)'
        OBVIOUS
      <3>4. T = {}
        BY <3>1, <3>2, <3>3, ListBare
      <3>5. \A x : Bare(x)'
        BY <3>3, <3>4 DEF Bare, TabsOf
      <3> QED BY <3>5 DEF ActiveBare
    <2> QED BY <2>1, <2>2 DEF ActiveBare
  <1>9. PanesStay /\ Homes
    BY <1>3, <1>4 DEF PanesStay, Homes
  <1> QED BY <1>3, <1>5, <1>6, <1>7, <1>8, <1>9 DEF Effect

\* DestroyProject: all that goes goes with it.
LEMMA DestroyProjectEffect ==
  ASSUME AllKept, AllKept', NEW p, DestroyProject(p)
  PROVE  Effect({}, {}, {}, {}) /\ Homes
  <1>1. PICK gone : gone = ToSet(projects[p].tabIDs)
    OBVIOUS
  <1>2. /\ p \in Live(projects) /\ tabs' = [x \in Live(tabs) \ gone |-> tabs[x]]
        /\ panes' = [x \in Live(panes) \ {q \in Live(panes) : panes[q].tab \in gone} |-> panes[x]]
        /\ projects' = Without(projects, {p})
        /\ activeTab' = IF activeProject' \notin Live(projects') THEN None
                        ELSE IF projects'[activeProject'].activeTab # None THEN projects'[activeProject'].activeTab
                        ELSE FirstOrNone(projects'[activeProject'].tabIDs)
    BY <1>1 DEF DestroyProject, Without, Live
  <1>3. gone = TabsOf(p)
    BY <1>1, <1>2 DEF AllKept, ListsKept, Enumerates
  <1>4. Live(tabs)' = Live(tabs) \ gone /\ \A u \in Live(tabs) \ gone : tabs'[u] = tabs[u]
    BY <1>2 DEF Live
  <1>5. /\ Live(panes)' = {x \in Live(panes) : panes[x].tab \notin gone}
        /\ \A x \in Live(panes)' : panes'[x] = panes[x]
    BY <1>2 DEF Live
  <1>6. Live(projects)' = Live(projects) \ {p}
    BY <1>2 DEF Without, Live
  <1>7. \A u \in Live(tabs)' : Lacking(u)' => Lacking(u)
    BY <1>4, <1>5 DEF Lacking, Normal
  <1>8. \A x : x # p /\ Bare(x)' => Bare(x)
    BY <1>3, <1>4 DEF Bare, TabsOf
  <1>9. ActiveBare'
    <2> SUFFICES ASSUME activeTab' = None, activeProject' \in Live(projects)' PROVE Bare(activeProject)'
      BY DEF ActiveBare
    <2>1. PICK a : a = activeProject'
      OBVIOUS
    <2>2. a \in Live(projects)' /\ FirstOrNone(projects'[a].tabIDs) = None
      BY <1>2, <2>1 DEF Live
    <2>3. Bare(a)'
      BY <2>2, BareThen
    <2> QED BY <2>1, <2>3 DEF Bare, TabsOf
  <1>10. PanesStay /\ Homes
    BY <1>4, <1>5 DEF PanesStay, Homes
  <1> QED BY <1>4, <1>6, <1>7, <1>8, <1>9, <1>10 DEF Effect

\* MergeProjects of one project: the survivor may be as empty as both were.
LEMMA MergeEffect ==
  ASSUME AllKept, AllKept', ActiveBare, NEW into, NEW p \in Live(projects), MergeProjects(into, <<p>>)
  PROVE  Effect({}, {}, {into}, {})
  <1>1. PICK absorb, own, last, dropped, moved, ids, active, act :
           /\ absorb = <<p>>
           /\ own = projects[into].tabIDs /\ last = projects[into].activeTab
           /\ dropped = Dropped(into, absorb) /\ moved = Moved(into, absorb) /\ ids = own \o moved
           /\ active = (IF activeProject \in dropped THEN into ELSE activeProject)
           /\ act = (IF active = into THEN MergedActive(ids, last) ELSE <<activeTab, last>>)
    OBVIOUS
  <1>2. /\ into \in Live(projects)
        /\ tabs' = [t \in Live(tabs) |-> IF Contains(moved, t) THEN [tabs[t] EXCEPT !.project = into] ELSE tabs[t]]
        /\ projects' = [Without(projects, dropped) EXCEPT
                          ![into] = [tabIDs |-> ids, activeTab |-> act[2], bootstrap |-> FALSE]]
        /\ activeProject' = active /\ activeTab' = act[1] /\ panes' = panes
    BY <1>1 DEF MergeProjects
  <1>3. into \notin dropped /\ Live(projects)' = Live(projects) \ dropped /\ projects'[into].tabIDs = ids
    BY <1>1, <1>2 DEF Dropped, Without, Live
  <1>4. Enumerates(moved, {t \in Live(tabs) : tabs[t].project \in dropped})
    <2>1. \A x \in Live(projects) :
             /\ projects[x].tabIDs \in Seq(Tabs)
             /\ Enumerates(projects[x].tabIDs, {t \in Live(tabs) : tabs[t].project = x})
      BY DEF AllKept, ProjectsKept, ProjectRecord, ListsKept, TabsOf
    <2>2. Len(absorb) \in Nat /\ DOMAIN absorb = 1 .. Len(absorb)
      BY <1>1
    <2>3. Enumerates(Moved(into, absorb), {t \in Live(tabs) : tabs[t].project \in Dropped(into, absorb)})
      BY <2>1, <2>2, MovedSound
    <2> QED BY <1>1, <2>3
  <1>5. \A t \in Live(tabs) : Contains(moved, t) => tabs[t].project \in dropped
    BY <1>4 DEF Enumerates, Contains, ToSet
  <1>6. Live(tabs)' = Live(tabs) /\ \A t \in Live(tabs) : tabs[t].project \notin dropped => tabs'[t] = tabs[t]
    BY <1>2, <1>5 DEF Live
  <1>7. ASSUME NEW x \in Live(projects)', Bare(x)', x # into PROVE x \in Live(projects) /\ Bare(x)
    BY <1>3, <1>6, <1>7 DEF Bare, TabsOf
  <1>8. \A u : Lacking(u)' => Lacking(u)
    BY <1>2 DEF Lacking, Normal, Live
  <1>9. PanesStay
    BY <1>2 DEF PanesStay, Live
  <1>10. ActiveBare'
    <2> SUFFICES ASSUME activeTab' = None, activeProject' \in Live(projects)' PROVE Bare(activeProject)'
      BY DEF ActiveBare
    <2>1. CASE active = into
      <3>1. ids \in Seq(Tabs) /\ (ids = <<>> => Bare(into)') /\ None \notin Tabs
        <4>1. into \in Live(projects)'
          BY <1>2, <1>3
        <4> QED BY <1>3, <4>1, BareThen, SessionAssumption
      <3>2. act = MergedActive(ids, last) /\ act[1] = None
        BY <1>1, <1>2, <2>1
      <3>3. ids = <<>>
        <4>1. Contains(ids, None) => FALSE
          BY <3>1 DEF Contains
        <4>2. ids # <<>> => Head(ids) # None
          BY <3>1
        <4> QED BY <3>2, <4>1, <4>2 DEF MergedActive
      <3>4. PICK a : a = activeProject'
        OBVIOUS
      <3>5. Bare(a)'
        BY <1>2, <2>1, <3>1, <3>3, <3>4
      <3> QED BY <3>4, <3>5 DEF Bare, TabsOf
    <2>2. CASE active # into
      <3>1. active = activeProject /\ activeTab = None /\ activeProject \in Live(projects) /\ active \notin dropped
        BY <1>1, <1>2, <1>3, <2>2
      <3>2. Bare(activeProject)
        BY <3>1 DEF ActiveBare
      <3>3. activeProject' = activeProject
        BY <1>2, <3>1
      <3>4. \A t \in Live(tabs) : tabs'[t].project # activeProject
        <4> SUFFICES ASSUME NEW t \in Live(tabs) PROVE tabs'[t].project # activeProject
          OBVIOUS
        <4>1. tabs[t].project # activeProject
          BY <3>2 DEF Bare, TabsOf
        <4>2. CASE Contains(moved, t)
          <5>1. tabs[t] \in TabRecord
            BY DEF AllKept, TabsKept
          <5>2. tabs'[t].project = into
            BY <1>2, <4>2, <5>1 DEF TabRecord
          <5> QED BY <2>2, <3>1, <5>2
        <4>3. CASE ~Contains(moved, t)
          BY <1>2, <4>1, <4>3
        <4> QED BY <4>2, <4>3
      <3> QED BY <1>6, <3>3, <3>4 DEF Bare, TabsOf
    <2> QED BY <2>1, <2>2
  <1> QED BY <1>6, <1>7, <1>8, <1>9, <1>10 DEF Effect

-----------------------------------------------------------------------------
(* Who pays for it                                                           *)

Turned(w) == WorkShaped' /\ \A v \in Workers : v # w => work'[v] = work[v]
MixKept == mix'.ops = mix.ops /\ mix'.width = mix.width /\ DOMAIN mix' = DOMAIN mix
Served(w) == work[w].pc # "idle" \/ (mix.width = 1 => Alone(w))

\* Worker w owes what its call leaves lacking, and goes on owing what it owed
\* unless the call paid for it.
Pays(w, L, F, B, S) ==
    /\ \A t \in L : "badImage" \in Ops \/ OwesTab(w, t)'
    /\ \A t \in Live(tabs) : Lacking(t) /\ OwesTab(w, t) => t \in F \/ OwesTab(w, t)'
    /\ \A p \in B : OwesProj(w, p)'
    /\ \A p \in Live(projects) : Bare(p) /\ OwesProj(w, p) => p \in S \/ OwesProj(w, p)'

Careful(w) ==
    /\ Turned(w) /\ Served(w) /\ MixKept /\ (Homes \/ Alone(w)) /\ Mem(w)'
    /\ \E L, F, B, S : Effect(L, F, B, S) /\ Pays(w, L, F, B, S)

\* Between two calls of sound handlers, with identifiers left.
Between == AllKept /\ AllKept' /\ WorkShaped /\ Debts /\ IdsLeft

\* A new identifier is not remembered by any worker.
LEMMA NewOnes ==
  ASSUME IdsLeft
  PROVE  /\ \A w \in Workers : work[w].tab # NewTab /\ work[w].pane # NewPane /\ NewPane \notin work[w].todo
         /\ NewPane \notin Live(panes) /\ NewTab \notin Live(tabs)
  <1>1. NewTab \in FreeTabs /\ NewPane \in FreePanes
    BY DEF IdsLeft, NewTab, NewPane
  <1> QED BY <1>1 DEF FreeTabs, FreePanes

\* What the other workers remember stays true.
LEMMA OthersRemember ==
  ASSUME Between, NEW w \in Workers, Careful(w), NEW v \in Workers, v # w
  PROVE  Mem(v)'
  <1>1. /\ work'[v] = work[v] /\ Mem(v) /\ mix'.ops = mix.ops /\ PanesStay /\ (Homes \/ Alone(w))
        /\ \A t \in Live(tabs)' : t = NewTab \/ t \in Live(tabs)
    BY DEF Between, Debts, Careful, Turned, MixKept, Effect
  <1>2. work[v].tab # NewTab /\ work[v].pane # NewPane /\ NewPane \notin work[v].todo
    BY NewOnes DEF Between
  <1>3. PaneMem(v)'
    BY <1>1, <1>2 DEF Mem, PaneMem, PanesStay
  <1>4. TodoMem(v)'
    BY <1>1, <1>2 DEF Mem, TodoMem, PanesStay
  <1>5. TabMem(v)'
    <2>1. CASE Homes
      BY <1>1, <1>2, <2>1 DEF Mem, TabMem, Homes
    <2>2. CASE Alone(w)
      BY <1>1, <2>2 DEF Alone, TabMem
    <2> QED BY <1>1, <2>1, <2>2
  <1>6. KindMem(v)'
    BY <1>1 DEF Mem, KindMem, Ops
  <1>7. FlagMem(v)'
    <2>1. CASE "badImage" \in Ops
      BY <1>1, <2>1 DEF Mem, FlagMem, Ops
    <2>2. CASE "badImage" \notin Ops
      <3>1. ASSUME work[v].pc = "flag" PROVE FALSE
        <4>1. mix.width = 1
          BY <1>1, <2>2, <3>1 DEF Mem, FlagMem, Between, Debts, Orderly
        <4>2. Served(w)
          BY DEF Careful
        <4> QED BY <3>1, <4>1, <4>2 DEF Served, Alone, Between, Debts, Solo
      <3> QED BY <1>1, <3>1 DEF FlagMem
    <2> QED BY <2>1, <2>2
  <1> QED BY <1>3, <1>4, <1>5, <1>6, <1>7 DEF Mem

\* A step that pays keeps the books.
LEMMA BooksKept ==
  ASSUME Between, NEW w \in Workers, Careful(w)
  PROVE  Debts'
  <1>1. PICK L, F, B, S : Effect(L, F, B, S) /\ Pays(w, L, F, B, S)
    BY DEF Careful
  <1>2. /\ WorkShaped' /\ \A v \in Workers : v # w => work'[v] = work[v]
        /\ mix'.ops = mix.ops /\ mix'.width = mix.width /\ DOMAIN mix' = DOMAIN mix
    BY DEF Careful, Turned, MixKept
  <1>3. Orderly'
    BY <1>2 DEF Between, Debts, Orderly, Ops
  <1>4. Solo'
    <2>1. ASSUME mix.width = 1 PROVE Alone(w)
      BY <2>1 DEF Careful, Served, Alone, Between, Debts, Solo
    <2>2. ASSUME mix.width = 1, NEW v \in Workers, v # w PROVE work'[v].pc = "idle"
      BY <1>2, <2>1, <2>2 DEF Alone
    <2> QED BY <1>2, <2>2 DEF Solo
  <1>5. Filled'
    <2> SUFFICES ASSUME "badImage" \notin Ops', NEW t \in Live(tabs)', Lacking(t)'
                 PROVE  \E v \in Workers : OwesTab(v, t)'
      BY DEF Filled
    <2>1. "badImage" \notin Ops
      BY <1>2 DEF Ops
    <2>2. CASE t \in L
      BY <1>1, <2>1, <2>2 DEF Pays
    <2>3. CASE t \notin L
      <3>1. t \in Live(tabs) /\ Lacking(t) /\ t \notin F
        BY <1>1, <2>3 DEF Effect
      <3>2. PICK v \in Workers : OwesTab(v, t)
        BY <2>1, <3>1 DEF Between, Debts, Filled
      <3>3. CASE v = w
        BY <1>1, <3>1, <3>2, <3>3 DEF Pays
      <3>4. CASE v # w
        BY <1>2, <3>2, <3>4 DEF OwesTab
      <3> QED BY <3>3, <3>4
    <2> QED BY <2>2, <2>3
  <1>6. Peopled'
    <2> SUFFICES ASSUME NEW p \in Live(projects)', Bare(p)' PROVE \E v \in Workers : OwesProj(v, p)'
      BY DEF Peopled
    <2>2. CASE p \in B
      BY <1>1, <2>2 DEF Pays
    <2>3. CASE p \notin B
      <3>1. p \in Live(projects) /\ Bare(p) /\ p \notin S
        BY <1>1, <2>3 DEF Effect
      <3>2. PICK v \in Workers : OwesProj(v, p)
        BY <3>1 DEF Between, Debts, Peopled
      <3>3. CASE v = w
        BY <1>1, <3>1, <3>2, <3>3 DEF Pays
      <3>4. CASE v # w
        BY <1>2, <3>2, <3>4 DEF OwesProj
      <3> QED BY <3>3, <3>4
    <2> QED BY <2>2, <2>3
  <1>7. ActiveBare'
    BY <1>1 DEF Effect
  <1>8. ASSUME NEW v \in Workers PROVE Mem(v)'
    <2>1. CASE v = w
      BY <2>1 DEF Careful
    <2> QED BY <2>1, OthersRemember
  <1> QED BY <1>3, <1>4, <1>5, <1>6, <1>7, <1>8 DEF Debts

-----------------------------------------------------------------------------
(* Every step pays                                                           *)

\* What a worker remembers after Go.
LEMMA GoRecalls ==
  ASSUME WorkShaped, NEW w \in Workers, NEW pc, NEW mem, Go(w, pc, mem)
  PROVE  /\ Turned(w) /\ work'[w].pc = pc
         /\ work'[w].tab = IF "tab" \in DOMAIN mem THEN mem["tab"] ELSE work[w].tab
         /\ work'[w].proj = IF "proj" \in DOMAIN mem THEN mem["proj"] ELSE work[w].proj
         /\ work'[w].pane = IF "pane" \in DOMAIN mem THEN mem["pane"] ELSE work[w].pane
         /\ work'[w].kind = IF "kind" \in DOMAIN mem THEN mem["kind"] ELSE work[w].kind
         /\ work'[w].todo = IF "todo" \in DOMAIN mem THEN mem["todo"] ELSE work[w].todo
  <1>1. PICK r : r = [f \in WorkFields |-> IF f = "pc" THEN pc ELSE IF f \in DOMAIN mem THEN mem[f] ELSE work[w][f]]
    OBVIOUS
  <1>2. DOMAIN work = Workers /\ DOMAIN work[w] = WorkFields
    BY DEF WorkShaped
  <1>3. work' = [work EXCEPT ![w] = r]
    BY <1>1, <1>2 DEF Go
  <1>4. work'[w] = r
    BY <1>2, <1>3
  <1>5. /\ r["tab"] = IF "tab" \in DOMAIN mem THEN mem["tab"] ELSE work[w]["tab"]
        /\ r["proj"] = IF "proj" \in DOMAIN mem THEN mem["proj"] ELSE work[w]["proj"]
        /\ r["kind"] = IF "kind" \in DOMAIN mem THEN mem["kind"] ELSE work[w]["kind"]
    BY <1>1 DEF WorkFields
  <1> QED BY <1>4, <1>5, GoSays DEF Turned

\* A worker that finishes owes and remembers nothing.
LEMMA FinishForgets ==
  ASSUME WorkShaped, NEW w \in Workers, Finish(w)
  PROVE  Turned(w) /\ Mem(w)'
  <1>1. Turned(w) /\ work'[w].pc = "idle"
    BY FinishSays DEF Turned, Idle
  <1> QED BY <1>1 DEF Mem, PaneMem, TodoMem, TabMem, KindMem, FlagMem

\* Nor does one at a label that speaks of nothing.
Silent == {"idle", "attachTab", "attachPane", "panic", "firstPaneReq", "cap", "ensure", "recoverTab",
           "recoverPane", "addTree", "swapTree", "destroyProj", "readActive", "recoverProj", "shellTab",
           "shellPane", "landing", "land"}
\* A worker at such a label has nothing to remember rightly.
LEMMA SilentOnes ==
  ASSUME NEW w \in Workers, work'[w].pc \in Silent
  PROVE  Mem(w)'
  BY DEF Mem, PaneMem, TodoMem, TabMem, KindMem, FlagMem, Silent

\* A request is taken by a worker that owes nothing.
Owing(w) == work[w].pc \in Filling \cup Stocking
\* A request is taken beside no other one, where the mix says so.
LEMMA TakeSays ==
  ASSUME Orderly, NEW w \in Workers, NEW op, Take(w, op)
  PROVE  /\ MixKept /\ Served(w) /\ work[w].pc = "idle" /\ ~Owing(w) /\ op \in Ops
         /\ (mix.width = 1 => Alone(w))
  <1>1. MixKept /\ work[w].pc = "idle" /\ op \in Ops
    BY DEF Take, MixKept, Orderly
  <1>2. ASSUME mix.width = 1 PROVE Alone(w)
    <2>1. PICK D : D = {v \in Workers : work[v].pc # "idle"}
      OBVIOUS
    <2>2. IsFiniteSet(D)
      BY <2>1, WorkspaceAssumption, FS_Subset
    <2>3. Cardinality(D) \in Nat /\ Cardinality(D) < 1
      BY <1>2, <2>1, <2>2, FS_CardinalityType DEF Take
    <2>4. D = {}
      BY <2>2, <2>3, FS_EmptySet
    <2> QED BY <2>1, <2>4 DEF Alone
  <1> QED BY <1>1, <1>2 DEF Served, Owing, Filling, Stocking

\* A worker that goes on was being served.
LEMMA AtSays ==
  ASSUME NEW w \in Workers, NEW pc, pc # "idle", At(w, pc)
  PROVE  MixKept /\ Served(w) /\ work[w].pc = pc
  BY DEF At, MixKept, Served

\* A step of a worker that owes nothing, and leaves nothing lacking.
LEMMA Harmless ==
  ASSUME Between, NEW w \in Workers, Effect({}, {}, {}, {}), Homes, Turned(w), Served(w), MixKept, Mem(w)',
         ~Owing(w)
  PROVE  Careful(w)
  <1>1. Pays(w, {}, {}, {}, {})
    BY DEF Pays, Owing, OwesTab, OwesProj
  <1> QED BY <1>1 DEF Careful

\* What was paid for need not be mentioned.
LEMMA EffectLess ==
  ASSUME NEW L, NEW F, NEW B, NEW S, Effect(L, F, B, S)
  PROVE  Effect(L, {}, B, {})
  BY DEF Effect

\* A tab is made by a worker that goes on to fill it.
LEMMA NewTabPays ==
  ASSUME Between, NEW w \in Workers, NEW p, CreateTab(p, NewTab, NewProj), Turned(w), Served(w), MixKept,
         Mem(w)', ~Owing(w) \/ (work[w].pc = "shellTab" /\ work[w].proj = p),
         work'[w].pc \in Filling, work'[w].tab = NewTab
  PROVE  Careful(w)
  <1>1. Effect({NewTab}, {}, {}, {p}) /\ Homes
    BY CreateTabEffect DEF Between
  <1>2. Pays(w, {NewTab}, {}, {}, {p})
    BY DEF Pays, Owing, OwesTab, OwesProj, Filling
  <1> QED BY <1>1, <1>2 DEF Careful

\* The requests for a tab, and the steps that make one.
LEMMA HandleCreateTabPays ==
  ASSUME Between, NEW w \in Workers, NEW p, NEW kind, HandleCreateTab(w, p, kind)
  PROVE  Careful(w)
  <1>1. /\ CreateTab(p, NewTab, NewProj) /\ Go(w, "switchNew", [tab |-> NewTab, kind |-> kind])
        /\ kind \in {"plain"} \cup (Ops \cap {"badImage", "worktree"})
    BY DEF HandleCreateTab
  <1>2. MixKept /\ Served(w) /\ ~Owing(w)
    BY TakeSays DEF HandleCreateTab, Between, Debts
  <1>3. Turned(w) /\ work'[w].pc = "switchNew" /\ work'[w].tab = NewTab /\ work'[w].kind = kind
    BY <1>1, GoRecalls DEF Between
  <1>4. Mem(w)'
    BY <1>1, <1>2, <1>3 DEF Mem, PaneMem, TodoMem, TabMem, KindMem, FlagMem, Ops, MixKept
  <1>5. work'[w].pc \in Filling
    BY <1>3 DEF Filling
  <1> QED BY <1>1, <1>2, <1>3, <1>4, <1>5, NewTabPays

\* The request form of it.
LEMMA HandleCreateTabReqPays ==
  ASSUME Between, NEW w \in Workers, NEW p, NEW kind, HandleCreateTabReq(w, p, kind)
  PROVE  Careful(w)
  <1>1. CreateTab(p, NewTab, NewProj) /\ Go(w, "firstPaneReq", [tab |-> NewTab, kind |-> kind])
    BY DEF HandleCreateTabReq
  <1>2. MixKept /\ Served(w) /\ ~Owing(w)
    BY TakeSays DEF HandleCreateTabReq, Between, Debts
  <1>3. Turned(w) /\ work'[w].pc = "firstPaneReq" /\ work'[w].tab = NewTab
    BY <1>1, GoRecalls DEF Between
  <1>4. Mem(w)' /\ work'[w].pc \in Filling
    BY <1>3, SilentOnes DEF Silent, Filling
  <1> QED BY <1>1, <1>2, <1>3, <1>4, NewTabPays

\* The default workspace's tab.
LEMMA AttachTabPays ==
  ASSUME Between, NEW w \in Workers, AttachTab(w)
  PROVE  Careful(w)
  <1>1. CreateTab(None, NewTab, NewProj) /\ Go(w, "attachPane", [tab |-> NewTab])
    BY DEF AttachTab
  <1>2. MixKept /\ Served(w) /\ work[w].pc = "attachTab"
    BY AtSays DEF AttachTab
  <1>3. Turned(w) /\ work'[w].pc = "attachPane" /\ work'[w].tab = NewTab
    BY <1>1, GoRecalls DEF Between
  <1>4. Mem(w)' /\ work'[w].pc \in Filling /\ ~Owing(w)
    BY <1>2, <1>3, SilentOnes DEF Silent, Filling, Stocking, Owing
  <1> QED BY <1>1, <1>2, <1>3, <1>4, NewTabPays

\* The tab that recovers a project is what its worker owed.
LEMMA ShellTabPays ==
  ASSUME Between, NEW w \in Workers, ShellTab(w)
  PROVE  Careful(w)
  <1>1. PICK p : p = work[w].proj
    OBVIOUS
  <1>2. CreateTab(p, NewTab, NewProj) /\ Go(w, "shellPane", [tab |-> NewTab])
    BY <1>1 DEF ShellTab
  <1>3. MixKept /\ Served(w) /\ work[w].pc = "shellTab"
    BY AtSays DEF ShellTab
  <1>4. Turned(w) /\ work'[w].pc = "shellPane" /\ work'[w].tab = NewTab
    BY <1>2, GoRecalls DEF Between
  <1>5. Mem(w)' /\ work'[w].pc \in Filling
    BY <1>4, SilentOnes DEF Silent, Filling
  <1> QED BY <1>1, <1>2, <1>3, <1>4, <1>5, NewTabPays

\* A pane is made in the tab its worker owes one, if that tab is still there.
FillOrGone(w, t) == IF t \in Live(tabs) THEN CreatePane(t, NewPane) ELSE UNCHANGED session

\* The pane is what its worker owed, and with the tab gone nothing is.
LEMMA FillPays ==
  ASSUME Between, NEW w \in Workers, NEW t, t = work[w].tab, FillOrGone(w, t), Turned(w), Served(w), MixKept,
         Mem(w)', work[w].pc \in Filling
  PROVE  Careful(w)
  <1>1. Effect({}, {t}, {}, {}) /\ Homes
    <2>1. CASE t \in Live(tabs)
      BY <2>1, CreatePaneEffect DEF FillOrGone, Between, Debts
    <2>2. CASE t \notin Live(tabs)
      BY <2>2, NoCall DEF FillOrGone, Between, Debts, Effect
    <2> QED BY <2>1, <2>2
  <1>2. Pays(w, {}, {t}, {}, {})
    BY DEF Pays, OwesTab, OwesProj, Filling, Stocking
  <1> QED BY <1>1, <1>2 DEF Careful

\* The steps that make the pane their worker owes.
LEMMA FirstPanePays ==
  ASSUME Between, NEW w \in Workers, FirstPane(w)
  PROVE  Careful(w)
  <1>1. PICK t : t = work[w].tab
    OBVIOUS
  <1>2. MixKept /\ Served(w) /\ work[w].pc = "firstPane" /\ WorkShaped
    BY AtSays DEF FirstPane, Between
  <1>3. FillOrGone(w, t)
    BY <1>1 DEF FirstPane, FillOrGone
  <1>4. \/ Finish(w)
        \/ work[w].kind = "badImage" /\ Go(w, "reject", [pane |-> NewPane])
        \/ Go(w, "addTree", [pane |-> NewPane])
    BY DEF FirstPane
  <1>5. Turned(w) /\ Mem(w)'
    <2>1. CASE Finish(w)
      BY <1>2, <2>1, FinishForgets
    <2>2. CASE work[w].kind = "badImage" /\ Go(w, "reject", [pane |-> NewPane])
      <3>1. Turned(w) /\ work'[w].pc = "reject"
        BY <1>2, <2>2, GoRecalls
      <3>2. "badImage" \in Ops'
        BY <1>2, <2>2 DEF Between, Debts, Mem, KindMem, MixKept, Ops
      <3> QED BY <3>1, <3>2 DEF Mem, PaneMem, TodoMem, TabMem, KindMem, FlagMem
    <2>3. CASE Go(w, "addTree", [pane |-> NewPane])
      <3>1. Turned(w) /\ work'[w].pc = "addTree"
        BY <1>2, <2>3, GoRecalls
      <3> QED BY <3>1, SilentOnes DEF Silent
    <2> QED BY <1>4, <2>1, <2>2, <2>3
  <1>6. work[w].pc \in Filling
    BY <1>2 DEF Filling
  <1> QED BY <1>1, <1>2, <1>3, <1>5, <1>6, FillPays

\* The request form of it.
LEMMA FirstPaneReqPays ==
  ASSUME Between, NEW w \in Workers, FirstPaneReq(w)
  PROVE  Careful(w)
  <1>1. PICK t : t = work[w].tab
    OBVIOUS
  <1>2. MixKept /\ Served(w) /\ work[w].pc = "firstPaneReq" /\ WorkShaped
    BY AtSays DEF FirstPaneReq, Between
  <1>3. CASE t \in Live(tabs)
    <2>1. CreatePane(t, NewPane) /\ FillOrGone(w, t)
      BY <1>1, <1>3 DEF FirstPaneReq, FillOrGone
    <2>2. \/ Finish(w) \/ Go(w, "rejectReq", [pane |-> NewPane]) \/ Go(w, "addTree", [pane |-> NewPane])
      BY <1>1, <1>3 DEF FirstPaneReq
    <2>3. Turned(w) /\ Mem(w)'
      <3>1. CASE Finish(w)
        BY <1>2, <3>1, FinishForgets
      <3>2. CASE Go(w, "rejectReq", [pane |-> NewPane])
        <4>1. Turned(w) /\ work'[w].pc = "rejectReq" /\ work'[w].pane = NewPane /\ work'[w].tab = t
          BY <1>1, <1>2, <3>2, GoRecalls
        <4>2. panes' = Put(panes, NewPane, [tab |-> t, overlay |-> FALSE])
          BY <2>1 DEF CreatePane
        <4>3. panes'[work'[w].pane].tab = t
          <5>1. PICK q : q = NewPane
            OBVIOUS
          <5> QED BY <4>1, <4>2, <5>1 DEF Put
        <4> QED BY <4>1, <4>3 DEF Mem, PaneMem, TodoMem, TabMem, KindMem, FlagMem
      <3>3. CASE Go(w, "addTree", [pane |-> NewPane])
        <4>1. Turned(w) /\ work'[w].pc = "addTree"
          BY <1>2, <3>3, GoRecalls
        <4> QED BY <4>1, SilentOnes DEF Silent
      <3> QED BY <2>2, <3>1, <3>2, <3>3
    <2>4. work[w].pc \in Filling
      BY <1>2 DEF Filling
    <2> QED BY <1>1, <1>2, <2>1, <2>3, <2>4, FillPays
  <1>4. CASE t \notin Live(tabs)
    <2>1. FillOrGone(w, t) /\ Go(w, "ensure", [pane |-> None])
      BY <1>1, <1>4 DEF FirstPaneReq, FillOrGone
    <2>2. Turned(w) /\ work'[w].pc = "ensure"
      BY <1>2, <2>1, GoRecalls
    <2>3. Mem(w)' /\ work[w].pc \in Filling
      BY <1>2, <2>2, SilentOnes DEF Silent, Filling
    <2> QED BY <1>1, <1>2, <2>1, <2>2, <2>3, FillPays
  <1> QED BY <1>3, <1>4

\* The default workspace's pane.
LEMMA AttachPanePays ==
  ASSUME Between, NEW w \in Workers, AttachPane(w)
  PROVE  Careful(w)
  <1>1. PICK t : t = work[w].tab
    OBVIOUS
  <1>2. MixKept /\ Served(w) /\ work[w].pc = "attachPane" /\ WorkShaped
    BY AtSays DEF AttachPane, Between
  <1>3. FillOrGone(w, t) /\ (Finish(w) \/ Go(w, "panic", [pane |-> None]))
    BY <1>1 DEF AttachPane, FillOrGone
  <1>4. Turned(w) /\ Mem(w)'
    <2>1. CASE Finish(w)
      BY <1>2, <2>1, FinishForgets
    <2>2. CASE Go(w, "panic", [pane |-> None])
      <3>1. Turned(w) /\ work'[w].pc = "panic"
        BY <1>2, <2>2, GoRecalls
      <3> QED BY <3>1, SilentOnes DEF Silent
    <2> QED BY <1>3, <2>1, <2>2
  <1>5. work[w].pc \in Filling
    BY <1>2 DEF Filling
  <1> QED BY <1>1, <1>2, <1>3, <1>4, <1>5, FillPays

\* The childless pane that explains a failed spawn.
LEMMA RecoverPanePays ==
  ASSUME Between, NEW w \in Workers, RecoverPane(w)
  PROVE  Careful(w)
  <1>1. PICK t : t = work[w].tab
    OBVIOUS
  <1>2. MixKept /\ Served(w) /\ work[w].pc = "recoverPane"
    BY AtSays DEF RecoverPane
  <1>3. FillOrGone(w, t) /\ Finish(w)
    BY <1>1 DEF RecoverPane, FillOrGone
  <1>4. Turned(w) /\ Mem(w)'
    BY <1>3, FinishForgets DEF Between
  <1>5. work[w].pc \in Filling
    BY <1>2 DEF Filling
  <1> QED BY <1>1, <1>2, <1>3, <1>4, <1>5, FillPays

\* The shell of a recovered project.
LEMMA ShellPanePays ==
  ASSUME Between, NEW w \in Workers, ShellPane(w)
  PROVE  Careful(w)
  <1>1. PICK t : t = work[w].tab
    OBVIOUS
  <1>2. MixKept /\ Served(w) /\ work[w].pc = "shellPane" /\ WorkShaped
    BY AtSays DEF ShellPane, Between
  <1>3. FillOrGone(w, t) /\ (Finish(w) \/ Go(w, "landing", [tab |-> t]))
    BY <1>1 DEF ShellPane, FillOrGone
  <1>4. Turned(w) /\ Mem(w)'
    <2>1. CASE Finish(w)
      BY <1>2, <2>1, FinishForgets
    <2>2. CASE Go(w, "landing", [tab |-> t])
      <3>1. Turned(w) /\ work'[w].pc = "landing"
        BY <1>2, <2>2, GoRecalls
      <3> QED BY <3>1, SilentOnes DEF Silent
    <2> QED BY <1>3, <2>1, <2>2
  <1>5. work[w].pc \in Filling
    BY <1>2 DEF Filling
  <1> QED BY <1>1, <1>2, <1>3, <1>4, <1>5, FillPays

\* The switch to the new tab still owes it its pane.
LEMMA SwitchNewPays ==
  ASSUME Between, NEW w \in Workers, SwitchNew(w)
  PROVE  Careful(w)
  <1>1. PICK t : t = work[w].tab
    OBVIOUS
  <1>2. Go(w, "firstPane", [proj |-> None]) /\ (SwitchTab(t) \/ UNCHANGED session)
    BY <1>1 DEF SwitchNew
  <1>3. MixKept /\ Served(w) /\ work[w].pc = "switchNew"
    BY AtSays DEF SwitchNew
  <1>4. Effect({}, {}, {}, {}) /\ Homes
    BY <1>2, SwitchTabEffect, NoCall DEF Between, Debts
  <1>5. Turned(w) /\ work'[w].pc = "firstPane" /\ work'[w].tab = t /\ work'[w].kind = work[w].kind
    BY <1>1, <1>2, GoRecalls DEF Between
  <1>6. Mem(w)'
    <2>1. work[w].kind = "badImage" => "badImage" \in Ops'
      BY <1>3 DEF Between, Debts, Mem, KindMem, MixKept, Ops
    <2> QED BY <1>5, <2>1 DEF Mem, PaneMem, TodoMem, TabMem, KindMem, FlagMem
  <1>7. Pays(w, {}, {}, {}, {})
    BY <1>1, <1>3, <1>5 DEF Pays, OwesTab, OwesProj, Filling, Stocking
  <1> QED BY <1>3, <1>4, <1>5, <1>6, <1>7 DEF Careful

\* A pane is destroyed: it was an overlay, the pane of a rejected image, or its
\* worker goes on to see to the tab it was in.
LEMMA DiscardPays ==
  ASSUME Between, NEW w \in Workers, NEW q, Discard(q), Turned(w), Served(w), MixKept, Mem(w)',
         q \in Live(panes) => \/ "badImage" \in Ops \/ panes[q].overlay
                              \/ work'[w].pc \in Filling /\ panes[q].tab = work'[w].tab,
         \/ ~Owing(w)
         \/ work[w].pc = "orphans" /\ work'[w].pc = "orphans" /\ work'[w].tab = work[w].tab
  PROVE  Careful(w)
  <1>1. Effect(LeftBy(q), {}, {}, {}) /\ Homes
    BY DiscardEffect DEF Between, Debts
  <1>2. \A t \in LeftBy(q) : "badImage" \in Ops \/ OwesTab(w, t)'
    BY DEF LeftBy, Normal, OwesTab
  <1>3. Pays(w, LeftBy(q), {}, {}, {})
    BY <1>2 DEF Pays, Owing, OwesTab, OwesProj, Filling, Stocking
  <1> QED BY <1>1, <1>3 DEF Careful

\* The steps that destroy a pane.
LEMMA RejectPays ==
  ASSUME Between, NEW w \in Workers, Reject(w)
  PROVE  Careful(w)
  <1>1. PICK q : q = work[w].pane
    OBVIOUS
  <1>2. Discard(q) /\ Finish(w)
    BY <1>1 DEF Reject
  <1>3. MixKept /\ Served(w) /\ work[w].pc = "reject"
    BY AtSays DEF Reject
  <1>4. Turned(w) /\ Mem(w)' /\ ~Owing(w)
    BY <1>2, <1>3, FinishForgets DEF Between, Owing, Filling, Stocking
  <1>5. "badImage" \in Ops
    BY <1>3 DEF Between, Debts, Mem, KindMem
  <1> QED BY <1>2, <1>3, <1>4, <1>5, DiscardPays

\* The request form goes on to ensureTabNotEmpty.
LEMMA RejectReqPays ==
  ASSUME Between, NEW w \in Workers, RejectReq(w)
  PROVE  Careful(w)
  <1>1. PICK q : q = work[w].pane
    OBVIOUS
  <1>2. Discard(q) /\ Go(w, "ensure", [pane |-> None])
    BY <1>1 DEF RejectReq
  <1>3. MixKept /\ Served(w) /\ work[w].pc = "rejectReq"
    BY AtSays DEF RejectReq
  <1>4. Turned(w) /\ work'[w].pc = "ensure" /\ work'[w].tab = work[w].tab
    BY <1>2, GoRecalls DEF Between
  <1>5. Mem(w)' /\ ~Owing(w) /\ work'[w].pc \in Filling
    BY <1>3, <1>4, SilentOnes DEF Silent, Owing, Filling, Stocking
  <1>6. q \in Live(panes) => panes[q].tab = work'[w].tab
    BY <1>1, <1>3, <1>4 DEF Between, Debts, Mem, PaneMem
  <1> QED BY <1>2, <1>3, <1>4, <1>5, <1>6, DiscardPays

\* A replacement that did not start: recoverEmptyTab is next.
LEMMA UnspawnedPays ==
  ASSUME Between, NEW w \in Workers, Unspawned(w)
  PROVE  Careful(w)
  <1>1. PICK q : q = work[w].pane
    OBVIOUS
  <1>2. Discard(q) /\ Go(w, "recoverTab", [pane |-> None])
    BY <1>1 DEF Unspawned
  <1>3. MixKept /\ Served(w) /\ work[w].pc = "unspawned"
    BY AtSays DEF Unspawned
  <1>4. Turned(w) /\ work'[w].pc = "recoverTab" /\ work'[w].tab = work[w].tab
    BY <1>2, GoRecalls DEF Between
  <1>5. Mem(w)' /\ ~Owing(w) /\ work'[w].pc \in Filling
    BY <1>3, <1>4, SilentOnes DEF Silent, Owing, Filling, Stocking
  <1>6. q \in Live(panes) => panes[q].tab = work'[w].tab
    BY <1>1, <1>3, <1>4 DEF Between, Debts, Mem, PaneMem
  <1> QED BY <1>2, <1>3, <1>4, <1>5, <1>6, DiscardPays

\* A closed pane: ensureTabNotEmpty is next, or the pane was gone.
LEMMA DestroyThePanePays ==
  ASSUME Between, NEW w \in Workers, DestroyThePane(w)
  PROVE  Careful(w)
  <1>1. PICK q : q = work[w].pane
    OBVIOUS
  <1>2. Discard(q) /\ (Go(w, "ensure", [pane |-> None]) \/ (q \notin Live(panes) /\ Finish(w)))
    BY <1>1 DEF DestroyThePane
  <1>3. MixKept /\ Served(w) /\ work[w].pc = "destroyPane" /\ ~Owing(w) /\ WorkShaped
    BY AtSays DEF DestroyThePane, Owing, Filling, Stocking, Between
  <1>4. CASE Go(w, "ensure", [pane |-> None])
    <2>1. Turned(w) /\ work'[w].pc = "ensure" /\ work'[w].tab = work[w].tab
      BY <1>3, <1>4, GoRecalls
    <2>2. Mem(w)' /\ work'[w].pc \in Filling
      BY <2>1, SilentOnes DEF Silent, Filling
    <2>3. q \in Live(panes) => panes[q].tab = work'[w].tab
      BY <1>1, <1>3, <2>1 DEF Between, Debts, Mem, PaneMem
    <2> QED BY <1>2, <1>3, <2>1, <2>2, <2>3, DiscardPays
  <1>5. CASE q \notin Live(panes) /\ Finish(w)
    <2>1. Turned(w) /\ Mem(w)'
      BY <1>3, <1>5, FinishForgets
    <2> QED BY <1>2, <1>3, <1>5, <2>1, DiscardPays
  <1> QED BY <1>2, <1>4, <1>5

\* One turn of a loop over destroyOverlay.
LEMMA OverlayGoes ==
  ASSUME Between, NEW w \in Workers, NEW pc \in {"evict", "orphans"}, At(w, pc), NEW q \in work[w].todo,
         Discard(q), Go(w, pc, [todo |-> work[w].todo \ {q}])
  PROVE  Careful(w)
  <1>1. MixKept /\ Served(w) /\ work[w].pc = pc
    BY AtSays
  <1>2. PICK rest : rest = work[w].todo \ {q}
    OBVIOUS
  <1>3. Turned(w) /\ work'[w].pc = pc /\ work'[w].tab = work[w].tab /\ work'[w].todo = rest
    BY <1>2, GoRecalls DEF Between
  <1>4. \A x \in work[w].todo : x \in Live(panes) => panes[x].overlay
    BY <1>1 DEF Between, Debts, Mem, TodoMem
  <1>5. Mem(w)'
    <2>1. PanesStay /\ \A x \in rest : x # NewPane
      BY <1>2, DiscardEffect, NewOnes DEF Effect, Between, Debts
    <2>2. \A x \in rest : x \in Live(panes)' => panes'[x].overlay
      BY <1>2, <1>4, <2>1 DEF PanesStay
    <2> QED BY <1>3, <2>2 DEF Mem, PaneMem, TodoMem, TabMem, KindMem, FlagMem
  <1>6. ~Owing(w) \/ (work[w].pc = "orphans" /\ work'[w].pc = "orphans" /\ work'[w].tab = work[w].tab)
    BY <1>1, <1>3 DEF Owing, Filling, Stocking
  <1> QED BY <1>1, <1>3, <1>4, <1>5, <1>6, DiscardPays

\* The two loops over destroyOverlay.
LEMMA EvictPays ==
  ASSUME Between, NEW w \in Workers, Evict(w)
  PROVE  Careful(w)
  <1>1. At(w, "evict")
    BY DEF Evict
  <1>2. CASE work[w].todo # {}
    <2>1. PICK q \in work[w].todo : Discard(q) /\ Go(w, "evict", [todo |-> work[w].todo \ {q}])
      BY <1>2 DEF Evict
    <2> QED BY <1>1, <2>1, OverlayGoes
  <1>3. CASE work[w].todo = {}
    <2>1. Finish(w) /\ UNCHANGED session
      BY <1>3 DEF Evict
    <2>2. MixKept /\ Served(w) /\ ~Owing(w)
      BY <1>1, AtSays DEF Owing, Filling, Stocking
    <2>3. Turned(w) /\ Mem(w)' /\ Effect({}, {}, {}, {}) /\ Homes
      BY <2>1, FinishForgets, NoCall DEF Between, Debts
    <2> QED BY <2>2, <2>3, Harmless
  <1> QED BY <1>2, <1>3

\* ... and of ensureTabNotEmpty, which ends in a shell.
LEMMA OrphansPays ==
  ASSUME Between, NEW w \in Workers, Orphans(w)
  PROVE  Careful(w)
  <1>1. At(w, "orphans")
    BY DEF Orphans
  <1>2. CASE work[w].todo # {}
    <2>1. PICK q \in work[w].todo : Discard(q) /\ Go(w, "orphans", [todo |-> work[w].todo \ {q}])
      BY <1>2 DEF Orphans
    <2> QED BY <1>1, <2>1, OverlayGoes
  <1>3. CASE work[w].todo = {}
    <2>1. PICK t : t = work[w].tab
      OBVIOUS
    <2>2. Finish(w) /\ FillOrGone(w, t)
      BY <1>3, <2>1 DEF Orphans, FillOrGone
    <2>3. MixKept /\ Served(w) /\ work[w].pc \in Filling
      BY <1>1, AtSays DEF Filling
    <2>4. Turned(w) /\ Mem(w)'
      BY <2>2, FinishForgets DEF Between
    <2> QED BY <2>1, <2>2, <2>3, <2>4, FillPays
  <1> QED BY <1>2, <1>3

\* The recoveries look, and go on to pay or have nothing to pay.
LEMMA EnsurePays ==
  ASSUME Between, NEW w \in Workers, EnsureTabNotEmpty(w)
  PROVE  Careful(w)
  <1>1. PICK t, left : t = work[w].tab /\ left = {q \in Overlays : panes[q].tab = t}
    OBVIOUS
  <1>2. MixKept /\ Served(w) /\ work[w].pc = "ensure" /\ WorkShaped
    BY AtSays DEF EnsureTabNotEmpty, Between
  <1>3. UNCHANGED session /\ IF Lacking(t) THEN Go(w, "orphans", [todo |-> left]) ELSE Finish(w)
    BY <1>1 DEF EnsureTabNotEmpty
  <1>4. Effect({}, {}, {}, {}) /\ Homes
    BY <1>3, NoCall DEF Between, Debts
  <1>5. CASE Lacking(t)
    <2>1. Turned(w) /\ work'[w].pc = "orphans" /\ work'[w].tab = t /\ work'[w].todo = left
      BY <1>1, <1>2, <1>3, <1>5, GoRecalls
    <2>2. \A q \in left : panes'[q].overlay
      BY <1>1, <1>3 DEF Overlays, session
    <2>3. Mem(w)'
      BY <2>1, <2>2 DEF Mem, PaneMem, TodoMem, TabMem, KindMem, FlagMem
    <2>4. Pays(w, {}, {}, {}, {})
      BY <1>1, <1>2, <2>1 DEF Pays, OwesTab, OwesProj, Filling, Stocking
    <2> QED BY <1>2, <1>4, <2>1, <2>3, <2>4 DEF Careful
  <1>6. CASE ~Lacking(t)
    <2>1. Turned(w) /\ Mem(w)'
      BY <1>2, <1>3, <1>6, FinishForgets
    <2>2. Pays(w, {}, {}, {}, {})
      BY <1>1, <1>2, <1>6 DEF Pays, OwesTab, OwesProj, Filling, Stocking
    <2> QED BY <1>2, <1>4, <2>1, <2>2 DEF Careful
  <1> QED BY <1>5, <1>6

\* recoverEmptyTab looks likewise.
LEMMA RecoverTabPays ==
  ASSUME Between, NEW w \in Workers, RecoverEmptyTab(w)
  PROVE  Careful(w)
  <1>1. PICK t : t = work[w].tab
    OBVIOUS
  <1>2. MixKept /\ Served(w) /\ work[w].pc = "recoverTab" /\ WorkShaped
    BY AtSays DEF RecoverEmptyTab, Between
  <1>3. /\ UNCHANGED session
        /\ IF t \in Live(tabs) /\ Lacking(t) THEN Go(w, "recoverPane", [tab |-> t]) ELSE Finish(w)
    BY <1>1 DEF RecoverEmptyTab
  <1>4. Effect({}, {}, {}, {}) /\ Homes
    BY <1>3, NoCall DEF Between, Debts
  <1>5. CASE t \in Live(tabs) /\ Lacking(t)
    <2>1. Turned(w) /\ work'[w].pc = "recoverPane" /\ work'[w].tab = t
      BY <1>2, <1>3, <1>5, GoRecalls
    <2>2. Mem(w)'
      BY <2>1, SilentOnes DEF Silent
    <2>3. Pays(w, {}, {}, {}, {})
      BY <1>1, <1>2, <2>1 DEF Pays, OwesTab, OwesProj, Filling, Stocking
    <2> QED BY <1>2, <1>4, <2>1, <2>2, <2>3 DEF Careful
  <1>6. CASE ~(t \in Live(tabs) /\ Lacking(t))
    <2>1. Turned(w) /\ Mem(w)'
      BY <1>2, <1>3, <1>6, FinishForgets
    <2>2. Pays(w, {}, {}, {}, {})
      BY <1>1, <1>2, <1>6 DEF Pays, OwesTab, OwesProj, Filling, Stocking
    <2> QED BY <1>2, <1>4, <2>1, <2>2 DEF Careful
  <1> QED BY <1>5, <1>6

\* handleCreatePane beside no other request, where it opens an overlay and
\* no image is rejected.
LEMMA HandleCreatePanePays ==
  ASSUME Between, NEW w \in Workers, NEW t, NEW kind, HandleCreatePane(w, t, kind)
  PROVE  Careful(w)
  <1>1. MixKept /\ Served(w) /\ ~Owing(w) /\ (mix.width = 1 => Alone(w)) /\ work[w].pc = "idle" /\ WorkShaped
    BY TakeSays DEF HandleCreatePane, Between, Debts
  <1>2. /\ CreatePane(t, NewPane)
        /\ \/ Finish(w)
           \/ "badImage" \in Ops /\ Go(w, "reject", [pane |-> NewPane])
           \/ "overlay" \in Ops /\ Go(w, "flag", [pane |-> NewPane])
    BY DEF HandleCreatePane
  <1>3. /\ Effect({}, {}, {}, {}) /\ Homes /\ Live(tabs)' = Live(tabs)
        /\ NewPane \notin Live(panes) /\ \A u : Normal(u) \subseteq Normal(u)'
    BY <1>2, CreatePaneEffect, EffectLess DEF Between, Debts
  <1>4. Turned(w) /\ Mem(w)'
    <2>1. CASE Finish(w)
      BY <1>1, <2>1, FinishForgets
    <2>2. CASE "badImage" \in Ops /\ Go(w, "reject", [pane |-> NewPane])
      <3>1. Turned(w) /\ work'[w].pc = "reject"
        BY <1>1, <2>2, GoRecalls
      <3>2. "badImage" \in Ops'
        BY <1>1, <2>2 DEF MixKept, Ops
      <3> QED BY <3>1, <3>2 DEF Mem, PaneMem, TodoMem, TabMem, KindMem, FlagMem
    <2>3. CASE "overlay" \in Ops /\ Go(w, "flag", [pane |-> NewPane])
      <3>1. PICK q : q = NewPane
        OBVIOUS
      <3>2. Turned(w) /\ work'[w].pc = "flag" /\ work'[w].pane = q
        BY <1>1, <2>3, <3>1, GoRecalls
      <3>3. "overlay" \in Ops' /\ Ops' = Ops
        BY <1>1, <2>3 DEF MixKept, Ops
      <3>4. ASSUME "badImage" \notin Ops, NEW u \in Live(tabs) PROVE Normal(u)' \ {q} # {}
        <4>1. mix.width = 1
          BY <2>3, <3>4 DEF Between, Debts, Orderly
        <4>2. \A v \in Workers : ~OwesTab(v, u)
          BY <1>1, <4>1 DEF Alone, OwesTab, Filling
        <4>3. PICK x : x \in Normal(u)
          BY <3>4, <4>2 DEF Between, Debts, Filled, Lacking
        <4>4. x # q /\ x \in Normal(u)'
          BY <1>3, <3>1, <4>3 DEF Normal
        <4> QED BY <4>4
      <3>5. FlagMem(w)'
        BY <1>3, <3>2, <3>3, <3>4 DEF FlagMem
      <3> QED BY <3>2, <3>5 DEF Mem, PaneMem, TodoMem, TabMem, KindMem
    <2> QED BY <1>2, <2>1, <2>2, <2>3
  <1> QED BY <1>1, <1>3, <1>4, Harmless

\* The flag leaves the tab a pane, or an image may be rejected.
LEMMA FlagPays ==
  ASSUME Between, NEW w \in Workers, Flag(w)
  PROVE  Careful(w)
  <1>1. PICK q : q = work[w].pane
    OBVIOUS
  <1>2. Go(w, "cap", [tab |-> None]) /\ IF q \in Live(panes) THEN SetOverlay(q) ELSE UNCHANGED session
    BY <1>1 DEF Flag
  <1>3. MixKept /\ Served(w) /\ work[w].pc = "flag" /\ ~Owing(w)
    BY AtSays DEF Flag, Owing, Filling, Stocking
  <1>4. Turned(w) /\ work'[w].pc = "cap"
    BY <1>2, GoRecalls DEF Between
  <1>5. Mem(w)'
    BY <1>4, SilentOnes DEF Silent
  <1>6. CASE q \notin Live(panes)
    <2>1. Effect({}, {}, {}, {}) /\ Homes
      BY <1>2, <1>6, NoCall DEF Between, Debts
    <2> QED BY <1>3, <1>4, <1>5, <2>1, Harmless
  <1>7. CASE q \in Live(panes)
    <2>1. panes' = [panes EXCEPT ![q].overlay = TRUE] /\ UNCHANGED <<tabs, projects, activeTab, activeProject>>
      BY <1>2, <1>7 DEF SetOverlay
    <2>2. \A x \in Live(panes) : panes[x] \in PaneRecord
      BY DEF Between, AllKept, PanesKept
    <2>3. /\ Live(panes)' = Live(panes) /\ \A x \in Live(panes) \ {q} : panes'[x] = panes[x]
          /\ panes'[q].tab = panes[q].tab /\ panes'[q].overlay
      BY <1>7, <2>1, <2>2 DEF Live, PaneRecord
    <2>4. PICK L : L = {t \in Live(tabs) : "badImage" \in Ops}
      OBVIOUS
    <2>5. \A t : Normal(t) \ {q} \subseteq Normal(t)'
      BY <2>3 DEF Normal
    <2>6. ASSUME NEW t \in Live(tabs), Lacking(t)' PROVE t \in L
      <3>1. Normal(t) \ {q} = {}
        BY <2>5, <2>6 DEF Lacking
      <3>2. "badImage" \in Ops
        BY <1>1, <1>3, <3>1 DEF Between, Debts, Mem, FlagMem
      <3> QED BY <2>4, <3>2
    <2>7. Live(tabs)' = Live(tabs) /\ Live(projects)' = Live(projects) /\ \A p : TabsOf(p)' = TabsOf(p)
      BY <2>1 DEF TabsOf, Live
    <2>8. ActiveBare' /\ \A p : Bare(p)' => Bare(p)
      BY <2>1, <2>7 DEF ActiveBare, Bare, Between, Debts
    <2>9. PanesStay /\ Homes
      BY <2>1, <2>3 DEF PanesStay, Homes, Live
    <2>10. Effect(L, {}, {}, {})
      BY <2>6, <2>7, <2>8, <2>9 DEF Effect
    <2>11. Pays(w, L, {}, {}, {})
      BY <1>3, <2>4 DEF Pays, Owing, OwesTab, OwesProj
    <2> QED BY <1>3, <1>4, <1>5, <2>9, <2>10, <2>11 DEF Careful
  <1> QED BY <1>6, <1>7

\* A step that makes no call, of a worker that owed nothing before it.
LEMMA SilentStep ==
  ASSUME Between, NEW w \in Workers, UNCHANGED session, Turned(w), Served(w), MixKept, Mem(w)', ~Owing(w)
  PROVE  Careful(w)
  <1>1. Effect({}, {}, {}, {}) /\ Homes
    BY NoCall DEF Between, Debts
  <1> QED BY <1>1, Harmless

\* An attach to an empty workspace.
LEMMA HandleAttachPays ==
  ASSUME Between, NEW w \in Workers, HandleAttach(w)
  PROVE  Careful(w)
  <1>1. MixKept /\ Served(w) /\ ~Owing(w)
    BY TakeSays DEF HandleAttach, Between, Debts
  <1>2. UNCHANGED session /\ Go(w, "attachTab", [proj |-> None])
    BY DEF HandleAttach
  <1>3. Turned(w) /\ work'[w].pc = "attachTab"
    BY <1>2, GoRecalls DEF Between
  <1>4. Mem(w)'
    BY <1>3, SilentOnes DEF Silent
  <1> QED BY <1>1, <1>2, <1>3, <1>4, SilentStep

\* Overlays are chosen to be destroyed.
LEMMA ChosenOverlays ==
  ASSUME WorkShaped, NEW w \in Workers, UNCHANGED session, NEW todo \in SUBSET Overlays, work'[w].pc = "evict",
         work'[w].todo = todo
  PROVE  Mem(w)'
  <1>1. \A q \in todo : panes'[q].overlay
    BY DEF Overlays, session
  <1> QED BY <1>1 DEF Mem, PaneMem, TodoMem, TabMem, KindMem, FlagMem

\* The choice of the idle sweep, and of the cap.
LEMMA SweepPays ==
  ASSUME Between, NEW w \in Workers, SweepIdleOverlays(w)
  PROVE  Careful(w)
  <1>1. MixKept /\ Served(w) /\ ~Owing(w) /\ WorkShaped
    BY TakeSays DEF SweepIdleOverlays, Between, Debts
  <1>2. PICK expired \in SUBSET Overlays : Go(w, "evict", [todo |-> expired])
    BY DEF SweepIdleOverlays
  <1>3. Turned(w) /\ work'[w].pc = "evict" /\ work'[w].todo = expired
    BY <1>1, <1>2, GoRecalls
  <1>4. UNCHANGED session
    BY DEF SweepIdleOverlays
  <1>5. Mem(w)'
    BY <1>1, <1>3, <1>4, ChosenOverlays
  <1> QED BY <1>1, <1>3, <1>4, <1>5, SilentStep

\* ... and of enforceOverlayCap.
LEMMA EnforcePays ==
  ASSUME Between, NEW w \in Workers, EnforceOverlayCap(w)
  PROVE  Careful(w)
  <1>1. MixKept /\ Served(w) /\ work[w].pc = "cap" /\ ~Owing(w) /\ WorkShaped
    BY AtSays DEF EnforceOverlayCap, Owing, Filling, Stocking, Between
  <1>2. PICK victims \in SUBSET Overlays : Go(w, "evict", [pane |-> None, todo |-> victims])
    BY DEF EnforceOverlayCap
  <1>3. Turned(w) /\ work'[w].pc = "evict" /\ work'[w].todo = victims
    BY <1>1, <1>2, GoRecalls
  <1>4. UNCHANGED session
    BY DEF EnforceOverlayCap
  <1>5. Mem(w)'
    BY <1>1, <1>3, <1>4, ChosenOverlays
  <1> QED BY <1>1, <1>3, <1>4, <1>5, SilentStep

\* An overlay's end, and a pane to be destroyed.
LEMMA OverlayExitPays ==
  ASSUME Between, NEW w \in Workers, NEW q, OnOverlayExit(w, q)
  PROVE  Careful(w)
  <1>1. MixKept /\ Served(w) /\ ~Owing(w)
    BY TakeSays DEF OnOverlayExit, Between, Debts
  <1>2. q \in Live(panes) /\ panes[q].overlay /\ Discard(q) /\ Go(w, "ensure", [tab |-> panes[q].tab])
    BY DEF OnOverlayExit, Overlays, Discard, DestroyPane
  <1>3. Turned(w) /\ work'[w].pc = "ensure"
    BY <1>2, GoRecalls DEF Between
  <1>4. Mem(w)'
    BY <1>3, SilentOnes DEF Silent
  <1> QED BY <1>1, <1>2, <1>3, <1>4, DiscardPays

\* A pane to be destroyed, and the tab it is read to be in.
LEMMA HandleDestroyPanePays ==
  ASSUME Between, NEW w \in Workers, NEW q, HandleDestroyPane(w, q)
  PROVE  Careful(w)
  <1>1. MixKept /\ Served(w) /\ ~Owing(w)
    BY TakeSays DEF HandleDestroyPane, Between, Debts
  <1>2. PICK t : t = panes[q].tab
    OBVIOUS
  <1>3. UNCHANGED session /\ Go(w, "destroyPane", [pane |-> q, tab |-> t])
    BY <1>2 DEF HandleDestroyPane
  <1>4. Turned(w) /\ work'[w].pc = "destroyPane" /\ work'[w].pane = q /\ work'[w].tab = t
    BY <1>3, GoRecalls DEF Between
  <1>5. panes'[q].tab = t
    BY <1>2, <1>3 DEF session
  <1>6. Mem(w)'
    BY <1>4, <1>5 DEF Mem, PaneMem, TodoMem, TabMem, KindMem, FlagMem
  <1> QED BY <1>1, <1>3, <1>4, <1>6, SilentStep

\* The swap of a replaced pane.
LEMMA SwapPays ==
  ASSUME Between, NEW w \in Workers, NEW old, Swap(w, old), Served(w), MixKept, ~Owing(w)
  PROVE  Careful(w)
  <1>1. PICK q, t : q = NewPane /\ t = panes[old].tab
    OBVIOUS
  <1>2. ReplacePane(old, NewPane) /\ (Finish(w) \/ Go(w, "unspawned", [pane |-> q, tab |-> t]))
    BY <1>1 DEF Swap
  <1>3. Effect({}, {}, {}, {}) /\ Homes /\ panes'[q].tab = t
    <2>1. /\ Effect({}, {}, {}, {}) /\ Homes
          /\ panes' = Put(Without(panes, {old}), q, [tab |-> t, overlay |-> FALSE])
      BY <1>1, <1>2, ReplaceEffect DEF Between, Debts, ReplacePane
    <2>2. panes'[q] = [tab |-> t, overlay |-> FALSE]
      BY <2>1 DEF Put
    <2> QED BY <2>1, <2>2
  <1>4. Turned(w) /\ Mem(w)'
    <2>1. CASE Finish(w)
      BY <2>1, FinishForgets DEF Between
    <2>2. CASE Go(w, "unspawned", [pane |-> q, tab |-> t])
      <3>1. Turned(w) /\ work'[w].pc = "unspawned" /\ work'[w].pane = q /\ work'[w].tab = t
        BY <2>2, GoRecalls DEF Between
      <3> QED BY <1>3, <3>1 DEF Mem, PaneMem, TodoMem, TabMem, KindMem, FlagMem
    <2> QED BY <1>2, <2>1, <2>2
  <1> QED BY <1>3, <1>4, Harmless

\* A replaced pane, and a worktree's placeholder.
LEMMA HandleReplacePays ==
  ASSUME Between, NEW w \in Workers, NEW q, HandleReplacePane(w, q)
  PROVE  Careful(w)
  <1>1. MixKept /\ Served(w) /\ ~Owing(w) /\ Swap(w, q)
    BY TakeSays DEF HandleReplacePane, Between, Debts
  <1> QED BY <1>1, SwapPays

\* ... which may be gone.
LEMMA SwapPlaceholderPays ==
  ASSUME Between, NEW w \in Workers, SwapPlaceholder(w)
  PROVE  Careful(w)
  <1>1. PICK q : q = work[w].pane
    OBVIOUS
  <1>2. MixKept /\ Served(w) /\ work[w].pc = "swapTree" /\ ~Owing(w)
    BY AtSays DEF SwapPlaceholder, Owing, Filling, Stocking
  <1>3. Swap(w, q) \/ (Finish(w) /\ UNCHANGED session)
    BY <1>1 DEF SwapPlaceholder
  <1>4. ASSUME Finish(w), UNCHANGED session PROVE Careful(w)
    <2>1. Turned(w) /\ Mem(w)'
      BY <1>4, FinishForgets DEF Between
    <2> QED BY <1>2, <1>4, <2>1, SilentStep
  <1> QED BY <1>2, <1>3, <1>4, SwapPays

\* The checkout calls nothing of the manager.
LEMMA AddWorktreePays ==
  ASSUME Between, NEW w \in Workers, AddWorktree(w)
  PROVE  Careful(w)
  <1>1. MixKept /\ Served(w) /\ work[w].pc = "addTree" /\ ~Owing(w) /\ WorkShaped
    BY AtSays DEF AddWorktree, Owing, Filling, Stocking, Between
  <1>2. UNCHANGED session /\ (Finish(w) \/ Go(w, "swapTree", [proj |-> None]))
    BY DEF AddWorktree
  <1>3. Turned(w) /\ Mem(w)'
    <2>1. CASE Finish(w)
      BY <1>1, <2>1, FinishForgets
    <2>2. CASE Go(w, "swapTree", [proj |-> None])
      <3>1. Turned(w) /\ work'[w].pc = "swapTree"
        BY <1>1, <2>2, GoRecalls
      <3> QED BY <3>1, SilentOnes DEF Silent
    <2> QED BY <1>2, <2>1, <2>2
  <1> QED BY <1>1, <1>2, <1>3, SilentStep

\* Closing tabs, and the projects.
LEMMA HandleDestroyTabPays ==
  ASSUME Between, NEW w \in Workers, NEW t, HandleDestroyTab(w, t)
  PROVE  Careful(w)
  <1>1. MixKept /\ Served(w) /\ ~Owing(w)
    BY TakeSays DEF HandleDestroyTab, Between, Debts
  <1>2. PICK p : p = tabs[t].project
    OBVIOUS
  <1>3. UNCHANGED session /\ Go(w, "destroyTab", [tab |-> t, proj |-> p])
    BY <1>2 DEF HandleDestroyTab
  <1>4. Turned(w) /\ work'[w].pc = "destroyTab" /\ work'[w].tab = t /\ work'[w].proj = p
    BY <1>3, GoRecalls DEF Between
  <1>5. tabs'[t].project = p
    BY <1>2, <1>3 DEF session
  <1>6. Mem(w)'
    BY <1>4, <1>5 DEF Mem, PaneMem, TodoMem, TabMem, KindMem, FlagMem
  <1> QED BY <1>1, <1>3, <1>4, <1>6, SilentStep

\* The worker that closes a tab owes its project one.
LEMMA DestroyTheTabPays ==
  ASSUME Between, NEW w \in Workers, DestroyTheTab(w)
  PROVE  Careful(w)
  <1>1. PICK t, p : t = work[w].tab /\ p = work[w].proj
    OBVIOUS
  <1>2. MixKept /\ Served(w) /\ work[w].pc = "destroyTab" /\ ~Owing(w)
    BY AtSays DEF DestroyTheTab, Owing, Filling, Stocking
  <1>3. /\ Go(w, "recoverProj", [tab |-> None])
        /\ IF t \in Live(tabs) THEN DestroyTab(t) ELSE UNCHANGED session
    BY <1>1 DEF DestroyTheTab
  <1>4. Turned(w) /\ work'[w].pc = "recoverProj" /\ work'[w].proj = p
    BY <1>1, <1>3, GoRecalls DEF Between
  <1>5. Mem(w)'
    BY <1>4, SilentOnes DEF Silent
  <1>6. CASE t \in Live(tabs)
    <2>1. p = tabs[t].project
      BY <1>1, <1>2, <1>6 DEF Between, Debts, Mem, TabMem
    <2>2. Effect({}, {}, {p}, {}) /\ Homes
      BY <1>3, <1>6, <2>1, DestroyTabEffect DEF Between, Debts
    <2>3. Pays(w, {}, {}, {p}, {})
      BY <1>2, <1>4 DEF Pays, Owing, OwesTab, OwesProj, Stocking
    <2> QED BY <1>2, <1>4, <1>5, <2>2, <2>3 DEF Careful
  <1>7. CASE t \notin Live(tabs)
    BY <1>2, <1>3, <1>4, <1>5, <1>7, SilentStep
  <1> QED BY <1>6, <1>7

\* The worker that makes a project owes it a tab.
LEMMA HandleCreateProjectPays ==
  ASSUME Between, NEW w \in Workers, HandleCreateProject(w)
  PROVE  Careful(w)
  <1>1. MixKept /\ Served(w) /\ ~Owing(w)
    BY TakeSays DEF HandleCreateProject, Between, Debts
  <1>2. PICK p : p = NewProj
    OBVIOUS
  <1>3. CreateProject(p) /\ Go(w, "recoverProj", [proj |-> p])
    BY <1>2 DEF HandleCreateProject
  <1>4. Turned(w) /\ work'[w].pc = "recoverProj" /\ work'[w].proj = p
    BY <1>3, GoRecalls DEF Between
  <1>5. Mem(w)'
    BY <1>4, SilentOnes DEF Silent
  <1>6. Effect({}, {}, {p}, {}) /\ Homes
    BY <1>3, CreateProjectEffect DEF Between, Debts
  <1>7. Pays(w, {}, {}, {p}, {})
    BY <1>1, <1>4 DEF Pays, Owing, OwesTab, OwesProj, Stocking
  <1> QED BY <1>1, <1>4, <1>5, <1>6, <1>7 DEF Careful

\* A project that goes takes its tabs with it.
LEMMA HandleDestroyProjectPays ==
  ASSUME Between, NEW w \in Workers, NEW p, HandleDestroyProject(w, p)
  PROVE  Careful(w)
  <1>1. MixKept /\ Served(w) /\ ~Owing(w)
    BY TakeSays DEF HandleDestroyProject, Between, Debts
  <1>2. UNCHANGED session /\ Go(w, "destroyProj", [proj |-> p])
    BY DEF HandleDestroyProject
  <1>3. Turned(w) /\ work'[w].pc = "destroyProj"
    BY <1>2, GoRecalls DEF Between
  <1>4. Mem(w)'
    BY <1>3, SilentOnes DEF Silent
  <1> QED BY <1>1, <1>2, <1>3, <1>4, SilentStep

\* ... and leaves no other project bare.
LEMMA DestroyTheProjectPays ==
  ASSUME Between, NEW w \in Workers, DestroyTheProject(w)
  PROVE  Careful(w)
  <1>1. PICK p : p = work[w].proj
    OBVIOUS
  <1>2. MixKept /\ Served(w) /\ work[w].pc = "destroyProj" /\ ~Owing(w)
    BY AtSays DEF DestroyTheProject, Owing, Filling, Stocking
  <1>3. Go(w, "readActive", [proj |-> None]) /\ (DestroyProject(p) \/ UNCHANGED session)
    BY <1>1 DEF DestroyTheProject
  <1>4. Turned(w) /\ work'[w].pc = "readActive"
    BY <1>3, GoRecalls DEF Between
  <1>5. Mem(w)'
    BY <1>4, SilentOnes DEF Silent
  <1>6. Effect({}, {}, {}, {}) /\ Homes
    BY <1>3, DestroyProjectEffect, NoCall DEF Between, Debts
  <1> QED BY <1>2, <1>4, <1>5, <1>6, Harmless

\* The active project is read for the recovery.
LEMMA ReadActivePays ==
  ASSUME Between, NEW w \in Workers, ReadActive(w)
  PROVE  Careful(w)
  <1>1. MixKept /\ Served(w) /\ work[w].pc = "readActive" /\ ~Owing(w)
    BY AtSays DEF ReadActive, Owing, Filling, Stocking
  <1>2. UNCHANGED session /\ Go(w, "recoverProj", [proj |-> activeProject])
    BY DEF ReadActive
  <1>3. Turned(w) /\ work'[w].pc = "recoverProj"
    BY <1>2, GoRecalls DEF Between
  <1>4. Mem(w)'
    BY <1>3, SilentOnes DEF Silent
  <1> QED BY <1>1, <1>2, <1>3, <1>4, SilentStep

\* A merge is served alone, and its worker owes the survivor a tab.
LEMMA HandleMergePays ==
  ASSUME Between, NEW w \in Workers, NEW into, NEW p \in Live(projects), HandleMergeProjects(w, into, p)
  PROVE  Careful(w)
  <1>1. /\ MixKept /\ Served(w) /\ ~Owing(w) /\ "merge" \in Ops
        /\ (mix.width = 1 => Alone(w))
    BY TakeSays DEF HandleMergeProjects, Between, Debts
  <1>2. Alone(w)
    BY <1>1 DEF Between, Debts, Orderly
  <1>3. /\ Go(w, "recoverProj", [proj |-> into])
        /\ IF into \in Live(projects) THEN MergeProjects(into, <<p>>) ELSE UNCHANGED session
    BY DEF HandleMergeProjects
  <1>4. Turned(w) /\ work'[w].pc = "recoverProj" /\ work'[w].proj = into
    BY <1>3, GoRecalls DEF Between
  <1>5. Mem(w)'
    BY <1>4, SilentOnes DEF Silent
  <1>6. CASE into \in Live(projects)
    <2>1. Effect({}, {}, {into}, {})
      BY <1>3, <1>6, MergeEffect DEF Between, Debts
    <2>2. Pays(w, {}, {}, {into}, {})
      BY <1>1, <1>4 DEF Pays, Owing, OwesTab, OwesProj, Stocking
    <2> QED BY <1>1, <1>2, <1>4, <1>5, <2>1, <2>2 DEF Careful
  <1>7. CASE into \notin Live(projects)
    BY <1>1, <1>3, <1>4, <1>5, <1>7, SilentStep
  <1> QED BY <1>6, <1>7

\* The two switches.
LEMMA SwitchesPay ==
  ASSUME Between, NEW w \in Workers, NEW x, HandleSwitchTab(w, x) \/ HandleSwitchProject(w, x)
  PROVE  Careful(w)
  <1>1. MixKept /\ Served(w) /\ ~Owing(w) /\ work[w].pc = "idle"
    BY TakeSays DEF HandleSwitchTab, HandleSwitchProject, Between, Debts
  <1>2. UNCHANGED work /\ (SwitchTab(x) \/ SwitchProject(x))
    BY DEF HandleSwitchTab, HandleSwitchProject
  <1>3. Turned(w) /\ work'[w].pc = "idle"
    BY <1>1, <1>2 DEF Turned, WorkShaped, Between
  <1>4. Mem(w)'
    BY <1>3, SilentOnes DEF Silent
  <1>5. Effect({}, {}, {}, {}) /\ Homes
    BY <1>2, SwitchTabEffect, SwitchProjectEffect DEF Between, Debts
  <1> QED BY <1>1, <1>3, <1>4, <1>5, Harmless

\* recoverEmptyProject looks, and goes on to pay or has nothing to pay.
LEMMA RecoverProjectPays ==
  ASSUME Between, NEW w \in Workers, RecoverEmptyProject(w)
  PROVE  Careful(w)
  <1>1. PICK p : p = work[w].proj
    OBVIOUS
  <1>2. MixKept /\ Served(w) /\ work[w].pc = "recoverProj" /\ WorkShaped
    BY AtSays DEF RecoverEmptyProject, Between
  <1>3. UNCHANGED session /\ IF ProjectIsEmpty(p) THEN Go(w, "shellTab", [proj |-> p]) ELSE Finish(w)
    BY <1>1 DEF RecoverEmptyProject
  <1>4. Effect({}, {}, {}, {}) /\ Homes
    BY <1>3, NoCall DEF Between, Debts
  <1>5. CASE ProjectIsEmpty(p)
    <2>1. Turned(w) /\ work'[w].pc = "shellTab" /\ work'[w].proj = p
      BY <1>2, <1>3, <1>5, GoRecalls
    <2>2. Mem(w)'
      BY <2>1, SilentOnes DEF Silent
    <2>3. Pays(w, {}, {}, {}, {})
      BY <1>1, <1>2, <2>1 DEF Pays, OwesTab, OwesProj, Filling, Stocking
    <2> QED BY <1>2, <1>4, <2>1, <2>2, <2>3 DEF Careful
  <1>6. CASE ~ProjectIsEmpty(p)
    <2>1. Turned(w) /\ Mem(w)'
      BY <1>2, <1>3, <1>6, FinishForgets
    <2>2. p \in Live(projects) => ~Bare(p)
      BY <1>6, BareNow DEF ProjectIsEmpty, Between
    <2>3. Pays(w, {}, {}, {}, {})
      BY <1>1, <1>2, <2>2 DEF Pays, OwesTab, OwesProj, Filling, Stocking
    <2> QED BY <1>2, <1>4, <2>1, <2>3 DEF Careful
  <1> QED BY <1>5, <1>6

\* Whether to land on the new tab, and the landing.
LEMMA LandingPays ==
  ASSUME Between, NEW w \in Workers, Landing(w)
  PROVE  Careful(w)
  <1>1. MixKept /\ Served(w) /\ work[w].pc = "landing" /\ ~Owing(w) /\ WorkShaped
    BY AtSays DEF Landing, Owing, Filling, Stocking, Between
  <1>2. UNCHANGED session /\ (Finish(w) \/ Go(w, "land", [tab |-> work[w].tab]))
    BY DEF Landing
  <1>3. Turned(w) /\ Mem(w)'
    <2>1. CASE Finish(w)
      BY <1>1, <2>1, FinishForgets
    <2>2. CASE Go(w, "land", [tab |-> work[w].tab])
      <3>1. Turned(w) /\ work'[w].pc = "land"
        BY <1>1, <2>2, GoRecalls
      <3> QED BY <3>1, SilentOnes DEF Silent
    <2> QED BY <1>2, <2>1, <2>2
  <1> QED BY <1>1, <1>2, <1>3, SilentStep

\* The landing on a tab that is still there.
LEMMA LandPays ==
  ASSUME Between, NEW w \in Workers, Land(w)
  PROVE  Careful(w)
  <1>1. PICK t : t = work[w].tab
    OBVIOUS
  <1>2. MixKept /\ Served(w) /\ work[w].pc = "land" /\ ~Owing(w)
    BY AtSays DEF Land, Owing, Filling, Stocking
  <1>3. Finish(w) /\ (SwitchTab(t) \/ UNCHANGED session)
    BY <1>1 DEF Land
  <1>4. Turned(w) /\ Mem(w)'
    BY <1>3, FinishForgets DEF Between
  <1>5. Effect({}, {}, {}, {}) /\ Homes
    BY <1>3, SwitchTabEffect, NoCall DEF Between, Debts
  <1> QED BY <1>2, <1>4, <1>5, Harmless

\* Every request and every step.
LEMMA RequestsPay ==
  ASSUME Between, NEW w \in Workers, Request(w)
  PROVE  Careful(w)
  <1>1. ASSUME NEW p \in Live(projects), NEW q \in Live(projects), HandleMergeProjects(w, p, q) PROVE Careful(w)
    BY <1>1, HandleMergePays
  <1> QED BY <1>1, HandleCreateTabPays, HandleCreateTabReqPays, HandleAttachPays, HandleCreatePanePays, SweepPays,
            OverlayExitPays, HandleDestroyPanePays, HandleReplacePays, HandleDestroyTabPays, SwitchesPay,
            HandleCreateProjectPays, HandleDestroyProjectPays DEF Request

\* Every step of a request that was taken.
LEMMA StepsPay ==
  ASSUME Between, NEW w \in Workers, Step(w)
  PROVE  Careful(w)
  BY SwitchNewPays, FirstPanePays, FirstPaneReqPays, RejectPays, RejectReqPays, AttachTabPays, AttachPanePays,
     FlagPays, EnforcePays, EvictPays, DestroyThePanePays, EnsurePays, OrphansPays, UnspawnedPays, RecoverTabPays,
     RecoverPanePays, AddWorktreePays, SwapPlaceholderPays, DestroyTheTabPays, DestroyTheProjectPays,
     ReadActivePays, RecoverProjectPays, ShellTabPays, ShellPanePays, LandingPays, LandPays DEF Step

\* The books are kept by every step of every handler.
LEMMA DebtsKept == AllKept /\ WorkShaped /\ Capped /\ Debts /\ [WNext]_wvars => Debts'
  <1> SUFFICES ASSUME AllKept, WorkShaped, Capped, Debts, [WNext]_wvars PROVE Debts'
    OBVIOUS
  <1>1. AllKept'
    BY HandlersKeep
  <1>2. ASSUME IdsLeft, NEW w \in Workers, Request(w) \/ Step(w) PROVE Debts'
    <2>1. Between
      BY <1>1, <1>2 DEF Between
    <2> QED BY <1>2, <2>1, RequestsPay, StepsPay, BooksKept
  <1>3. CASE UNCHANGED wvars
    <2>1. UNCHANGED <<tabs, panes, projects, activeTab, activeProject, work, mix>>
      BY <1>3 DEF wvars, session
    <2>2. Orderly' /\ Solo' /\ ActiveBare'
      BY <2>1 DEF Debts, Orderly, Ops, Solo, ActiveBare, Bare, TabsOf, Live
    <2>3. Filled'
      BY <2>1 DEF Debts, Filled, Ops, Lacking, Normal, OwesTab, Live
    <2>4. Peopled'
      BY <2>1 DEF Debts, Peopled, Bare, TabsOf, OwesProj, Live
    <2>5. \A v \in Workers : Mem(v)'
      BY <2>1 DEF Debts, Mem, PaneMem, TodoMem, TabMem, KindMem, FlagMem, Ops, Normal, Live
    <2> QED BY <2>2, <2>3, <2>4, <2>5 DEF Debts
  <1> QED BY <1>2, <1>3 DEF WNext, Done

\* Nothing is owed at rest beside a session in which nothing is empty.
LEMMA DebtsStart == WStart /\ Orderly /\ NothingEmpty => Debts
  <1> SUFFICES ASSUME WStart, Orderly, NothingEmpty PROVE Debts
    OBVIOUS
  <1>1. AllKept
    BY SoundParts DEF WStart
  <1>2. \A w \in Workers : work[w].pc = "idle"
    BY DEF WStart, Idle
  <1>3. Quiet
    BY <1>2 DEF Quiet
  <1>4. Solo /\ \A w \in Workers : Mem(w)
    BY <1>2 DEF Solo, Mem, PaneMem, TodoMem, TabMem, KindMem, FlagMem
  <1>5. Filled
    BY <1>3 DEF NothingEmpty, NoEmptyTab, TabsNeverEmpty, Filled, Lacking
  <1>6. \A p \in Live(projects) : ~Bare(p)
    BY <1>1, <1>3, BareNow DEF NothingEmpty, SomethingToDraw
  <1>7. ActiveBare
    <2> SUFFICES ASSUME activeTab = None, NEW p \in Live(projects), p = activeProject PROVE FALSE
      BY DEF ActiveBare
    <2>1. Live(tabs) # {}
      BY <1>6 DEF Bare, TabsOf
    <2>2. None \in Live(tabs)
      BY <1>3, <2>1 DEF NothingEmpty, SomethingToDraw
    <2> QED BY <1>1, <2>2, SessionAssumption DEF AllKept, TabsKept
  <1> QED BY <1>4, <1>5, <1>6, <1>7 DEF Debts, Peopled

\* At rest nobody owes anything, so nothing is empty.
LEMMA DebtsPaid == AllKept /\ Debts => NothingEmpty
  <1> SUFFICES ASSUME AllKept, Debts PROVE NothingEmpty
    OBVIOUS
  <1>1. ASSUME Quiet PROVE \A v \in Workers : (\A t : ~OwesTab(v, t)) /\ (\A p : ~OwesProj(v, p))
    BY <1>1 DEF Quiet, OwesTab, OwesProj, Filling, Stocking
  <1>2. NoEmptyTab
    BY <1>1 DEF Debts, Filled, Lacking, NoEmptyTab, TabsNeverEmpty
  <1>3. SomethingToDraw
    <2> SUFFICES ASSUME Quiet
                 PROVE  /\ \A p \in Live(projects) : projects[p].tabIDs # <<>>
                        /\ Live(tabs) # {} => activeTab \in Live(tabs) /\ activeProject \in Live(projects)
      BY DEF SomethingToDraw
    <2>1. \A p \in Live(projects) : ~Bare(p)
      BY <1>1 DEF Debts, Peopled
    <2>2. ASSUME NEW t \in Live(tabs) PROVE activeTab \in Live(tabs) /\ activeProject \in Live(projects)
      <3>1. tabs[t].project \in Live(projects)
        BY DEF AllKept, TabsKept
      <3>2. activeProject \in Live(projects)
        BY <3>1 DEF AllKept, ActivesKept
      <3>3. activeTab # None
        BY <2>1, <3>2 DEF Debts, ActiveBare
      <3> QED BY <3>2, <3>3 DEF AllKept, ActivesKept
    <2> QED BY <2>1, <2>2, BareNow
  <1> QED BY <1>2, <1>3 DEF NothingEmpty

\* Beside a sound session at rest in which nothing is empty, however the
\* requests interleave that are served at once: when the handlers are at rest
\* again every tab has a pane, every project a tab, and something is active.
THEOREM NothingStaysEmpty == WStart /\ Orderly /\ NothingEmpty /\ [][WNext]_wvars => []NothingEmpty
  <1>1. WStart /\ Orderly /\ NothingEmpty => AllKept /\ WorkShaped /\ Capped /\ Debts
    BY HandlersStart, DebtsStart
  <1>2. AllKept /\ WorkShaped /\ Capped /\ Debts /\ [WNext]_wvars
          => AllKept' /\ WorkShaped' /\ Capped' /\ Debts'
    BY HandlersKeep, DebtsKept
  <1>3. AllKept /\ WorkShaped /\ Capped /\ Debts => NothingEmpty
    BY DebtsPaid
  <1> QED BY <1>1, <1>2, <1>3, PTL
=============================================================================

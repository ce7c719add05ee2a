------------------------- MODULE RateLimiter_proofs -------------------------
(***************************************************************************)
(* What RateLimiter guarantees for every set of requests, every window,    *)
(* capacity, length and estimate, and every order of calls.  The first     *)
(* part says what the operators of SlidingWindow guarantee, for every list *)
(* of slots, capacity and window length; the windows rest on it.  The      *)
(* bucket needs one fact, that debt and level balance at the time of the   *)
(* last refill.                                                            *)
(***************************************************************************)
EXTENDS RateLimiter, Queue_proofs

-----------------------------------------------------------------------------
(* Sliding windows.                                                        *)

\* The elements of a subsequence.
LEMMA SubSeqElements ==
  ASSUME NEW s \in Seq(Nat), NEW a \in 1..(Len(s) + 1), NEW b \in 0..Len(s), a <= b + 1
  PROVE  /\ SubSeq(s, a, b) \in Seq(Nat)
         /\ Len(SubSeq(s, a, b)) = b - a + 1
         /\ \A i \in 1..(b - a + 1) : SubSeq(s, a, b)[i] = s[i + a - 1]
BY SMTT(60)

\* A concatenation as a sequence of its own, element by element.
LEMMA ConcatElements ==
  ASSUME NEW l \in Seq(Nat), NEW r \in Seq(Nat)
  PROVE  \E c \in Seq(Nat) :
           /\ c = l \o r
           /\ Len(c) = Len(l) + Len(r)
           /\ \A i \in 1..(Len(l) + Len(r)) :
                c[i] = IF i <= Len(l) THEN l[i] ELSE r[i - Len(l)]
<1>1. /\ l \o r \in Seq(Nat)
      /\ Len(l \o r) = Len(l) + Len(r)
      /\ \A i \in 1..(Len(l) + Len(r)) :
           (l \o r)[i] = IF i <= Len(l) THEN l[i] ELSE r[i - Len(l)]
  BY ConcatProperties, Zenon
<1> QED
  BY <1>1, Zenon

\* c is s with e put in at p.
Inserted(c, s, p, e) ==
  /\ c \in Seq(Nat)
  /\ Len(c) = Len(s) + 1
  /\ \A i \in 1..(Len(s) + 1) : i < p => c[i] = s[i]
  /\ c[p] = e
  /\ \A i \in 1..(Len(s) + 1) : i > p => c[i] = s[i - 1]

\* The elements after list.insert.
LEMMA InsertAtElements ==
  ASSUME NEW s \in Seq(Nat), NEW p \in 1..(Len(s) + 1), NEW e \in Nat
  PROVE  Inserted(InsertAt(s, p, e), s, p, e)
<1> DEFINE left == SubSeq(s, 1, p - 1)
           right == SubSeq(s, p, Len(s))
<1>1. /\ left \in Seq(Nat) /\ Len(left) = p - 1
      /\ \A i \in 1..(p - 1) : left[i] = s[i]
  BY SubSeqElements
<1>2. /\ right \in Seq(Nat) /\ Len(right) = Len(s) - p + 1
      /\ \A i \in 1..(Len(s) - p + 1) : right[i] = s[i + p - 1]
  BY SubSeqElements
<1>3. InsertAt(s, p, e) = left \o <<e>> \o right
  BY DEF InsertAt
<1> HIDE DEF left, right
<1>4. <<e>> \in Seq(Nat) /\ Len(<<e>>) = 1 /\ <<e>>[1] = e
  OBVIOUS
<1>5. PICK l \in Seq(Nat) :
        /\ l = left \o <<e>> /\ Len(l) = Len(left) + Len(<<e>>)
        /\ \A i \in 1..(Len(left) + Len(<<e>>)) :
             l[i] = IF i <= Len(left) THEN left[i] ELSE <<e>>[i - Len(left)]
  BY <1>1, <1>4, ConcatElements, Zenon
<1>6. Len(l) = p /\ \A i \in 1..p : l[i] = IF i < p THEN s[i] ELSE e
  BY <1>1, <1>4, <1>5, SMTT(60)
<1>7. PICK c \in Seq(Nat) :
        /\ c = l \o right /\ Len(c) = Len(l) + Len(right)
        /\ \A i \in 1..(Len(l) + Len(right)) :
             c[i] = IF i <= Len(l) THEN l[i] ELSE right[i - Len(l)]
  BY <1>2, <1>5, ConcatElements, ZenonT(60)
<1>8. Len(c) = Len(s) + 1
  BY <1>2, <1>6, <1>7
<1>9. ASSUME NEW i \in 1..(Len(s) + 1), i < p
      PROVE  c[i] = s[i]
  <2>1. i \in 1..p /\ i \in 1..(Len(l) + Len(right)) /\ i <= Len(l)
    BY <1>2, <1>6, <1>9
  <2>2. c[i] = l[i] /\ l[i] = s[i]
    BY <2>1, <1>6, <1>7, <1>9, Zenon
  <2> QED
    BY <2>2, Zenon
<1>10. c[p] = e
  <2>1. p \in 1..p /\ p \in 1..(Len(l) + Len(right)) /\ p <= Len(l) /\ ~ (p < p)
    BY <1>2, <1>6
  <2>2. c[p] = l[p] /\ l[p] = e
    BY <2>1, <1>6, <1>7, Zenon
  <2> QED
    BY <2>2, Zenon
<1>11. ASSUME NEW i \in 1..(Len(s) + 1), i > p
       PROVE  c[i] = s[i - 1]
  <2>1. i - p \in 1..(Len(s) - p + 1) /\ i \in 1..(Len(l) + Len(right)) /\ ~ (i <= Len(l))
    BY <1>2, <1>6, <1>11
  <2>2. c[i] = right[i - p]
    BY <2>1, <1>6, <1>7, Zenon
  <2>3. right[i - p] = s[i - p + p - 1]
    BY <2>1, <1>2, Zenon
  <2>4. i - p + p - 1 = i - 1
    OBVIOUS
  <2> QED
    BY <2>2, <2>3, <2>4, Zenon
<1>12. InsertAt(s, p, e) = c
  BY <1>3, <1>5, <1>7, Zenon
<1> QED
  BY <1>7, <1>8, <1>9, <1>10, <1>11, <1>12, Zenon DEF Inserted

\* bisect.bisect_right does what it promises on a sorted list.
LEMMA BisectRightCorrect ==
  ASSUME NEW s \in Seq(Nat), NEW t \in Int, Sorted(s)
  PROVE  /\ BisectRight(s, t) \in 0..Len(s)
         /\ IsBisectRight(s, t, BisectRight(s, t))
<1> DEFINE Cuts == {k \in 0..Len(s) : \A i \in (k + 1)..Len(s) : s[i] > t}
<1>1. Len(s) \in Cuts /\ Cuts \in SUBSET Nat
  OBVIOUS
<1>2. PICK k \in Cuts : \A j \in Cuts : k <= j
  BY <1>1, LeastNatural
<1>3. \A i \in 1..k : s[i] <= t
  <2>1. CASE k = 0
    BY <2>1
  <2>2. CASE k # 0
    <3>1. k \in 1..Len(s) /\ k - 1 \in 0..Len(s) /\ ~ (k <= k - 1)
      BY <2>2
    <3>2. k - 1 \notin Cuts
      BY <1>2, <3>1, Zenon
    <3>3. PICK j \in (k - 1 + 1)..Len(s) : ~ (s[j] > t)
      BY <3>1, <3>2
    <3>4. j = k
      BY <3>1, <3>3
    <3>5. s[k] <= t
      BY <3>1, <3>3, <3>4
    <3>6. ASSUME NEW i \in 1..k PROVE s[i] <= t
      BY <3>1, <3>5, SMTT(60) DEF Sorted
    <3> QED
      BY <3>6, Zenon
  <2> QED
    BY <2>1, <2>2
<1>4. \E c \in 0..Len(s) : IsBisectRight(s, t, c)
  BY <1>2, <1>3 DEF IsBisectRight
<1> QED
  BY <1>4 DEF BisectRight

-----------------------------------------------------------------------------
(* The bookings of one window: b holds every slot booked and not cancelled, *)
(* s the ones the window still knows.                                       *)

\* The place q is where the order puts the slot e in b.
FitsAt(b, q, e) ==
  /\ \A i \in 1..Len(b) : i < q => b[i] <= e
  /\ \A i \in 1..Len(b) : i >= q => e <= b[i]

\* The slot e is a whole window after the one `capacity` from the end of b and
\* after all those before it.
LateEnough(b, e, capacity, window) ==
  \A i \in 1..Len(b) : i <= Len(b) - capacity + 1 => e >= b[i] + window

\* The end of a sorted list is sorted.
LEMMA TailSorted ==
  ASSUME NEW b \in Seq(Nat), NEW s \in Seq(Nat), NEW horizon \in Int,
         Sorted(b), IsTail(s, b, horizon)
  PROVE  Sorted(s)
<1>1. SUFFICES ASSUME NEW i \in 1..Len(s), NEW j \in 1..Len(s), i < j
               PROVE  s[i] <= s[j]
  BY Zenon DEF Sorted
<1>2. s[i] = b[Len(b) - Len(s) + i] /\ s[j] = b[Len(b) - Len(s) + j]
  BY Zenon DEF IsTail
<1>3. Len(s) \in Nat /\ Len(b) \in Nat /\ Len(s) <= Len(b)
  BY DEF IsTail
<1>4. /\ Len(b) - Len(s) + i \in 1..Len(b) /\ Len(b) - Len(s) + j \in 1..Len(b)
      /\ Len(b) - Len(s) + i < Len(b) - Len(s) + j
  BY <1>1, <1>3
<1>5. b[Len(b) - Len(s) + i] <= b[Len(b) - Len(s) + j]
  BY <1>4, Zenon DEF Sorted
<1> QED
  BY <1>2, <1>5, Zenon

\* Pruning forgets only slots a whole window old.
LEMMA PruneKeepsTail ==
  ASSUME NEW b \in Seq(Nat), NEW s \in Seq(Nat), NEW time \in Nat,
         NEW window \in Nat, Sorted(b), IsTail(s, b, time - window)
  PROVE  /\ Prune(s, time, window) \in Seq(Nat)
         /\ IsTail(Prune(s, time, window), b, time - window)
<1> DEFINE k == BisectRight(s, time - window)
           live == SubSeq(s, k + 1, Len(s))
<1>1. Sorted(s)
  BY TailSorted
<1>2. k \in 0..Len(s) /\ IsBisectRight(s, time - window, k)
  BY <1>1, BisectRightCorrect
<1> HIDE DEF k
<1>3. k + 1 \in 1..(Len(s) + 1) /\ Len(s) \in 0..Len(s) /\ k + 1 <= Len(s) + 1
  BY <1>2
<1>4. /\ live \in Seq(Nat) /\ Len(live) = Len(s) - (k + 1) + 1
      /\ \A i \in 1..(Len(s) - (k + 1) + 1) : live[i] = s[i + (k + 1) - 1]
  BY <1>3, SubSeqElements
<1> HIDE DEF live
<1>5. Len(live) = Len(s) - k /\ \A i \in 1..(Len(s) - k) : live[i] = s[i + k]
  BY <1>2, <1>4
<1>6. IsTail(live, b, time - window)
  <2>1. Len(live) <= Len(b) /\ Len(b) \in Nat /\ Len(live) \in Nat /\ Len(s) \in Nat
    BY <1>2, <1>5 DEF IsTail
  <2>2. ASSUME NEW i \in 1..Len(live)
        PROVE  live[i] = b[Len(b) - Len(live) + i]
    <3>1. i + k \in 1..Len(s) /\ live[i] = s[i + k]
      BY <1>2, <1>5
    <3>2. s[i + k] = b[Len(b) - Len(s) + (i + k)]
      BY <3>1 DEF IsTail
    <3>3. Len(b) - Len(s) + (i + k) = Len(b) - Len(live) + i
      BY <1>2, <1>5, <2>1
    <3> QED
      BY <3>1, <3>2, <3>3, Zenon
  <2>3. ASSUME NEW i \in 1..(Len(b) - Len(live))
        PROVE  b[i] <= time - window
    <3>1. CASE i <= Len(b) - Len(s)
      BY <3>1, <2>1 DEF IsTail
    <3>2. CASE i > Len(b) - Len(s)
      <4>1. i - (Len(b) - Len(s)) \in 1..k /\ i - (Len(b) - Len(s)) \in 1..Len(s)
        BY <3>2, <1>2, <1>5, <2>1, SMTT(60)
      <4>2. s[i - (Len(b) - Len(s))] <= time - window
        BY <4>1, <1>2 DEF IsBisectRight
      <4>3. s[i - (Len(b) - Len(s))] = b[Len(b) - Len(s) + (i - (Len(b) - Len(s)))]
        BY <4>1 DEF IsTail
      <4>4. Len(b) - Len(s) + (i - (Len(b) - Len(s))) = i
        BY <2>1
      <4> QED
        BY <4>2, <4>3, <4>4
    <3> QED
      BY <3>1, <3>2, <2>1
  <2> QED
    BY <2>1, <2>2, <2>3 DEF IsTail
<1> QED
  BY <1>4, <1>6, Zenon DEF Prune, live, k

\* Removing a slot leaves the others in order.
LEMMA RemoveKeepsSorted ==
  ASSUME NEW b \in Seq(Nat), NEW q \in 1..Len(b), Sorted(b)
  PROVE  Sorted(RemoveAt(b, q))
<1> DEFINE b2 == RemoveAt(b, q)
<1>1. Len(b2) = Len(b) - 1 /\ Len(b) \in Nat
  BY RemoveAtPlaces
<1>2. \A i \in 1..(Len(b) - 1) : b2[i] = IF i < q THEN b[i] ELSE b[i + 1]
  BY RemoveAtPlaces, Zenon
<1> HIDE DEF b2
<1>3. SUFFICES ASSUME NEW i \in 1..Len(b2), NEW j \in 1..Len(b2), i < j
               PROVE  b2[i] <= b2[j]
  BY Zenon DEF Sorted, b2
<1>4. i \in 1..(Len(b) - 1) /\ j \in 1..(Len(b) - 1)
  BY <1>1
<1>5. i \in 1..Len(b) /\ j \in 1..Len(b) /\ i + 1 \in 1..Len(b) /\ j + 1 \in 1..Len(b)
  BY <1>1
<1>6. i + 1 < j + 1 /\ i < j + 1
  BY <1>1, <1>3
<1>7. b[i] <= b[j] /\ b[i + 1] <= b[j + 1] /\ b[i] <= b[j + 1]
  BY <1>3, <1>5, <1>6, Zenon DEF Sorted
<1>8. /\ b2[i] = IF i < q THEN b[i] ELSE b[i + 1]
      /\ b2[j] = IF j < q THEN b[j] ELSE b[j + 1]
  BY <1>4, <1>2, Zenon
<1> QED
  BY <1>3, <1>7, <1>8

\* Removing a slot leaves the others at least as far apart.
LEMMA RemoveKeepsSpaced ==
  ASSUME NEW b \in Seq(Nat), NEW q \in 1..Len(b), NEW capacity \in Nat,
         NEW window \in Nat, Sorted(b), Spaced(b, capacity, window)
  PROVE  Spaced(RemoveAt(b, q), capacity, window)
<1> DEFINE b2 == RemoveAt(b, q)
<1>1. Len(b2) = Len(b) - 1 /\ Len(b) \in Nat
  BY RemoveAtPlaces
<1>2. \A i \in 1..(Len(b) - 1) : b2[i] = IF i < q THEN b[i] ELSE b[i + 1]
  BY RemoveAtPlaces, Zenon
<1> HIDE DEF b2
<1>3. SUFFICES ASSUME NEW i \in 1..Len(b2), i + capacity <= Len(b2)
               PROVE  b2[i + capacity] >= b2[i] + window
  BY Zenon DEF Spaced, b2
<1>4. i \in 1..(Len(b) - 1) /\ i + capacity \in 1..(Len(b) - 1)
  BY <1>1, <1>3
<1>5. i \in 1..Len(b) /\ i + 1 \in 1..Len(b)
  BY <1>1
<1>6. i + capacity \in 1..Len(b) /\ i + capacity + 1 \in 1..Len(b)
  BY <1>1, <1>3
<1>7. /\ i + capacity <= Len(b) /\ i + 1 + capacity <= Len(b)
      /\ i + 1 + capacity = i + capacity + 1 /\ i + capacity < i + capacity + 1
  BY <1>1, <1>3
<1>8. b[i + capacity] >= b[i] + window /\ b[i + 1 + capacity] >= b[i + 1] + window
  BY <1>5, <1>7, Zenon DEF Spaced
<1>9. b[i + capacity] <= b[i + capacity + 1]
  BY <1>6, <1>7, Zenon DEF Sorted
<1>10. /\ b2[i] = IF i < q THEN b[i] ELSE b[i + 1]
       /\ b2[i + capacity] = IF i + capacity < q THEN b[i + capacity] ELSE b[i + capacity + 1]
  BY <1>4, <1>2, Zenon
<1>11. b[i] \in Nat /\ b[i + 1] \in Nat /\ b[i + capacity] \in Nat /\ b[i + capacity + 1] \in Nat
  BY <1>5, <1>6, ElementOfSeq, Zenon
<1>12. b[i + capacity + 1] >= b[i + 1] + window
  BY <1>7, <1>8, Zenon
<1>13. i + capacity < q => i < q
  OBVIOUS
<1>14. CASE i < q
  <2>1. b2[i] = b[i] /\ b2[i + capacity] \in {b[i + capacity], b[i + capacity + 1]}
    BY <1>14, <1>10
  <2>2. b[i + capacity + 1] >= b[i] + window
    <3>1. \A x, y, z \in Nat : x >= y + window /\ x <= z => z >= y + window
      OBVIOUS
    <3> QED
      BY <3>1, <1>8, <1>9, <1>11, Zenon
  <2> QED
    BY <2>1, <2>2, <1>8, Zenon
<1>15. CASE ~ (i < q)
  BY <1>15, <1>10, <1>12, <1>13, Zenon
<1> QED
  BY <1>14, <1>15, Zenon

\* Removing the same slot from the window's list and from all the bookings
\* leaves the one the end of the other.
LEMMA RemoveKeepsTail ==
  ASSUME NEW b \in Seq(Nat), NEW s \in Seq(Nat), NEW horizon \in Int,
         IsTail(s, b, horizon), NEW p \in 1..Len(s)
  PROVE  /\ Len(b) - Len(s) + p \in 1..Len(b)
         /\ IsTail(RemoveAt(s, p), RemoveAt(b, Len(b) - Len(s) + p), horizon)
<1> DEFINE s2 == RemoveAt(s, p)
           q == Len(b) - Len(s) + p
           b2 == RemoveAt(b, q)
<1>0. Len(b) \in Nat /\ Len(s) \in Nat /\ Len(s) <= Len(b)
  BY DEF IsTail
<1>1. q \in 1..Len(b) /\ q = Len(b) - Len(s) + p
  BY <1>0
<1> HIDE DEF q
<1>2. Len(s2) = Len(s) - 1
  BY RemoveAtPlaces, Zenon
<1>3. \A i \in 1..(Len(s) - 1) : s2[i] = IF i < p THEN s[i] ELSE s[i + 1]
  BY RemoveAtPlaces, Zenon
<1>4. Len(b2) = Len(b) - 1
  BY <1>1, RemoveAtPlaces, Zenon
<1>5. \A i \in 1..(Len(b) - 1) : b2[i] = IF i < q THEN b[i] ELSE b[i + 1]
  BY <1>1, RemoveAtPlaces, Zenon
<1> HIDE DEF s2, b2
<1>6. Len(s2) <= Len(b2) /\ Len(b2) - Len(s2) = Len(b) - Len(s)
  BY <1>0, <1>2, <1>4
<1>7. ASSUME NEW i \in 1..Len(s2)
      PROVE  s2[i] = b2[Len(b2) - Len(s2) + i]
  <2>0. i \in Int /\ 1 <= i /\ i <= Len(s) - 1
    BY <1>0, <1>2
  <2>1. i \in 1..(Len(s) - 1) /\ i \in 1..Len(s) /\ i + 1 \in 1..Len(s)
    BY <1>0, <2>0
  <2>2. Len(b) - Len(s) + i \in 1..(Len(b) - 1)
    BY <1>0, <2>0, SMTT(60)
  <2>3. /\ Len(b2) - Len(s2) + i = Len(b) - Len(s) + i
        /\ Len(b) - Len(s) + i + 1 = Len(b) - Len(s) + (i + 1)
    <3>1. Len(b2) - Len(s2) + i = Len(b) - Len(s) + i
      BY <1>6, Zenon
    <3>2. Len(b) - Len(s) + i + 1 = Len(b) - Len(s) + (i + 1)
      BY <1>0, <2>0
    <3> QED
      BY <3>1, <3>2, Zenon
  <2>4. i < p <=> Len(b) - Len(s) + i < q
    <3>1. p \in Int /\ Len(b) - Len(s) \in Int
      BY <1>0
    <3>2. \A x, y, d \in Int : x < y <=> d + x < d + y
      OBVIOUS
    <3> QED
      BY <3>1, <3>2, <2>0, <1>1, Zenon
  <2>5. s[i] = b[Len(b) - Len(s) + i] /\ s[i + 1] = b[Len(b) - Len(s) + (i + 1)]
    BY <2>1, Zenon DEF IsTail
  <2>6. s2[i] = IF i < p THEN s[i] ELSE s[i + 1]
    BY <2>1, <1>3, Zenon
  <2>7. b2[Len(b) - Len(s) + i]
          = IF Len(b) - Len(s) + i < q
            THEN b[Len(b) - Len(s) + i] ELSE b[Len(b) - Len(s) + i + 1]
    BY <2>2, <1>5, Zenon
  <2> QED
    BY <2>3, <2>4, <2>5, <2>6, <2>7, Zenon
<1>8. ASSUME NEW i \in 1..(Len(b2) - Len(s2))
      PROVE  b2[i] <= horizon
  <2>0. i \in Int /\ 1 <= i /\ i <= Len(b) - Len(s)
    BY <1>0, <1>6
  <2>1. p \in Int /\ 1 <= p /\ p <= Len(s)
    BY <1>0
  <2>2. i < q /\ i <= Len(b) - 1
    BY <1>0, <1>1, <2>0, <2>1, SMTT(60)
  <2>3. i \in 1..(Len(b) - 1) /\ i \in 1..(Len(b) - Len(s))
    BY <1>0, <2>0, <2>2
  <2>4. b2[i] = b[i]
    BY <2>2, <2>3, <1>5, Zenon
  <2>5. b[i] <= horizon
    BY <2>3, Zenon DEF IsTail
  <2> QED
    BY <2>4, <2>5, Zenon
<1>9. IsTail(s2, b2, horizon)
  BY <1>6, <1>7, <1>8, Zenon DEF IsTail
<1> QED
  BY <1>1, <1>9, Zenon DEF s2, b2, q

\* Putting a slot between the ones before it and the ones after it keeps the
\* list in order.
LEMMA InsertKeepsSorted ==
  ASSUME NEW b \in Seq(Nat), NEW q \in 1..(Len(b) + 1), NEW e \in Nat, Sorted(b),
         FitsAt(b, q, e)
  PROVE  Sorted(InsertAt(b, q, e))
<1> DEFINE b2 == InsertAt(b, q, e)
<1>0. Inserted(b2, b, q, e)
  BY InsertAtElements, Zenon
<1> HIDE DEF b2
<1>1. Len(b2) = Len(b) + 1 /\ Len(b) \in Nat
  BY <1>0 DEF Inserted
<1>2. /\ \A i \in 1..(Len(b) + 1) : i < q => b2[i] = b[i]
      /\ b2[q] = e
      /\ \A i \in 1..(Len(b) + 1) : i > q => b2[i] = b[i - 1]
  BY <1>0, Zenon DEF Inserted
<1>3. SUFFICES ASSUME NEW i \in 1..Len(b2), NEW j \in 1..Len(b2), i < j
               PROVE  b2[i] <= b2[j]
  BY Zenon DEF Sorted, b2
<1>4. /\ i < q => b2[i] = b[i]
      /\ i = q => b2[i] = e
      /\ i > q => b2[i] = b[i - 1]
      /\ j < q => b2[j] = b[j]
      /\ j = q => b2[j] = e
      /\ j > q => b2[j] = b[j - 1]
  BY <1>1, <1>2, Zenon
<1>5. CASE j < q
  <2>1. i \in 1..Len(b) /\ j \in 1..Len(b) /\ i < q
    BY <1>1, <1>3, <1>5
  <2> QED
    BY <2>1, <1>3, <1>4, <1>5, Zenon DEF Sorted
<1>6. CASE j = q
  <2>1. i \in 1..Len(b) /\ i < q
    BY <1>1, <1>3, <1>6
  <2> QED
    BY <2>1, <1>4, <1>6, Zenon DEF FitsAt
<1>7. CASE j > q
  <2>1. j - 1 \in 1..Len(b) /\ j - 1 >= q
    BY <1>1, <1>7
  <2>2. b2[j] = b[j - 1] /\ e <= b[j - 1]
    BY <2>1, <1>4, <1>7, Zenon DEF FitsAt
  <2>3. CASE i < q
    <3>1. i \in 1..Len(b) /\ i < j - 1
      BY <2>1, <2>3, <1>1
    <3> QED
      BY <3>1, <2>1, <2>2, <2>3, <1>4, Zenon DEF Sorted
  <2>4. CASE i = q
    BY <2>2, <2>4, <1>4, Zenon
  <2>5. CASE i > q
    <3>1. i - 1 \in 1..Len(b)
      BY <2>5, <1>1
    <3>2. i - 1 < j - 1
      BY <1>1, <1>3
    <3> QED
      BY <3>1, <3>2, <2>1, <2>2, <2>5, <1>4, Zenon DEF Sorted
  <2> QED
    BY <2>3, <2>4, <2>5, <1>1
<1> QED
  BY <1>5, <1>6, <1>7, <1>1

\* A slot a whole window after the one `capacity` from the end can go wherever
\* the order puts it: it lands so late that no window gets one too many.
LEMMA InsertKeepsSpaced ==
  ASSUME NEW b \in Seq(Nat), NEW q \in 1..(Len(b) + 1), NEW e \in Nat, Sorted(b),
         NEW capacity \in Nat \ {0}, NEW window \in Nat \ {0},
         Spaced(b, capacity, window), FitsAt(b, q, e),
         LateEnough(b, e, capacity, window)
  PROVE  Spaced(InsertAt(b, q, e), capacity, window)
<1> DEFINE b2 == InsertAt(b, q, e)
<1>0. Inserted(b2, b, q, e)
  BY InsertAtElements, Zenon
<1> HIDE DEF b2
<1>1. Len(b2) = Len(b) + 1 /\ Len(b) \in Nat
  BY <1>0 DEF Inserted
<1>2. \A i \in 1..(Len(b) + 1) : i < q => b2[i] = b[i]
  BY <1>0, Zenon DEF Inserted
<1>13. b2[q] = e
  BY <1>0, Zenon DEF Inserted
<1>14. \A i \in 1..(Len(b) + 1) : i > q => b2[i] = b[i - 1]
  BY <1>0, Zenon DEF Inserted
<1>3. SUFFICES ASSUME NEW i \in 1..Len(b2), i + capacity <= Len(b2)
               PROVE  b2[i + capacity] >= b2[i] + window
  BY Zenon DEF Spaced, b2
<1>4. i \in Nat /\ capacity \in Nat /\ 1 <= capacity /\ i + capacity <= Len(b) + 1 /\ 1 <= i
  BY <1>1, <1>3
<1>5. i \in 1..Len(b) /\ i <= Len(b) - capacity + 1
  BY <1>1, <1>4
<1>6. e >= b[i] + window /\ b[i] \in Nat
  BY <1>5, ElementOfSeq, Zenon DEF LateEnough
<1>7. i < q
  <2>1. SUFFICES ASSUME i >= q PROVE FALSE
    BY <1>4
  <2>2. e <= b[i]
    BY <2>1, <1>5, Zenon DEF FitsAt
  <2> QED
    BY <2>2, <1>6
<1>8. b2[i] = b[i]
  <2>1. i \in 1..(Len(b) + 1)
    BY <1>1
  <2> QED
    BY <1>7, <1>2, <2>1, Zenon
<1>9. i + capacity \in 1..(Len(b) + 1)
  BY <1>4, <1>1
<1>10. CASE i + capacity < q
  <2>1. i + capacity <= Len(b)
    BY <1>10, <1>1, <1>4
  <2>2. b2[i + capacity] = b[i + capacity]
    BY <1>10, <1>9, <1>2, Zenon
  <2> QED
    BY <2>1, <2>2, <1>5, <1>8, Zenon DEF Spaced
<1>11. CASE i + capacity = q
  <2>2. b2[i + capacity] = e
    BY <1>11, <1>13, Zenon
  <2> QED
    BY <2>2, <1>6, <1>8, Zenon
<1>12. CASE i + capacity > q
  <2>1. /\ i + capacity - 1 >= q /\ i + capacity - 1 \in 1..Len(b)
    BY <1>12, <1>4, <1>1
  <2>2. b2[i + capacity] = b[i + capacity - 1]
    <3>1. PICK j \in 1..(Len(b) + 1) : j = i + capacity
      BY <1>9, Zenon
    <3>2. j > q
      BY <1>12, <3>1, Zenon
    <3>3. b2[j] = b[j - 1]
      BY <3>2, <1>14, Zenon
    <3> QED
      BY <3>1, <3>3, SMT
  <2>3. b[i + capacity - 1] >= e
    <3>1. e <= b[i + capacity - 1]
      BY <2>1, Zenon DEF FitsAt
    <3>2. b[i + capacity - 1] \in Nat
      BY <2>1, ElementOfSeq, Zenon
    <3> QED
      BY <3>1, <3>2
  <2>4. b[i + capacity - 1] \in Nat
    BY <2>1, ElementOfSeq, Zenon
  <2>5. \A x, y, z \in Nat : x >= y /\ y >= z + window => x >= z + window
    OBVIOUS
  <2>6. b[i + capacity - 1] >= b[i] + window
    BY <2>3, <2>4, <2>5, <1>6, Zenon
  <2> QED
    BY <2>2, <2>6, <1>8, Zenon
<1> QED
  BY <1>10, <1>11, <1>12, <1>4

\* Putting the same slot at the same place in the window's list and in all the
\* bookings leaves the one the end of the other.
LEMMA InsertKeepsTail ==
  ASSUME NEW b \in Seq(Nat), NEW s \in Seq(Nat), NEW horizon \in Int,
         IsTail(s, b, horizon), NEW p \in 1..(Len(s) + 1), NEW e \in Nat
  PROVE  /\ Len(b) - Len(s) + p \in 1..(Len(b) + 1)
         /\ IsTail(InsertAt(s, p, e), InsertAt(b, Len(b) - Len(s) + p, e), horizon)
<1> DEFINE s2 == InsertAt(s, p, e)
           d == Len(b) - Len(s)
           q == d + p
           b2 == InsertAt(b, q, e)
<1>0. Len(b) \in Nat /\ Len(s) \in Nat /\ Len(s) <= Len(b)
  BY DEF IsTail
<1>1. q \in 1..(Len(b) + 1) /\ q = d + p /\ d \in Nat /\ Len(b) = d + Len(s) /\ p \in Nat /\ 1 <= p
  BY <1>0
<1>2. \A i \in 1..Len(s) : s[i] = b[d + i]
  BY Zenon DEF IsTail
<1>3. \A i \in 1..d : b[i] <= horizon
  BY Zenon DEF IsTail
<1> HIDE DEF d, q
<1>16. Inserted(s2, s, p, e)
  BY InsertAtElements, Zenon
<1>17. Inserted(b2, b, q, e)
  BY <1>1, InsertAtElements, Zenon
<1> HIDE DEF s2, b2
<1>4. Len(s2) = Len(s) + 1
  BY <1>16, Zenon DEF Inserted
<1>5. \A i \in 1..(Len(s) + 1) : i < p => s2[i] = s[i]
  BY <1>16, Zenon DEF Inserted
<1>12. s2[p] = e
  BY <1>16, Zenon DEF Inserted
<1>13. \A i \in 1..(Len(s) + 1) : i > p => s2[i] = s[i - 1]
  BY <1>16, Zenon DEF Inserted
<1>6. Len(b2) = Len(b) + 1
  BY <1>17, Zenon DEF Inserted
<1>7. \A i \in 1..(Len(b) + 1) : i < q => b2[i] = b[i]
  BY <1>17, Zenon DEF Inserted
<1>14. b2[q] = e
  BY <1>17, Zenon DEF Inserted
<1>15. \A i \in 1..(Len(b) + 1) : i > q => b2[i] = b[i - 1]
  BY <1>17, Zenon DEF Inserted
<1>8. Len(s2) <= Len(b2) /\ Len(b2) - Len(s2) = d
  BY <1>0, <1>1, <1>4, <1>6
<1>9. ASSUME NEW i \in 1..Len(s2)
      PROVE  s2[i] = b2[d + i]
  <2>0. i \in Nat /\ 1 <= i /\ i <= Len(s) + 1
    BY <1>0, <1>4
  <2>1. d + i \in 1..(Len(b) + 1)
    BY <1>0, <1>1, <2>0
  <2>2. i \in 1..(Len(s) + 1)
    BY <2>0, <1>0
  <2>3. CASE i < p
    <3>1. i \in 1..Len(s) /\ d + i < q
      BY <2>0, <2>3, <1>0, <1>1
    <3> QED
      BY <3>1, <2>1, <2>2, <2>3, <1>2, <1>5, <1>7, Zenon
  <2>4. CASE i = p
    BY <2>4, <1>1, <1>12, <1>14, Zenon
  <2>5. CASE i > p
    <3>1. i - 1 \in 1..Len(s) /\ d + i > q /\ d + i - 1 = d + (i - 1)
      BY <2>0, <2>5, <1>0, <1>1
    <3>2. s[i - 1] = b[d + (i - 1)]
      BY <3>1, <1>2, Zenon
    <3>3. s2[i] = s[i - 1]
      BY <2>2, <2>5, <1>13, Zenon
    <3>4. PICK j \in 1..(Len(b) + 1) : j = d + i
      BY <2>1, Zenon
    <3>5. b2[j] = b[j - 1]
      <4>1. j > q
        BY <3>1, <3>4, Zenon
      <4> QED
        BY <4>1, <1>15, Zenon
    <3> QED
      <4>1. j - 1 = d + (i - 1)
        BY <3>4, <2>0, <1>1
      <4>2. b2[d + i] = b[d + (i - 1)]
        BY <4>1, <3>4, <3>5, Zenon
      <4> QED
        BY <4>2, <3>2, <3>3, Zenon
  <2> QED
    BY <2>3, <2>4, <2>5, <2>0, <1>1
<1>10. ASSUME NEW i \in 1..d
       PROVE  b2[i] <= horizon
  <2>1. i \in 1..(Len(b) + 1) /\ i < q
    BY <1>0, <1>1
  <2>2. b2[i] = b[i]
    BY <2>1, <1>7, Zenon
  <2> QED
    BY <2>2, <1>3, Zenon
<1>11. IsTail(s2, b2, horizon)
  BY <1>8, <1>9, <1>10, Zenon DEF IsTail
<1> QED
  BY <1>1, <1>11, Zenon DEF s2, b2, q, d

\* _next_slot answers no earlier than now, and once the window is full no
\* earlier than a window after the slot `capacity` from the end.
LEMMA NextSlotLate ==
  ASSUME NEW s \in Seq(Nat), NEW time \in Nat, NEW capacity \in Nat \ {0},
         NEW window \in Nat \ {0}
  PROVE  LET e == NextSlot(s, time, capacity, window) IN
           /\ e \in Nat
           /\ e >= time
           /\ Len(s) >= capacity => e >= s[Len(s) - capacity + 1] + window
<1> DEFINE e == NextSlot(s, time, capacity, window)
           from == s[Len(s) - capacity + 1]
<1>1. CASE Len(s) < capacity
  <2>1. e = time
    BY <1>1, Zenon DEF NextSlot
  <2> HIDE DEF e
  <2>2. ~ (Len(s) >= capacity)
    BY <1>1
  <2>3. e \in Nat /\ e >= time
    BY <2>1
  <2> QED
    BY <2>2, <2>3, Zenon DEF e
<1>2. CASE ~ (Len(s) < capacity)
  <2>1. Len(s) - capacity + 1 \in 1..Len(s)
    BY <1>2
  <2>2. from \in Nat
    BY <2>1, ElementOfSeq, Zenon
  <2>3. e = IF from + window <= time THEN time ELSE from + window
    BY <1>2, Zenon DEF NextSlot
  <2> HIDE DEF e, from
  <2>4. e \in Nat /\ e >= time /\ e >= from + window
    BY <2>2, <2>3
  <2> QED
    BY <2>4, Zenon DEF e, from
<1> QED
  BY <1>1, <1>2, Zenon

\* What a booking does: the slot that _next_slot offers goes where bisect puts
\* it, and the window keeps its promise.
LEMMA BookedSlotFits ==
  ASSUME NEW b \in Seq(Nat), NEW s \in Seq(Nat), NEW time \in Nat,
         NEW capacity \in Nat \ {0}, NEW window \in Nat \ {0},
         Sorted(b), IsTail(s, b, time - window)
  PROVE  LET e == NextSlot(s, time, capacity, window)
             p == BisectRight(s, e) + 1
         IN  /\ e \in Nat
             /\ p \in 1..(Len(s) + 1)
             /\ FitsAt(b, Len(b) - Len(s) + p, e)
             /\ LateEnough(b, e, capacity, window)
<1> DEFINE e == NextSlot(s, time, capacity, window)
           k == BisectRight(s, e)
           d == Len(b) - Len(s)
<1>1. e \in Nat /\ e >= time
  BY NextSlotLate, Zenon
<1>2. Len(s) >= capacity => e >= s[Len(s) - capacity + 1] + window
  BY NextSlotLate, Zenon
<1> HIDE DEF e
<1>3. Sorted(s)
  <2>1. time - window \in Int
    OBVIOUS
  <2> QED
    BY <2>1, TailSorted, Zenon
<1>4. k \in 0..Len(s) /\ IsBisectRight(s, e, k)
  <2>1. e \in Int
    BY <1>1
  <2> QED
    BY <2>1, <1>3, BisectRightCorrect, Zenon
<1> HIDE DEF k
<1>5. Len(b) \in Nat /\ Len(s) \in Nat /\ Len(s) <= Len(b)
  BY DEF IsTail
<1>6. d \in Nat /\ Len(b) = d + Len(s)
  BY <1>5
<1>7. \A i \in 1..Len(s) : s[i] = b[d + i]
  BY Zenon DEF IsTail
<1>8. \A i \in 1..d : b[i] <= time - window
  BY Zenon DEF IsTail
<1> HIDE DEF d
<1>9. ASSUME NEW i \in 1..d PROVE b[i] + window <= e /\ b[i] <= e
  <2>1. i \in 1..Len(b)
    BY <1>6
  <2>2. b[i] \in Nat
    BY <2>1, ElementOfSeq, Zenon
  <2>3. b[i] <= time - window
    BY <1>8, Zenon
  <2> QED
    BY <2>2, <2>3, <1>1
<1>10. ASSUME NEW i \in 1..Len(b), i > d
       PROVE  i - d \in 1..Len(s) /\ s[i - d] = b[i]
  <2>1. i - d \in 1..Len(s) /\ d + (i - d) = i
    BY <1>6, <1>10
  <2> QED
    BY <2>1, <1>7, Zenon
<1>11. ASSUME NEW i \in 1..Len(b), i < d + (k + 1) PROVE b[i] <= e
  <2>1. CASE i <= d
    <3>1. i \in 1..d
      BY <2>1, <1>6
    <3> QED
      BY <3>1, <1>9, Zenon
  <2>2. CASE i > d
    <3>1. i - d \in 1..k
      BY <2>2, <1>4, <1>6, <1>11
    <3>2. s[i - d] <= e
      BY <3>1, <1>4, Zenon DEF IsBisectRight
    <3> QED
      BY <3>2, <2>2, <1>10, Zenon
  <2> QED
    BY <2>1, <2>2, <1>6
<1>12. ASSUME NEW i \in 1..Len(b), i >= d + (k + 1) PROVE e <= b[i]
  <2>1. i > d /\ i - d \in (k + 1)..Len(s)
    BY <1>4, <1>6, <1>12
  <2>2. s[i - d] > e
    BY <2>1, <1>4, Zenon DEF IsBisectRight
  <2>3. b[i] > e
    BY <2>1, <2>2, <1>10, Zenon
  <2>4. b[i] \in Nat
    BY ElementOfSeq, Zenon
  <2> QED
    BY <2>3, <2>4, <1>1
<1>13. ASSUME NEW i \in 1..Len(b), i <= Len(b) - capacity + 1
       PROVE  e >= b[i] + window
  <2>1. CASE i <= d
    <3>1. i \in 1..d
      BY <2>1, <1>6
    <3>2. b[i] + window <= e
      BY <3>1, <1>9, Zenon
    <3>3. b[i] \in Nat
      BY ElementOfSeq, Zenon
    <3> QED
      BY <3>2, <3>3, <1>1
  <2>2. CASE i > d
    <3>1. Len(s) >= capacity
      BY <2>2, <1>6, <1>13
    <3>0. Len(b) - capacity + 1 \in 1..Len(b)
      BY <1>5, <1>6, <3>1
    <3>2. PICK m \in 1..Len(b) : m = Len(b) - capacity + 1
      BY <3>0, Zenon
    <3>3. b[i] <= b[m]
      <4>0. i <= m
        BY <3>2, <1>13, Zenon
      <4>1. i = m \/ i < m
        BY <4>0
      <4>2. b[i] \in Nat
        BY ElementOfSeq, Zenon
      <4>3. i = m => b[i] <= b[m]
        BY <4>2
      <4>4. i < m => b[i] <= b[m]
        BY Zenon DEF Sorted
      <4> QED
        BY <4>1, <4>3, <4>4, Zenon
    <3>4. e >= b[m] + window
      <4>1. Len(s) - capacity + 1 \in 1..Len(s) /\ d + (Len(s) - capacity + 1) = m
        BY <3>1, <3>2, <1>5, <1>6
      <4>2. s[Len(s) - capacity + 1] = b[m]
        BY <4>1, <1>7, Zenon
      <4> QED
        BY <4>2, <3>1, <1>2, Zenon
    <3>5. b[i] \in Nat /\ b[m] \in Nat
      BY ElementOfSeq, Zenon
    <3>6. \A x, y, z \in Nat : x <= y /\ z >= y + window => z >= x + window
      OBVIOUS
    <3> QED
      BY <3>3, <3>4, <3>5, <3>6, <1>1, Zenon
  <2> QED
    BY <2>1, <2>2, <1>6
<1>14. FitsAt(b, d + (k + 1), e) /\ LateEnough(b, e, capacity, window)
  BY <1>11, <1>12, <1>13, Zenon DEF FitsAt, LateEnough
<1>15. k + 1 \in 1..(Len(s) + 1)
  BY <1>4
<1> QED
  BY <1>1, <1>14, <1>15, Zenon DEF e, k, d

-----------------------------------------------------------------------------
(* The four things that happen to a window, each keeping what it promises. *)

\* One window's part of the limiter's invariant: the bookings are in order and
\* far enough apart, and the live list is their end.
WindowInv(s, b, time, capacity, window) ==
  /\ s \in Seq(Nat)
  /\ b \in Seq(Nat)
  /\ Sorted(b)
  /\ Spaced(b, capacity, window)
  /\ IsTail(s, b, time - window)

\* Every query prunes.
LEMMA PruneKeepsWindow ==
  ASSUME NEW s, NEW b, NEW time \in Nat, NEW capacity \in Nat \ {0},
         NEW window \in Nat \ {0}, WindowInv(s, b, time, capacity, window)
  PROVE  WindowInv(Prune(s, time, window), b, time, capacity, window)
<1>1. /\ s \in Seq(Nat) /\ b \in Seq(Nat) /\ Sorted(b)
      /\ Spaced(b, capacity, window) /\ IsTail(s, b, time - window)
  BY Zenon DEF WindowInv
<1>2. window \in Nat
  OBVIOUS
<1>3. /\ Prune(s, time, window) \in Seq(Nat)
      /\ IsTail(Prune(s, time, window), b, time - window)
  BY <1>1, <1>2, PruneKeepsTail, Zenon
<1> QED
  BY <1>1, <1>3, Zenon DEF WindowInv

\* The clock moves on.
LEMMA TickKeepsWindow ==
  ASSUME NEW s, NEW b, NEW time \in Nat, NEW capacity \in Nat \ {0},
         NEW window \in Nat \ {0}, WindowInv(s, b, time, capacity, window)
  PROVE  WindowInv(s, b, time + 1, capacity, window)
<1>1. /\ s \in Seq(Nat) /\ b \in Seq(Nat) /\ Sorted(b)
      /\ Spaced(b, capacity, window) /\ IsTail(s, b, time - window)
  BY Zenon DEF WindowInv
<1>2. ASSUME NEW i \in 1..(Len(b) - Len(s)) PROVE b[i] <= (time + 1) - window
  <2>1. i \in 1..Len(b)
    BY <1>1 DEF IsTail
  <2>2. b[i] \in Nat
    BY <2>1, <1>1, ElementOfSeq, Zenon
  <2>3. b[i] <= time - window
    BY <1>1, Zenon DEF IsTail
  <2> QED
    BY <2>2, <2>3
<1>3. IsTail(s, b, (time + 1) - window)
  BY <1>1, <1>2, Zenon DEF IsTail
<1> QED
  BY <1>1, <1>3, Zenon DEF WindowInv

\* A booking puts the slot on offer in both lists.
LEMMA BookKeepsWindow ==
  ASSUME NEW s, NEW b, NEW time \in Nat, NEW capacity \in Nat \ {0},
         NEW window \in Nat \ {0}, WindowInv(s, b, time, capacity, window)
  PROVE  LET e == NextSlot(s, time, capacity, window)
             p == BisectRight(s, e) + 1
         IN  /\ e \in Nat
             /\ WindowInv(Insort(s, e), InsertAt(b, Len(b) - Len(s) + p, e),
                          time, capacity, window)
<1> DEFINE e == NextSlot(s, time, capacity, window)
           p == BisectRight(s, e) + 1
           q == Len(b) - Len(s) + p
<1>1. /\ s \in Seq(Nat) /\ b \in Seq(Nat) /\ Sorted(b)
      /\ Spaced(b, capacity, window) /\ IsTail(s, b, time - window)
  BY Zenon DEF WindowInv
<1>2. /\ e \in Nat
      /\ p \in 1..(Len(s) + 1)
      /\ FitsAt(b, q, e)
      /\ LateEnough(b, e, capacity, window)
  BY <1>1, BookedSlotFits, Zenon
<1>3. Insort(s, e) = InsertAt(s, p, e)
  BY Zenon DEF Insort
<1> HIDE DEF e, p
<1>4. time - window \in Int
  OBVIOUS
<1>5. /\ q \in 1..(Len(b) + 1)
      /\ IsTail(InsertAt(s, p, e), InsertAt(b, q, e), time - window)
  BY <1>1, <1>2, <1>4, InsertKeepsTail, Zenon
<1> HIDE DEF q
<1>6. InsertAt(s, p, e) \in Seq(Nat)
  BY <1>1, <1>2, InsertAtElements, Zenon DEF Inserted
<1>7. InsertAt(b, q, e) \in Seq(Nat)
  BY <1>1, <1>2, <1>5, InsertAtElements, Zenon DEF Inserted
<1>8. Sorted(InsertAt(b, q, e))
  BY <1>1, <1>2, <1>5, InsertKeepsSorted, Zenon
<1>9. Spaced(InsertAt(b, q, e), capacity, window)
  BY <1>1, <1>2, <1>5, InsertKeepsSpaced, Zenon
<1>10. WindowInv(Insort(s, e), InsertAt(b, q, e), time, capacity, window)
  BY <1>3, <1>5, <1>6, <1>7, <1>8, <1>9, Zenon DEF WindowInv
<1> QED
  BY <1>2, <1>10, Zenon DEF e, p, q

\* A cancellation takes the same slot from both lists.
LEMMA CancelKeepsWindow ==
  ASSUME NEW s, NEW b, NEW time \in Nat, NEW capacity \in Nat \ {0},
         NEW window \in Nat \ {0}, WindowInv(s, b, time, capacity, window),
         NEW slot, Holds(s, slot)
  PROVE  WindowInv(RemoveSlot(s, slot),
                   RemoveAt(b, Len(b) - Len(s) + Place(s, slot)),
                   time, capacity, window)
<1> DEFINE p == Place(s, slot)
           q == Len(b) - Len(s) + p
<1>1. /\ s \in Seq(Nat) /\ b \in Seq(Nat) /\ Sorted(b)
      /\ Spaced(b, capacity, window) /\ IsTail(s, b, time - window)
  BY Zenon DEF WindowInv
<1>2. p \in 1..Len(s)
  BY Zenon DEF Holds, Place
<1>3. RemoveSlot(s, slot) = RemoveAt(s, p)
  BY Zenon DEF RemoveSlot
<1> HIDE DEF p
<1>4. time - window \in Int /\ capacity \in Nat /\ window \in Nat
  OBVIOUS
<1>5. q \in 1..Len(b) /\ IsTail(RemoveAt(s, p), RemoveAt(b, q), time - window)
  BY <1>1, <1>2, <1>4, RemoveKeepsTail, Zenon
<1> HIDE DEF q
<1>6. RemoveAt(s, p) \in Seq(Nat) /\ RemoveAt(b, q) \in Seq(Nat)
  BY <1>1, <1>2, <1>5, RemoveAtPlaces, Zenon
<1>7. Sorted(RemoveAt(b, q)) /\ Spaced(RemoveAt(b, q), capacity, window)
  BY <1>1, <1>4, <1>5, RemoveKeepsSorted, RemoveKeepsSpaced, Zenon
<1>8. WindowInv(RemoveSlot(s, slot), RemoveAt(b, q), time, capacity, window)
  BY <1>3, <1>5, <1>6, <1>7, Zenon DEF WindowInv
<1> QED
  BY <1>8, Zenon DEF p, q

-----------------------------------------------------------------------------
(* The rate limiter.                                                       *)

USE LimiterAssumption

\* The windows' part of the invariant.
WindowsInv ==
  \A w \in Windows :
    WindowInv(slots[w], booked[w], now, Capacity[w], Length[w])

\* The bucket's part: what was taken and what is left is what was there and
\* what had been refilled when the bucket was last touched.
BucketInv ==
  /\ bucket.level + spent <= TokenCapacity + bucket.updated
  /\ bucket.updated <= now

IInv == TypeOK /\ WindowsInv /\ BucketInv

-----------------------------------------------------------------------------

\* Pruned windows keep their part of the invariant.
LEMMA PrunedWindows ==
  ASSUME TypeOK, WindowsInv
  PROVE  /\ DOMAIN PrunedSlots = Windows
         /\ \A w \in Windows :
              /\ PrunedSlots[w] \in Seq(Nat)
              /\ WindowInv(PrunedSlots[w], booked[w], now, Capacity[w], Length[w])
<1>1. SUFFICES ASSUME NEW w \in Windows
               PROVE  /\ PrunedSlots[w] \in Seq(Nat)
                      /\ WindowInv(PrunedSlots[w], booked[w], now,
                                   Capacity[w], Length[w])
  BY Zenon DEF PrunedSlots
<1>2. now \in Nat /\ Capacity[w] \in Nat \ {0} /\ Length[w] \in Nat \ {0}
  BY DEF TypeOK
<1>3. PrunedSlots[w] = Prune(slots[w], now, Length[w])
  BY Zenon DEF PrunedSlots
<1>4. WindowInv(slots[w], booked[w], now, Capacity[w], Length[w])
  BY Zenon DEF WindowsInv
<1>5. WindowInv(PrunedSlots[w], booked[w], now, Capacity[w], Length[w])
  BY <1>2, <1>3, <1>4, PruneKeepsWindow, Zenon
<1> QED
  BY <1>5, Zenon DEF WindowInv

\* The slot a window offers.
LEMMA SlotType ==
  ASSUME TypeOK, WindowsInv, NEW w \in Windows
  PROVE  Slot(w) \in Nat /\ Slot(w) >= now
<1>1. now \in Nat /\ Capacity[w] \in Nat \ {0} /\ Length[w] \in Nat \ {0}
  BY DEF TypeOK
<1>2. PrunedSlots[w] \in Seq(Nat)
  BY PrunedWindows, Zenon
<1> QED
  BY <1>1, <1>2, NextSlotLate, Zenon DEF Slot

\* A refilled bucket: its type, and the balance at the present.
LEMMA RefilledType ==
  ASSUME TypeOK, BucketInv
  PROVE  /\ Refilled(bucket) \in [level : Int, updated : Nat]
         /\ Refilled(bucket).updated = now
         /\ Refilled(bucket).level <= TokenCapacity
         /\ Refilled(bucket).level + spent <= TokenCapacity + now
BY DEF TypeOK, BucketInv, Refilled, Least

\* A charge is never more than the bucket.
LEMMA ChargedType ==
  ASSUME NEW amount \in Nat
  PROVE  Charged(amount) \in Nat /\ Charged(amount) <= TokenCapacity
BY DEF Charged, Least

\* Every wait is a natural number of ticks.
LEMMA WaitType ==
  ASSUME TypeOK, WindowsInv, BucketInv, NEW tokens \in Nat
  PROVE  \A wait \in Waits(tokens) : wait \in Nat
<1>1. BucketWait(Refilled(bucket), tokens) \in Nat
  BY RefilledType, ChargedType DEF BucketWait
<1>2. ASSUME NEW w \in Windows PROVE Slot(w) - now \in Nat
  <2>1. Slot(w) \in Nat /\ Slot(w) >= now
    BY SlotType, Zenon
  <2>2. now \in Nat
    BY DEF TypeOK
  <2> QED
    BY <2>1, <2>2
<1> QED
  BY <1>1, <1>2, Zenon DEF Waits

-----------------------------------------------------------------------------
(* Each operation preserves the invariant.                                 *)

LEMMA InitInv == Init => IInv
<1>1. SUFFICES ASSUME Init PROVE IInv
  OBVIOUS
<1>2. TypeOK
  <2>1. \A w \in Windows : <<>> \in Seq(Nat)
    OBVIOUS
  <2>2. NoCall \in [pc : CallState, tokens : Nat, slot : [Windows -> Nat], due : Nat]
    BY DEF NoCall, CallState
  <2> QED
    BY <1>1, <2>1, <2>2 DEF Init, TypeOK
<1>3. WindowsInv
  <2>1. SUFFICES ASSUME NEW w \in Windows
                 PROVE  WindowInv(<<>>, <<>>, 0, Capacity[w], Length[w])
    BY <1>1, Zenon DEF Init, WindowsInv
  <2>2. Length[w] \in Nat
    OBVIOUS
  <2>3. Sorted(<<>>) /\ Spaced(<<>>, Capacity[w], Length[w])
    BY DEF Sorted, Spaced
  <2>4. IsTail(<<>>, <<>>, 0 - Length[w])
    BY <2>2 DEF IsTail
  <2>5. <<>> \in Seq(Nat)
    OBVIOUS
  <2> QED
    BY <2>3, <2>4, <2>5, Zenon DEF WindowInv
<1>4. BucketInv
  BY <1>1 DEF Init, BucketInv
<1> QED
  BY <1>2, <1>3, <1>4, Zenon DEF IInv

LEMMA RefuseInv ==
  ASSUME IInv, NEW tokens \in Estimates, Refuse(tokens)
  PROVE  IInv'
<1>1. TypeOK /\ WindowsInv /\ BucketInv
  BY Zenon DEF IInv
<1>2. /\ slots' = PrunedSlots /\ bucket' = Refilled(bucket)
      /\ now' = now /\ calls' = calls /\ booked' = booked /\ spent' = spent
  BY Zenon DEF Refuse
<1>3. PrunedSlots \in [Windows -> Seq(Nat)]
  BY <1>1, PrunedWindows, Zenon DEF PrunedSlots
<1>4. TypeOK'
  BY <1>1, <1>2, <1>3, RefilledType, Zenon DEF TypeOK
<1>5. WindowsInv'
  BY <1>1, <1>2, PrunedWindows, Zenon DEF WindowsInv
<1>6. BucketInv'
  <2>1. now \in Nat
    BY <1>1 DEF TypeOK
  <2> QED
    BY <1>1, <1>2, <2>1, RefilledType DEF BucketInv
<1> QED
  BY <1>4, <1>5, <1>6, Zenon DEF IInv

LEMMA ReserveInv ==
  ASSUME IInv, NEW r \in Requests, NEW tokens \in Estimates, Reserve(r, tokens)
  PROVE  IInv'
<1>1. TypeOK /\ WindowsInv /\ BucketInv
  BY Zenon DEF IInv
<1>2. now \in Nat /\ tokens \in Nat /\ spent \in Int
  BY <1>1 DEF TypeOK
<1>3. PICK wait \in Waits(tokens) :
        calls' = [calls EXCEPT ![r] =
                    [pc     |-> "waiting",
                     tokens |-> Charged(tokens),
                     slot   |-> [w \in Windows |-> Slot(w)],
                     due    |-> now + wait]]
  BY Zenon DEF Reserve
<1>4. wait \in Nat
  BY <1>1, <1>2, WaitType, Zenon
<1>5. /\ slots' = [w \in Windows |-> Insort(PrunedSlots[w], Slot(w))]
      /\ booked' = [w \in Windows |->
           InsertAt(booked[w],
                    InBooked(w, PrunedSlots[w],
                             BisectRight(PrunedSlots[w], Slot(w)) + 1),
                    Slot(w))]
      /\ bucket' = Spend(Refilled(bucket), tokens)
      /\ spent' = spent + Charged(tokens)
      /\ now' = now
  BY Zenon DEF Reserve
<1>6. ASSUME NEW w \in Windows
      PROVE  WindowInv(slots'[w], booked'[w], now, Capacity[w], Length[w])
  <2>1. Capacity[w] \in Nat \ {0} /\ Length[w] \in Nat \ {0}
    OBVIOUS
  <2>2. WindowInv(PrunedSlots[w], booked[w], now, Capacity[w], Length[w])
    BY <1>1, PrunedWindows, Zenon
  <2>3. WindowInv(Insort(PrunedSlots[w], Slot(w)),
                  InsertAt(booked[w],
                           InBooked(w, PrunedSlots[w],
                                    BisectRight(PrunedSlots[w], Slot(w)) + 1),
                           Slot(w)),
                  now, Capacity[w], Length[w])
    BY <1>2, <2>1, <2>2, BookKeepsWindow, Zenon DEF Slot, InBooked
  <2> QED
    BY <1>5, <2>3, Zenon
<1>7. /\ slots' \in [Windows -> Seq(Nat)]
      /\ booked' \in [Windows -> Seq(Nat)]
  <2>1. \A w \in Windows : slots'[w] \in Seq(Nat) /\ booked'[w] \in Seq(Nat)
    BY <1>6, Zenon DEF WindowInv
  <2> QED
    BY <1>5, <2>1, Zenon
<1>8. WindowsInv'
  BY <1>5, <1>6, Zenon DEF WindowsInv
<1>9. /\ bucket' \in [level : Int, updated : Nat]
      /\ bucket'.updated = now
      /\ bucket'.level = Refilled(bucket).level - Charged(tokens)
  BY <1>1, <1>2, <1>5, RefilledType, ChargedType DEF Spend
<1>10. calls' \in [Requests -> [pc : CallState, tokens : Nat,
                                slot : [Windows -> Nat], due : Nat]]
  <2>1. [w \in Windows |-> Slot(w)] \in [Windows -> Nat]
    BY <1>1, SlotType, Zenon
  <2>2. Charged(tokens) \in Nat /\ now + wait \in Nat
    BY <1>2, <1>4, ChargedType
  <2> QED
    BY <1>1, <1>3, <2>1, <2>2 DEF TypeOK, CallState
<1>11. spent' \in Int
  BY <1>2, <1>5, ChargedType
<1>12. TypeOK'
  BY <1>1, <1>5, <1>7, <1>9, <1>10, <1>11, Zenon DEF TypeOK
<1>13. BucketInv'
  BY <1>1, <1>2, <1>5, <1>9, RefilledType, ChargedType DEF BucketInv
<1> QED
  BY <1>8, <1>12, <1>13, Zenon DEF IInv

LEMMA SendInv ==
  ASSUME IInv, NEW r \in Requests, Send(r)
  PROVE  IInv'
<1>1. TypeOK'
  BY ZenonT(60) DEF IInv, TypeOK, CallState, Send
<1>2. WindowsInv' /\ BucketInv'
  BY Zenon DEF IInv, WindowsInv, BucketInv, Send
<1> QED
  BY <1>1, <1>2, Zenon DEF IInv

\* A request that is over holds nothing.
LEMMA GoneType ==
  Gone \in [pc : CallState, tokens : Nat, slot : [Windows -> Nat], due : Nat]
BY DEF Gone, NoCall, CallState

LEMMA CancelInv ==
  ASSUME IInv, NEW r \in Requests, Cancel(r)
  PROVE  IInv'
<1>1. TypeOK /\ WindowsInv /\ BucketInv
  BY Zenon DEF IInv
<1>2. /\ slots' = [w \in Windows |-> RemoveSlot(slots[w], calls[r].slot[w])]
      /\ booked' = [w \in Windows |->
                      IF Holds(slots[w], calls[r].slot[w])
                      THEN RemoveAt(booked[w],
                                    InBooked(w, slots[w],
                                             Place(slots[w], calls[r].slot[w])))
                      ELSE booked[w]]
      /\ bucket' = Refund(Refilled(bucket), calls[r].tokens)
      /\ spent' = spent - calls[r].tokens
      /\ calls' = [calls EXCEPT ![r] = Gone]
      /\ now' = now
  BY Zenon DEF Cancel
<1>3. now \in Nat /\ calls[r].tokens \in Nat /\ spent \in Int
  BY <1>1 DEF TypeOK
<1>4. ASSUME NEW w \in Windows
      PROVE  WindowInv(slots'[w], booked'[w], now, Capacity[w], Length[w])
  <2>1. Capacity[w] \in Nat \ {0} /\ Length[w] \in Nat \ {0}
    OBVIOUS
  <2>2. WindowInv(slots[w], booked[w], now, Capacity[w], Length[w])
    BY <1>1, Zenon DEF WindowsInv
  <2>3. CASE Holds(slots[w], calls[r].slot[w])
    <3>1. WindowInv(RemoveSlot(slots[w], calls[r].slot[w]),
                    RemoveAt(booked[w],
                             InBooked(w, slots[w],
                                      Place(slots[w], calls[r].slot[w]))),
                    now, Capacity[w], Length[w])
      BY <1>3, <2>1, <2>2, <2>3, CancelKeepsWindow, Zenon DEF InBooked
    <3> QED
      BY <1>2, <2>3, <3>1, Zenon
  <2>4. CASE ~ Holds(slots[w], calls[r].slot[w])
    BY <1>2, <2>2, <2>4, Zenon DEF RemoveSlot
  <2> QED
    BY <2>3, <2>4, Zenon
<1>5. /\ slots' \in [Windows -> Seq(Nat)]
      /\ booked' \in [Windows -> Seq(Nat)]
  <2>1. \A w \in Windows : slots'[w] \in Seq(Nat) /\ booked'[w] \in Seq(Nat)
    BY <1>4, Zenon DEF WindowInv
  <2> QED
    BY <1>2, <2>1, Zenon
<1>6. WindowsInv'
  BY <1>2, <1>4, Zenon DEF WindowsInv
<1>7. /\ bucket' \in [level : Int, updated : Nat]
      /\ bucket'.updated = now
      /\ bucket'.level <= Refilled(bucket).level + calls[r].tokens
  BY <1>1, <1>2, <1>3, RefilledType DEF Refund, Least
<1>8. calls' \in [Requests -> [pc : CallState, tokens : Nat,
                               slot : [Windows -> Nat], due : Nat]]
  BY <1>1, <1>2, GoneType, Zenon DEF TypeOK
<1>9. TypeOK'
  <2>1. spent' \in Int
    BY <1>2, <1>3
  <2> QED
    BY <1>1, <1>2, <1>5, <1>7, <1>8, <2>1, Zenon DEF TypeOK
<1>10. BucketInv'
  BY <1>1, <1>2, <1>3, <1>7, RefilledType DEF BucketInv
<1> QED
  BY <1>6, <1>9, <1>10, Zenon DEF IInv

LEMMA SettleInv ==
  ASSUME IInv, NEW r \in Requests, NEW used \in Usages, Settle(r, used)
  PROVE  IInv'
<1> DEFINE unused == calls[r].tokens - used
<1>1. TypeOK /\ WindowsInv /\ BucketInv
  BY Zenon DEF IInv
<1>2. /\ bucket' = IF unused > 0 THEN Refund(Refilled(bucket), unused)
                   ELSE IF unused < 0 THEN Spend(Refilled(bucket), -unused)
                   ELSE bucket
      /\ spent' = IF unused >= 0 THEN spent - unused
                  ELSE spent + Charged(-unused)
      /\ calls' = [calls EXCEPT ![r] = Gone]
      /\ now' = now /\ slots' = slots /\ booked' = booked
  BY DEF Settle
<1>3. now \in Nat /\ unused \in Int /\ spent \in Int
  BY <1>1 DEF TypeOK
<1> HIDE DEF unused
<1>4. /\ bucket' \in [level : Int, updated : Nat]
      /\ spent' \in Int
      /\ BucketInv'
  <2>1. CASE unused > 0
    <3>1. /\ bucket' = Refund(Refilled(bucket), unused)
          /\ spent' = spent - unused
      BY <1>2, <1>3, <2>1
    <3> QED
      BY <1>1, <1>2, <1>3, <2>1, <3>1, RefilledType DEF Refund, Least, BucketInv
  <2>2. CASE unused < 0
    <3>1. /\ bucket' = Spend(Refilled(bucket), -unused)
          /\ spent' = spent + Charged(-unused)
      BY <1>2, <1>3, <2>2
    <3>2. -unused \in Nat
      BY <1>3, <2>2
    <3> QED
      BY <1>1, <1>2, <1>3, <3>1, <3>2, RefilledType, ChargedType
      DEF Spend, BucketInv
  <2>3. CASE unused = 0
    <3>1. bucket' = bucket /\ spent' = spent
      BY <1>2, <1>3, <2>3
    <3> QED
      BY <1>1, <1>2, <3>1, Zenon DEF BucketInv, TypeOK
  <2> QED
    BY <1>3, <2>1, <2>2, <2>3
<1>5. calls' \in [Requests -> [pc : CallState, tokens : Nat,
                               slot : [Windows -> Nat], due : Nat]]
  BY <1>1, <1>2, GoneType, Zenon DEF TypeOK
<1>6. TypeOK'
  BY <1>1, <1>2, <1>4, <1>5, Zenon DEF TypeOK
<1>7. WindowsInv'
  BY <1>1, <1>2, Zenon DEF WindowsInv
<1> QED
  BY <1>4, <1>6, <1>7, Zenon DEF IInv

LEMMA AbandonInv ==
  ASSUME IInv, NEW r \in Requests, Abandon(r)
  PROVE  IInv'
<1>1. TypeOK'
  BY GoneType, Zenon DEF IInv, TypeOK, Abandon
<1>2. WindowsInv' /\ BucketInv'
  BY Zenon DEF IInv, WindowsInv, BucketInv, Abandon
<1> QED
  BY <1>1, <1>2, Zenon DEF IInv

LEMMA TickInv ==
  ASSUME IInv, Tick
  PROVE  IInv'
<1>1. TypeOK /\ WindowsInv /\ BucketInv /\ now \in Nat
  BY DEF IInv, TypeOK
<1>2. /\ now' = now + 1 /\ now < MaxTime
      /\ UNCHANGED <<slots, bucket, calls, booked, spent>>
  BY Zenon DEF Tick
<1>3. TypeOK'
  <2>1. now' \in 0..MaxTime
    BY <1>1, <1>2
  <2> QED
    BY <1>1, <1>2, <2>1, Zenon DEF TypeOK
<1>4. WindowsInv'
  <2>1. SUFFICES ASSUME NEW w \in Windows
                 PROVE  WindowInv(slots[w], booked[w], now + 1,
                                  Capacity[w], Length[w])
    BY <1>2, Zenon DEF WindowsInv
  <2>2. Capacity[w] \in Nat \ {0} /\ Length[w] \in Nat \ {0}
    OBVIOUS
  <2> QED
    BY <1>1, <2>2, TickKeepsWindow, Zenon DEF WindowsInv
<1>5. BucketInv'
  BY <1>1, <1>2 DEF BucketInv, TypeOK
<1> QED
  BY <1>3, <1>4, <1>5, Zenon DEF IInv

LEMMA NextInv == IInv /\ [Next]_vars => IInv'
<1> SUFFICES ASSUME IInv, [Next]_vars PROVE IInv'
  OBVIOUS
<1>1. CASE Tick
  BY <1>1, TickInv, Zenon
<1>2. ASSUME NEW tokens \in Estimates, Refuse(tokens) PROVE IInv'
  BY <1>2, RefuseInv, Zenon
<1>3. ASSUME NEW r \in Requests, NEW tokens \in Estimates, Reserve(r, tokens)
      PROVE  IInv'
  BY <1>3, ReserveInv, Zenon
<1>4. ASSUME NEW r \in Requests, Send(r) PROVE IInv'
  BY <1>4, SendInv, Zenon
<1>5. ASSUME NEW r \in Requests, Cancel(r) PROVE IInv'
  BY <1>5, CancelInv, Zenon
<1>6. ASSUME NEW r \in Requests, NEW used \in Usages, Settle(r, used)
      PROVE  IInv'
  BY <1>6, SettleInv, Zenon
<1>7. ASSUME NEW r \in Requests, Abandon(r) PROVE IInv'
  BY <1>7, AbandonInv, Zenon
<1>8. CASE UNCHANGED vars
  BY <1>8, Zenon DEF vars, IInv, TypeOK, WindowsInv, BucketInv
<1> QED
  BY <1>1, <1>2, <1>3, <1>4, <1>5, <1>6, <1>7, <1>8, Zenon DEF Next

-----------------------------------------------------------------------------
(* What follows for every behaviour.                                       *)

LEMMA Invariance == Spec => []IInv
  BY InitInv, NextInv, PTL DEF Spec

\* The state always has its type: in particular no booking, cancellation or
\* correction computes a slot or a charge that is not a clock time or a count.
THEOREM TypeCorrect == Spec => []TypeOK
<1>1. IInv => TypeOK
  BY Zenon DEF IInv
<1> QED
  BY <1>1, Invariance, PTL

\* SlidingWindow's promise: whatever is booked, cancelled, queried or left
\* alone, no window of its length holds more bookings than its capacity.
THEOREM WindowsNeverOverbooked == Spec => []NeverOverbooked
<1>1. IInv => NeverOverbooked
  BY Zenon DEF IInv, WindowsInv, WindowInv, NeverOverbooked
<1> QED
  BY <1>1, Invariance, PTL

\* TokenBucket's promise: refills, refunds and corrections mint no tokens.
THEOREM BucketMintsNothing == Spec => []NoTokensMinted
<1>1. IInv => NoTokensMinted
  BY RefilledType, Zenon DEF IInv, NoTokensMinted
<1> QED
  BY <1>1, Invariance, PTL

\* By the time a request may be sent the bucket has paid for it.
THEOREM ReservationsArePaidWhenDue == Spec => PaidWhenDue
<1>1. ASSUME IInv, [Next]_vars
      PROVE  [\A r \in Requests :
                calls[r].pc = "idle" /\ calls'[r].pc = "waiting"
                  => spent' <= TokenCapacity + calls'[r].due]_vars
  <2>1. SUFFICES ASSUME Next, NEW r \in Requests,
                        calls[r].pc = "idle", calls'[r].pc = "waiting"
                 PROVE  spent' <= TokenCapacity + calls'[r].due
    BY <1>1, Zenon
  <2>2. calls \in [Requests -> [pc : CallState, tokens : Nat,
                                slot : [Windows -> Nat], due : Nat]]
    BY <1>1, Zenon DEF IInv, TypeOK
  <2>3. PICK tokens \in Estimates : Reserve(r, tokens)
    <3>1. ASSUME NEW q \in Requests, NEW tokens \in Estimates, Reserve(q, tokens)
          PROVE  q = r
      BY <3>1, <2>1, <2>2, Zenon DEF Reserve
    <3>2. ASSUME NEW q \in Requests,
                 \/ Send(q) \/ Cancel(q) \/ Abandon(q)
                 \/ \E used \in Usages : Settle(q, used)
          PROVE  FALSE
      <4>1. calls[q].pc \in {"waiting", "sent"}
        BY <3>2 DEF Send, Cancel, Abandon, Settle
      <4>2. q # r
        BY <4>1, <2>1
      <4>3. calls'[r] = calls[r]
        BY <3>2, <4>2, <2>2 DEF Send, Cancel, Abandon, Settle
      <4> QED
        BY <4>3, <2>1
    <3>3. ASSUME calls' = calls PROVE FALSE
      BY <3>3, <2>1
    <3>4. Tick => calls' = calls
      BY Zenon DEF Tick
    <3>5. \A tokens \in Estimates : Refuse(tokens) => calls' = calls
      BY Zenon DEF Refuse
    <3> QED
      BY <2>1, <3>1, <3>2, <3>3, <3>4, <3>5, Zenon DEF Next
  <2>4. PICK wait \in Waits(tokens) :
          /\ IsWaitTime(tokens, wait)
          /\ calls' = [calls EXCEPT ![r] =
                         [pc     |-> "waiting",
                          tokens |-> Charged(tokens),
                          slot   |-> [w \in Windows |-> Slot(w)],
                          due    |-> now + wait]]
    BY <2>3, Zenon DEF Reserve
  <2>5. calls'[r].due = now + wait /\ spent' = spent + Charged(tokens)
    BY <2>2, <2>3, <2>4 DEF Reserve
  <2>6. BucketWait(Refilled(bucket), tokens) <= wait
    BY <2>4, Zenon DEF IsWaitTime, Waits
  <2>7. tokens \in Nat /\ now \in Nat /\ spent \in Int
    BY <1>1 DEF IInv, TypeOK
  <2>8. wait \in Nat
    BY <1>1, <2>7, WaitType, Zenon DEF IInv
  <2>9. /\ Refilled(bucket).level \in Int
        /\ Refilled(bucket).level + spent <= TokenCapacity + now
    BY <1>1, RefilledType DEF IInv
  <2>10. Charged(tokens) <= Refilled(bucket).level + wait
    BY <2>6, <2>7, <2>8, <2>9, ChargedType DEF BucketWait
  <2> QED
    BY <2>5, <2>7, <2>8, <2>9, <2>10, ChargedType
<1> QED
  BY <1>1, Invariance, PTL DEF Spec, PaidWhenDue

=============================================================================

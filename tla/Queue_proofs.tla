---------------------------- MODULE Queue_proofs ----------------------------
(***************************************************************************)
(* Facts about sequences used as queues and logs: what is in them and in   *)
(* which order, after an append, the removal of the first or of another    *)
(* element; and which place is the first.                                  *)
(***************************************************************************)
EXTENDS Integers, SequencesExt, SequenceTheorems, WellFoundedInduction, TLAPS

\* A nonempty set of places, or of other naturals, has a least element: what makes
\* bisect's answer and the next candidate of a request exist.
LEMMA LeastNatural ==
  ASSUME NEW T \in SUBSET Nat, T # {}
  PROVE  \E x \in T : \A y \in T : x <= y
<1> DEFINE R == {ss \in Nat \X Nat : ss[1] < ss[2]}
<1>1. IsWellFoundedOn(R, Nat)
  BY NatLessThanWellFounded, Zenon DEF OpToRel
<1>2. \E x \in T : \A y \in T : ~ (<<y, x>> \in R)
  BY <1>1, WFMin, Zenon
<1>3. \A x, y \in Nat : <<y, x>> \in R <=> y < x
  OBVIOUS
<1> HIDE DEF R
<1>4. PICK x \in T : \A y \in T : ~ (<<y, x>> \in R)
  BY <1>2, Zenon
<1>5. ASSUME NEW y \in T PROVE x <= y
  <2>1. ~ (<<y, x>> \in R) /\ x \in Nat /\ y \in Nat
    BY <1>4, Zenon
  <2>2. ~ (y < x)
    BY <1>3, <2>1, Zenon
  <2> QED
    BY <2>1, <2>2
<1> QED
  BY <1>5, Zenon

\* Membership by place.
LEMMA InSequence ==
  ASSUME NEW S, NEW s \in Seq(S), NEW x
  PROVE  x \in ToSet(s) <=> \E i \in 1..Len(s) : s[i] = x
<1>1. DOMAIN s = 1..Len(s)
  OBVIOUS
<1> QED
  BY <1>1, Zenon DEF ToSet

LEMMA ToSetType ==
  ASSUME NEW S, NEW s \in Seq(S)
  PROVE  ToSet(s) \subseteq S
<1>1. \A i \in 1..Len(s) : s[i] \in S
  OBVIOUS
<1> QED
  BY <1>1, InSequence, Zenon

\* Distinctness by place.
LEMMA DistinctSequence ==
  ASSUME NEW S, NEW s \in Seq(S)
  PROVE  IsInjective(s) <=> \A i, j \in 1..Len(s) : s[i] = s[j] => i = j
<1>1. DOMAIN s = 1..Len(s)
  OBVIOUS
<1> QED
  BY <1>1, Zenon DEF IsInjective

\* A newcomer is in line behind everybody else.
LEMMA AppendElements ==
  ASSUME NEW S, NEW s \in Seq(S), NEW x \in S
  PROVE  /\ Append(s, x) \in Seq(S)
         /\ Len(Append(s, x)) = Len(s) + 1
         /\ \A i \in 1..Len(s) : Append(s, x)[i] = s[i]
         /\ Append(s, x)[Len(s) + 1] = x
         /\ ToSet(Append(s, x)) = ToSet(s) \cup {x}
<1> DEFINE a == Append(s, x)
<1>1. /\ a \in Seq(S) /\ Len(a) = Len(s) + 1
      /\ \A i \in 1..Len(s) : a[i] = s[i]
      /\ a[Len(s) + 1] = x
  OBVIOUS
<1> HIDE DEF a
<1>2. ASSUME NEW y PROVE y \in ToSet(a) <=> y \in ToSet(s) \/ y = x
  <2>1. y \in ToSet(a) <=> \E i \in 1..Len(a) : a[i] = y
    BY <1>1, InSequence, Zenon
  <2>2. y \in ToSet(s) <=> \E i \in 1..Len(s) : s[i] = y
    BY InSequence, Zenon
  <2> QED
    BY <1>1, <2>1, <2>2
<1>3. ToSet(a) = ToSet(s) \cup {x}
  BY <1>2, Zenon
<1> QED
  BY <1>1, <1>3, Zenon DEF a

LEMMA AppendDistinct ==
  ASSUME NEW S, NEW s \in Seq(S), NEW x \in S, IsInjective(s), x \notin ToSet(s)
  PROVE  IsInjective(Append(s, x))
<1> DEFINE a == Append(s, x)
<1>1. /\ a \in Seq(S) /\ Len(a) = Len(s) + 1
      /\ \A i \in 1..Len(s) : a[i] = s[i]
      /\ a[Len(s) + 1] = x
  BY AppendElements
<1>2. \A i \in 1..Len(s) : s[i] # x
  BY InSequence, Zenon
<1>3. \A i, j \in 1..Len(s) : s[i] = s[j] => i = j
  BY DistinctSequence, Zenon
<1> HIDE DEF a
<1>4. \A i, j \in 1..Len(a) : a[i] = a[j] => i = j
  BY <1>1, <1>2, <1>3
<1> QED
  BY <1>1, <1>4, DistinctSequence, Zenon DEF a

LEMMA AppendHead ==
  ASSUME NEW S, NEW s \in Seq(S), NEW x \in S, s # <<>>
  PROVE  Append(s, x) # <<>> /\ Head(Append(s, x)) = Head(s)
OBVIOUS

\* The first in line is served.
LEMMA TailElements ==
  ASSUME NEW S, NEW s \in Seq(S), s # <<>>, IsInjective(s)
  PROVE  /\ Tail(s) \in Seq(S)
         /\ IsInjective(Tail(s))
         /\ Head(s) \in ToSet(s)
         /\ ToSet(Tail(s)) = ToSet(s) \ {Head(s)}
<1> DEFINE t == Tail(s)
<1>1. /\ t \in Seq(S) /\ Len(t) = Len(s) - 1 /\ Len(s) \in Nat \ {0}
      /\ \A i \in 1..(Len(s) - 1) : t[i] = s[i + 1]
      /\ Head(s) = s[1]
  OBVIOUS
<1>2. \A i, j \in 1..Len(s) : s[i] = s[j] => i = j
  BY DistinctSequence, Zenon
<1> HIDE DEF t
<1>3. \A i, j \in 1..Len(t) : t[i] = t[j] => i = j
  BY <1>1, <1>2
<1>4. IsInjective(t)
  BY <1>1, <1>3, DistinctSequence, Zenon
<1>5. ASSUME NEW y PROVE y \in ToSet(t) <=> y \in ToSet(s) /\ y # s[1]
  <2>1. y \in ToSet(t) <=> \E i \in 1..Len(t) : t[i] = y
    BY <1>1, InSequence, Zenon
  <2>2. y \in ToSet(s) <=> \E i \in 1..Len(s) : s[i] = y
    BY InSequence, Zenon
  <2>3. ASSUME NEW i \in 1..Len(t), t[i] = y PROVE i + 1 \in 1..Len(s) /\ s[i + 1] = y /\ y # s[1]
    BY <1>1, <1>2, <2>3
  <2>4. ASSUME NEW i \in 1..Len(s), s[i] = y, y # s[1] PROVE i - 1 \in 1..Len(t) /\ t[i - 1] = y
    BY <1>1, <2>4
  <2> QED
    BY <2>1, <2>2, <2>3, <2>4, Zenon
<1>6. Head(s) \in ToSet(s)
  <2>1. 1 \in 1..Len(s) /\ s[1] = Head(s)
    BY <1>1
  <2> QED
    BY <2>1, InSequence, Zenon
<1>7. ToSet(t) = ToSet(s) \ {Head(s)}
  BY <1>1, <1>5, Zenon
<1> QED
  BY <1>1, <1>4, <1>6, <1>7, Zenon DEF t

\* Somebody leaves the line.
LEMMA RemoveAtPlaces ==
  ASSUME NEW S, NEW s \in Seq(S), NEW p \in 1..Len(s)
  PROVE  /\ RemoveAt(s, p) \in Seq(S)
         /\ Len(RemoveAt(s, p)) = Len(s) - 1
         /\ \A i \in 1..(Len(s) - 1) :
              RemoveAt(s, p)[i] = IF i < p THEN s[i] ELSE s[i + 1]
<1> DEFINE left == SubSeq(s, 1, p - 1)
           right == SubSeq(s, p + 1, Len(s))
<1>1. /\ left \in Seq(S) /\ Len(left) = p - 1
      /\ \A i \in 1..(p - 1) : left[i] = s[i]
  BY SMTT(30)
<1>2. /\ right \in Seq(S) /\ Len(right) = Len(s) - p
      /\ \A i \in 1..(Len(s) - p) : right[i] = s[i + p]
  BY SMTT(30)
<1>3. RemoveAt(s, p) = left \o right
  BY DEF RemoveAt
<1> HIDE DEF left, right
<1>4. /\ left \o right \in Seq(S)
      /\ Len(left \o right) = Len(left) + Len(right)
      /\ \A i \in 1..(Len(left) + Len(right)) :
           (left \o right)[i] = IF i <= Len(left) THEN left[i] ELSE right[i - Len(left)]
  BY <1>1, <1>2, ConcatProperties, Zenon
<1>5. Len(left) + Len(right) = Len(s) - 1
  BY <1>1, <1>2
<1>6. ASSUME NEW i \in 1..(Len(s) - 1)
      PROVE  (left \o right)[i] = IF i < p THEN s[i] ELSE s[i + 1]
  <2>1. (left \o right)[i] = IF i <= p - 1 THEN left[i] ELSE right[i - (p - 1)]
    BY <1>1, <1>4, <1>5, Zenon
  <2>2. CASE i < p
    BY <1>1, <2>1, <2>2
  <2>3. CASE ~ (i < p)
    <3>1. i - (p - 1) \in 1..(Len(s) - p) /\ i - (p - 1) + p = i + 1 /\ ~ (i <= p - 1)
      BY <2>3
    <3>2. (left \o right)[i] = right[i - (p - 1)]
      BY <2>1, <3>1, Zenon
    <3>3. right[i - (p - 1)] = s[i - (p - 1) + p]
      BY <1>2, <3>1, Zenon
    <3> QED
      BY <2>3, <3>1, <3>2, <3>3, Zenon
  <2> QED
    BY <2>2, <2>3, Zenon
<1> QED
  BY <1>3, <1>4, <1>5, <1>6, Zenon

LEMMA RemoveAtElements ==
  ASSUME NEW S, NEW s \in Seq(S), NEW p \in 1..Len(s), IsInjective(s)
  PROVE  /\ RemoveAt(s, p) \in Seq(S)
         /\ IsInjective(RemoveAt(s, p))
         /\ ToSet(RemoveAt(s, p)) = ToSet(s) \ {s[p]}
         /\ p # 1 => RemoveAt(s, p) # <<>> /\ Head(RemoveAt(s, p)) = Head(s)
<1> DEFINE r == RemoveAt(s, p)
<1>1. /\ r \in Seq(S) /\ Len(r) = Len(s) - 1 /\ Len(s) \in Nat
      /\ \A i \in 1..(Len(s) - 1) : r[i] = IF i < p THEN s[i] ELSE s[i + 1]
  BY RemoveAtPlaces
<1>2. \A i, j \in 1..Len(s) : s[i] = s[j] => i = j
  BY DistinctSequence, Zenon
<1> HIDE DEF r
<1>3. \A i, j \in 1..Len(r) : r[i] = r[j] => i = j
  BY <1>1, <1>2
<1>4. IsInjective(r)
  BY <1>1, <1>3, DistinctSequence, Zenon
<1>5. ASSUME NEW y PROVE y \in ToSet(r) <=> y \in ToSet(s) /\ y # s[p]
  <2>1. y \in ToSet(r) <=> \E i \in 1..Len(r) : r[i] = y
    BY <1>1, InSequence, Zenon
  <2>2. y \in ToSet(s) <=> \E i \in 1..Len(s) : s[i] = y
    BY InSequence, Zenon
  <2>3. ASSUME NEW i \in 1..Len(r), r[i] = y
        PROVE  (\E j \in 1..Len(s) : s[j] = y) /\ y # s[p]
    <3>1. CASE i < p
      BY <1>1, <1>2, <2>3, <3>1
    <3>2. CASE ~ (i < p)
      <4>1. i + 1 \in 1..Len(s) /\ s[i + 1] = y /\ i + 1 # p
        BY <1>1, <2>3, <3>2
      <4> QED
        BY <1>2, <4>1, Zenon
    <3> QED
      BY <3>1, <3>2, Zenon
  <2>4. ASSUME NEW i \in 1..Len(s), s[i] = y, y # s[p] PROVE \E j \in 1..Len(r) : r[j] = y
    <3>1. CASE i < p
      BY <1>1, <2>4, <3>1
    <3>2. CASE ~ (i < p)
      <4>1. i - 1 \in 1..Len(r) /\ r[i - 1] = y
        BY <1>1, <2>4, <3>2
      <4> QED
        BY <4>1, Zenon
    <3> QED
      BY <3>1, <3>2, Zenon
  <2> QED
    BY <2>1, <2>2, <2>3, <2>4, Zenon
<1>6. ToSet(r) = ToSet(s) \ {s[p]}
  BY <1>5, Zenon
<1>7. ASSUME p # 1 PROVE r # <<>> /\ Head(r) = Head(s)
  <2>1. Len(s) \in Nat /\ Len(s) > 1 /\ 1 \in 1..(Len(s) - 1) /\ 1 < p
    BY <1>7
  <2>2. r[1] = s[1] /\ Len(r) > 0
    BY <1>1, <2>1
  <2> QED
    BY <1>1, <2>1, <2>2
<1> QED
  BY <1>1, <1>4, <1>6, <1>7, Zenon DEF r

\* A prefix, place by place.
LEMMA PrefixPlaces ==
  ASSUME NEW S, NEW s \in Seq(S), NEW t \in Seq(S)
  PROVE  IsPrefix(s, t) <=> Len(s) <= Len(t) /\ \A i \in 1..Len(s) : s[i] = t[i]
<1>1. SubSeq(s, 1, Len(s)) = s
  OBVIOUS
<1>2. ASSUME Len(s) <= Len(t)
      PROVE  /\ SubSeq(t, 1, Len(s)) \in Seq(S)
             /\ Len(SubSeq(t, 1, Len(s))) = Len(s)
             /\ \A i \in 1..Len(s) : SubSeq(t, 1, Len(s))[i] = t[i]
  BY <1>2, SMTT(30)
<1>3. ASSUME Len(s) <= Len(t), \A i \in 1..Len(s) : s[i] = t[i]
      PROVE  s = SubSeq(t, 1, Len(s))
  <2> DEFINE u == SubSeq(t, 1, Len(s))
  <2>1. u \in Seq(S) /\ Len(u) = Len(s) /\ \A i \in 1..Len(s) : u[i] = s[i]
    BY <1>2, <1>3
  <2> HIDE DEF u
  <2>2. s = u
    BY <2>1, SeqEqual, Zenon
  <2> QED
    BY <2>2, Zenon DEF u
<1> QED
  BY <1>1, <1>2, <1>3, Zenon DEF IsPrefix
=============================================================================

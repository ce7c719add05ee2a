-------------------------- MODULE ScanStages_proofs --------------------------
(***************************************************************************)
(* What the stages of a scan compute (ScanRun and the modules it extends), *)
(* for every input.  They compute lists with folds, sorts and filters: the *)
(* first parts say what these operators return, the later ones what each   *)
(* stage makes of its input.                                               *)
(***************************************************************************)
EXTENDS ScanRun, Queue_proofs, FiniteSetTheorems

-----------------------------------------------------------------------------
(* Lists.                                                                  *)

\* A list has a length, its places are 1..Len, and its elements are its range.
LEMMA ListElements ==
  ASSUME NEW s, IsList(s)
  PROVE  /\ Len(s) \in Nat
         /\ DOMAIN s = 1..Len(s)
         /\ s = [i \in 1..Len(s) |-> s[i]]
         /\ \A i \in 1..Len(s) : s[i] \in Range(s)
         /\ \A x : x \in Range(s) <=> \E i \in 1..Len(s) : s[i] = x
<1>1. s \in Seq(Range(s))
  BY DEF IsList
<1>2. /\ Len(s) \in Nat
      /\ DOMAIN s = 1..Len(s)
  BY <1>1
<1>3. s = [i \in 1..Len(s) |-> s[i]]
  BY <1>1, <1>2
<1>4. \A x : x \in Range(s) <=> \E i \in 1..Len(s) : s[i] = x
  BY <1>2, Zenon DEF Range
<1> QED
  BY <1>2, <1>3, <1>4, Zenon

\* An element of a list has a place, and what has a place is an element.
LEMMA InRange ==
  ASSUME NEW s, IsList(s)
  PROVE  /\ \A x \in Range(s) : \E i \in 1..Len(s) : s[i] = x
         /\ \A i \in 1..Len(s) : s[i] \in Range(s)
BY ListElements, Zenon

\* A function on 1..n is a list of length n.
LEMMA ListByShape ==
  ASSUME NEW n \in Nat, NEW s, s = [i \in 1..n |-> s[i]]
  PROVE  IsList(s) /\ Len(s) = n /\ DOMAIN s = 1..n
<1>1. DOMAIN s = 1..n
  <2>1. DOMAIN [i \in 1..n |-> s[i]] = 1..n
    OBVIOUS
  <2> QED
    BY <2>1, Zenon
<1>2. \A i \in 1..n : s[i] \in Range(s)
  BY <1>1, Zenon DEF Range
<1>3. s \in [1..n -> Range(s)]
  <2>1. [i \in 1..n |-> s[i]] \in [1..n -> Range(s)]
    BY <1>2, Zenon
  <2> QED
    BY <2>1, Zenon
<1>4. s \in Seq(Range(s)) /\ Len(s) = n
  BY <1>3
<1> QED
  BY <1>1, <1>4, Zenon DEF IsList

\* A sequence of a set is a list.
LEMMA SeqIsList ==
  ASSUME NEW S, NEW s \in Seq(S)
  PROVE  IsList(s)
<1>1. Len(s) \in Nat /\ s = [i \in 1..Len(s) |-> s[i]]
  OBVIOUS
<1> QED
  BY <1>1, ListByShape, Zenon

\* The empty list.
LEMMA EmptyIsList == IsList(<<>>) /\ Len(<<>>) = 0 /\ Range(<<>>) = {}
<1>1. <<>> \in Seq({}) /\ Len(<<>>) = 0 /\ DOMAIN <<>> = {}
  OBVIOUS
<1>2. IsList(<<>>)
  BY <1>1, SeqIsList, Zenon
<1> QED
  BY <1>1, <1>2, Zenon DEF Range

\* A list with one more element at its end.
LEMMA AppendList ==
  ASSUME NEW s, IsList(s), NEW x
  PROVE  /\ IsList(Append(s, x))
         /\ Len(Append(s, x)) = Len(s) + 1
         /\ \A i \in 1..Len(s) : Append(s, x)[i] = s[i]
         /\ Append(s, x)[Len(s) + 1] = x
         /\ Range(Append(s, x)) = Range(s) \cup {x}
<1> DEFINE S == Range(s) \cup {x}
           a == Append(s, x)
<1>1. s \in Seq(Range(s))
  BY DEF IsList
<1>2. s \in Seq(S) /\ x \in S
  BY <1>1, SMTT(30)
<1> HIDE DEF S
<1>3. /\ a \in Seq(S)
      /\ Len(a) = Len(s) + 1
      /\ \A i \in 1..Len(s) : a[i] = s[i]
      /\ a[Len(s) + 1] = x
  BY <1>2
<1> HIDE DEF a
<1>4. IsList(a)
  BY <1>3, SeqIsList, Zenon
<1>5. ASSUME NEW y PROVE y \in Range(a) <=> y \in Range(s) \cup {x}
  <2>1. y \in Range(a) <=> \E i \in 1..Len(a) : a[i] = y
    BY <1>4, ListElements, Zenon
  <2>2. y \in Range(s) <=> \E i \in 1..Len(s) : s[i] = y
    BY ListElements, Zenon
  <2>3. Len(s) \in Nat
    BY ListElements, Zenon
  <2> QED
    BY <1>3, <2>1, <2>2, <2>3
<1> QED
  BY <1>3, <1>4, <1>5 DEF a

\* Two lists, one after the other.
LEMMA ConcatList ==
  ASSUME NEW s, IsList(s), NEW t, IsList(t)
  PROVE  /\ IsList(s \o t)
         /\ Len(s \o t) = Len(s) + Len(t)
         /\ \A i \in 1..Len(s) : (s \o t)[i] = s[i]
         /\ \A i \in 1..Len(t) : (s \o t)[Len(s) + i] = t[i]
         /\ Range(s \o t) = Range(s) \cup Range(t)
<1> DEFINE S == Range(s) \cup Range(t)
           a == s \o t
<1>1. s \in Seq(Range(s)) /\ t \in Seq(Range(t))
  BY DEF IsList
<1>2. s \in Seq(S) /\ t \in Seq(S)
  BY <1>1, SMTT(30)
<1> HIDE DEF S
<1>3. /\ a \in Seq(S)
      /\ Len(a) = Len(s) + Len(t)
      /\ \A i \in 1..Len(a) : a[i] = IF i <= Len(s) THEN s[i] ELSE t[i - Len(s)]
  BY <1>2, ConcatProperties, Zenon
<1> HIDE DEF a
<1>4. IsList(a)
  BY <1>3, SeqIsList, Zenon
<1>5. Len(s) \in Nat /\ Len(t) \in Nat
  BY ListElements, Zenon
<1>6. \A i \in 1..Len(s) : a[i] = s[i]
  BY <1>3, <1>5
<1>7. ASSUME NEW i \in 1..Len(t) PROVE a[Len(s) + i] = t[i]
  <2>1. Len(s) + i \in 1..Len(a) /\ ~ (Len(s) + i <= Len(s)) /\ Len(s) + i - Len(s) = i
    BY <1>3, <1>5
  <2>2. a[Len(s) + i] = IF Len(s) + i <= Len(s) THEN s[Len(s) + i] ELSE t[Len(s) + i - Len(s)]
    <3>1. \A j \in 1..Len(a) : a[j] = IF j <= Len(s) THEN s[j] ELSE t[j - Len(s)]
      BY <1>3, Zenon
    <3> QED
      BY <2>1, <3>1
  <2> QED
    BY <2>1, <2>2
<1>8. ASSUME NEW y PROVE y \in Range(a) <=> y \in Range(s) \cup Range(t)
  <2>1. y \in Range(a) <=> \E i \in 1..Len(a) : a[i] = y
    BY <1>4, ListElements, Zenon
  <2>2. y \in Range(s) <=> \E i \in 1..Len(s) : s[i] = y
    BY ListElements, Zenon
  <2>3. y \in Range(t) <=> \E i \in 1..Len(t) : t[i] = y
    BY ListElements, Zenon
  <2>4. ASSUME NEW i \in 1..Len(a), a[i] = y
        PROVE  (\E j \in 1..Len(s) : s[j] = y) \/ (\E j \in 1..Len(t) : t[j] = y)
    <3>1. CASE i <= Len(s)
      BY <1>3, <1>5, <2>4, <3>1
    <3>2. CASE ~ (i <= Len(s))
      <4>1. i - Len(s) \in 1..Len(t)
        BY <1>3, <1>5, <3>2
      <4>2. t[i - Len(s)] = y
        BY <1>3, <2>4, <3>2, Zenon
      <4> QED
        BY <4>1, <4>2, Zenon
    <3> QED
      BY <3>1, <3>2, Zenon
  <2>5. \A j \in 1..Len(s) : j \in 1..Len(a)
    BY <1>3, <1>5
  <2>6. \A j \in 1..Len(t) : Len(s) + j \in 1..Len(a)
    BY <1>3, <1>5
  <2> QED
    BY <1>6, <1>7, <2>1, <2>2, <2>3, <2>4, <2>5, <2>6, Zenon
<1> QED
  BY <1>3, <1>4, <1>6, <1>7, <1>8 DEF a

\* A list that is two lists, one after the other, has the elements of both.
LEMMA ConcatRange ==
  ASSUME NEW s, IsList(s), NEW t, IsList(t), NEW a, a = s \o t
  PROVE  IsList(a) /\ Range(a) = Range(s) \cup Range(t)
<1>1. IsList(s \o t) /\ Range(s \o t) = Range(s) \cup Range(t)
  BY ConcatList, Zenon
<1> QED
  BY <1>1, Zenon

\* The first m elements of a list.
LEMMA PrefixList ==
  ASSUME NEW s, IsList(s), NEW m \in Nat, m <= Len(s)
  PROVE  /\ IsList(SubSeq(s, 1, m))
         /\ Len(SubSeq(s, 1, m)) = m
         /\ \A i \in 1..m : SubSeq(s, 1, m)[i] = s[i]
<1>1. s \in Seq(Range(s))
  BY DEF IsList
<1>2. Len(s) \in Nat
  BY <1>1
<1>3. /\ SubSeq(s, 1, m) \in Seq(Range(s))
      /\ Len(SubSeq(s, 1, m)) = m
      /\ \A i \in 1..m : SubSeq(s, 1, m)[i] = s[i]
  BY <1>1, <1>2, SMTT(30)
<1> QED
  BY <1>3, SeqIsList, Zenon

-----------------------------------------------------------------------------
(* Sorting: Ranked and Arranged (Lists).                                   *)

\* A strict total order on I.
OrderOn(R, I) ==
  /\ \A i \in I : <<i, i>> \notin R
  /\ \A i, j \in I : i # j => <<i, j>> \in R \/ <<j, i>> \in R
  /\ \A i, j, k \in I : <<i, j>> \in R /\ <<j, k>> \in R => <<i, k>> \in R

\* How many members are before this one.
Rank(I, R, i) == Cardinality({j \in I : <<j, i>> \in R})

\* Every place of a finite order is somebody's, and one's rank tells who is before one.
LEMMA Ranks ==
  ASSUME NEW I, IsFiniteSet(I), NEW R, OrderOn(R, I)
  PROVE  /\ \A i \in I : Rank(I, R, i) \in 0..(Cardinality(I) - 1)
         /\ \A i, j \in I : <<i, j>> \in R <=> Rank(I, R, i) < Rank(I, R, j)
         /\ \A i, j \in I : Rank(I, R, i) = Rank(I, R, j) => i = j
         /\ \A n \in 0..(Cardinality(I) - 1) : \E i \in I : Rank(I, R, i) = n
<1> DEFINE Behind(i) == {j \in I : <<j, i>> \in R}
           N == Cardinality(I)
<1>1. N \in Nat
  BY FS_CardinalityType, Zenon
<1>2. ASSUME NEW i \in I
      PROVE  IsFiniteSet(Behind(i)) /\ Rank(I, R, i) \in Nat /\ Rank(I, R, i) = Cardinality(Behind(i))
  <2>1. Behind(i) \in SUBSET I
    OBVIOUS
  <2>2. IsFiniteSet(Behind(i))
    BY <2>1, FS_Subset, Zenon
  <2>3. Cardinality(Behind(i)) \in Nat
    BY <2>2, FS_CardinalityType, Zenon
  <2> QED
    BY <2>2, <2>3, Zenon DEF Rank
<1>3. ASSUME NEW i \in I PROVE Rank(I, R, i) <= N - 1
  <2>1. Behind(i) \in SUBSET I /\ i \notin Behind(i)
    BY DEF OrderOn
  <2>2. Cardinality(Behind(i)) <= N
    BY <2>1, FS_Subset, Zenon
  <2>3. Cardinality(Behind(i)) # N
    BY <2>1, FS_Subset, Zenon
  <2> QED
    BY <1>1, <1>2, <2>2, <2>3
<1>4. ASSUME NEW i \in I, NEW j \in I, <<i, j>> \in R PROVE Rank(I, R, i) < Rank(I, R, j)
  <2>1. Behind(i) \in SUBSET Behind(j)
    BY <1>4, Zenon DEF OrderOn
  <2>2. i \in Behind(j) /\ i \notin Behind(i)
    BY <1>4, Zenon DEF OrderOn
  <2>3. Cardinality(Behind(i)) <= Cardinality(Behind(j))
    BY <1>2, <2>1, FS_Subset, Zenon
  <2>4. Cardinality(Behind(i)) # Cardinality(Behind(j))
    <3>1. Cardinality(Behind(j)) = Cardinality(Behind(i)) => Behind(j) = Behind(i)
      BY <1>2, <2>1, FS_Subset, Zenon
    <3> QED
      BY <2>2, <3>1, Zenon
  <2>5. Rank(I, R, i) <= Rank(I, R, j) /\ Rank(I, R, i) # Rank(I, R, j)
    BY <1>2, <2>3, <2>4, Zenon
  <2>6. Rank(I, R, i) \in Nat /\ Rank(I, R, j) \in Nat
    BY <1>2, Zenon
  <2> QED
    BY <2>5, <2>6
<1> HIDE DEF Behind
<1>5. ASSUME NEW i \in I, NEW j \in I, Rank(I, R, i) = Rank(I, R, j) PROVE i = j
  <2>1. ~ (<<i, j>> \in R) /\ ~ (<<j, i>> \in R)
    BY <1>2, <1>4, <1>5
  <2> QED
    BY <2>1, Zenon DEF OrderOn
<1>6. ASSUME NEW i \in I, NEW j \in I, Rank(I, R, i) < Rank(I, R, j) PROVE <<i, j>> \in R
  <2>1. ~ (<<j, i>> \in R) /\ i # j
    BY <1>2, <1>4, <1>6
  <2> QED
    BY <2>1, Zenon DEF OrderOn
<1>7. \A n \in 0..(N - 1) : \E i \in I : Rank(I, R, i) = n
  <2> DEFINE f == [i \in I |-> Rank(I, R, i)]
             T == 0..(N - 1)
  <2>1. \A i \in I : Rank(I, R, i) \in T
    BY <1>1, <1>2, <1>3
  <2>2. IsFiniteSet(T) /\ Cardinality(T) = N
    <3>1. 0 \in Int /\ N - 1 \in Int
      BY <1>1
    <3>2. IsFiniteSet(T) /\ Cardinality(T) = IF 0 > N - 1 THEN 0 ELSE N - 1 - 0 + 1
      BY <3>1, FS_Interval, Zenon
    <3> QED
      BY <1>1, <3>2
  <2> HIDE DEF T
  <2>3. f \in [I -> T]
    BY <2>1, Zenon
  <2>4. f \in Injection(I, T)
    <3>1. \A i, j \in I : f[i] = f[j] => i = j
      BY <1>5, Zenon
    <3> QED
      BY <2>3, <3>1, Zenon DEF Injection, IsInjective
  <2>5. f \in Surjection(I, T)
    BY <2>2, <2>4, FS_Injection, Zenon
  <2>6. \A n \in T : \E i \in I : f[i] = n
    BY <2>5, Zenon DEF Surjection
  <2> QED
    BY <2>6, Zenon DEF T
<1>8. \A i \in I : Rank(I, R, i) \in 0..(N - 1)
  BY <1>1, <1>2, <1>3
<1> QED
  BY <1>4, <1>5, <1>6, <1>7, <1>8, Zenon

\* a lists the members of I, each once, in the order of R.
Lists(a, I, R) ==
  /\ a = [n \in 1..Cardinality(I) |-> a[n]]
  /\ \A n \in 1..Cardinality(I) : a[n] \in I
  /\ \A m, n \in 1..Cardinality(I) : m < n <=> <<a[m], a[n]>> \in R
  /\ \A m, n \in 1..Cardinality(I) : a[m] = a[n] => m = n
  /\ \A i \in I : \E n \in 1..Cardinality(I) : a[n] = i

\* Ranked, with what it binds put in its place.
LEMMA RankedIs ==
  ASSUME NEW I, NEW R
  PROVE  Ranked(I, R) = [n \in 1..Cardinality(I) |-> CHOOSE i \in I : Rank(I, R, i) = n - 1]
<1> DEFINE b == [i \in I |-> Cardinality({j \in I : <<j, i>> \in R})]
           p == [n \in 1..Cardinality(DOMAIN b) |-> CHOOSE i \in DOMAIN b : b[i] = n - 1]
<1>1. Ranked(I, R) = p
  <2> DEFINE A(J) == [i \in J |-> Cardinality({j \in J : <<j, i>> \in R})]
             B(c) == [n \in 1..Cardinality(DOMAIN c) |-> CHOOSE i \in DOMAIN c : c[i] = n - 1]
  <2>1. Ranked(I, R) = Of(Of(I, A), B)
    BY DEF Ranked
  <2>2. Of(I, A) = A(I)
    <3> HIDE DEF A
    <3>1. {z \in {I} : z = z} = {I}
      OBVIOUS
    <3>2. {A(z) : z \in {z \in {I} : z = z}} = {A(I)}
      BY <3>1, Zenon
    <3> QED
      BY <3>2, Zenon DEF Of
  <2>3. Of(b, B) = B(b)
    <3> HIDE DEF B, b
    <3>1. {z \in {b} : z = z} = {b}
      OBVIOUS
    <3>2. {B(z) : z \in {z \in {b} : z = z}} = {B(b)}
      BY <3>1, Zenon
    <3> QED
      BY <3>2, Zenon DEF Of
  <2>4. A(I) = b /\ B(b) = p
    OBVIOUS
  <2> QED
    BY <2>1, <2>2, <2>3, <2>4, Zenon
<1>2. DOMAIN b = I /\ \A i \in I : b[i] = Rank(I, R, i)
  BY DEF Rank
<1> HIDE DEF b
<1>3. \A n : (CHOOSE i \in I : b[i] = n - 1) = CHOOSE i \in I : Rank(I, R, i) = n - 1
  BY <1>2
<1> QED
  BY <1>1, <1>2, <1>3

\* Ranked lists the members of a finite set, each once, in their order.
LEMMA RankedLists ==
  ASSUME NEW I, IsFiniteSet(I), NEW R, OrderOn(R, I)
  PROVE  Lists(Ranked(I, R), I, R)
<1> DEFINE a == Ranked(I, R)
           N == Cardinality(I)
<1>1. a = [n \in 1..N |-> CHOOSE i \in I : Rank(I, R, i) = n - 1]
  BY RankedIs, Zenon
<1>2. N \in Nat
  BY FS_CardinalityType, Zenon
<1>3. ASSUME NEW n \in 1..N PROVE a[n] \in I /\ Rank(I, R, a[n]) = n - 1
  <2>1. n - 1 \in 0..(N - 1)
    BY <1>2
  <2>2. \E i \in I : Rank(I, R, i) = n - 1
    <3>1. \A k \in 0..(Cardinality(I) - 1) : \E i \in I : Rank(I, R, i) = k
      BY Ranks
    <3> QED
      BY <2>1, <3>1
  <2>3. a[n] = CHOOSE i \in I : Rank(I, R, i) = n - 1
    BY <1>1, Zenon
  <2> QED
    BY <2>2, <2>3, Zenon
<1>4. a = [n \in 1..N |-> a[n]]
  BY <1>1
<1> HIDE DEF a
<1>5. ASSUME NEW m \in 1..N, NEW n \in 1..N PROVE m < n <=> <<a[m], a[n]>> \in R
  <2>1. <<a[m], a[n]>> \in R <=> Rank(I, R, a[m]) < Rank(I, R, a[n])
    BY <1>3, Ranks, Zenon
  <2> QED
    BY <1>2, <1>3, <2>1
<1>6. ASSUME NEW m \in 1..N, NEW n \in 1..N, a[m] = a[n] PROVE m = n
  <2>1. m - 1 = n - 1
    BY <1>3, <1>6, Zenon
  <2> QED
    BY <1>2, <2>1
<1>7. ASSUME NEW i \in I PROVE \E n \in 1..N : a[n] = i
  <2>1. Rank(I, R, i) \in 0..(N - 1)
    BY Ranks, Zenon
  <2> DEFINE n == Rank(I, R, i) + 1
  <2>2. n \in 1..N /\ n - 1 = Rank(I, R, i)
    BY <1>2, <2>1
  <2> HIDE DEF n
  <2>3. a[n] \in I /\ Rank(I, R, a[n]) = Rank(I, R, i)
    BY <1>3, <2>2, Zenon
  <2>4. a[n] = i
    <3>1. \A j, k \in I : Rank(I, R, j) = Rank(I, R, k) => j = k
      BY Ranks, Zenon
    <3> QED
      BY <2>3, <3>1, Zenon
  <2> QED
    BY <2>2, <2>4, Zenon
<1> QED
  BY <1>3, <1>4, <1>5, <1>6, <1>7, Zenon DEF Lists, a

-----------------------------------------------------------------------------
(* Induction, and lists of lists.                                          *)

\* Induction up to n, about a set of numbers.
LEMMA UpTo ==
  ASSUME NEW n \in Nat, NEW T, 0 \in T, \A k \in 0..(n - 1) : k \in T => k + 1 \in T
  PROVE  \A k \in 0..n : k \in T
<1> DEFINE Out == {k \in 0..n : k \notin T}
<1>1. SUFFICES ASSUME Out # {} PROVE FALSE
  OBVIOUS
<1>2. Out \in SUBSET Nat
  OBVIOUS
<1>3. PICK x \in Out : \A y \in Out : x <= y
  BY <1>1, <1>2, LeastNatural
<1>4. x \in 0..n /\ x \notin T /\ x # 0
  BY <1>3
<1>5. x - 1 \in 0..(n - 1) /\ x - 1 \in 0..n /\ x - 1 + 1 = x /\ ~ (x <= x - 1)
  BY <1>4
<1>6. x - 1 \in T
  BY <1>3, <1>5
<1> QED
  BY <1>4, <1>5, <1>6

\* FlattenSeq joins one list after the other: what it has joined after each.
LEMMA FlattenTrace ==
  ASSUME NEW seqs, IsList(seqs), Len(seqs) # 0
  PROVE  \E h : /\ h[1] = seqs[1]
                /\ \A i \in 2..Len(seqs) : h[i] = h[i - 1] \o seqs[i]
                /\ FlattenSeq(seqs) = h[Len(seqs)]
<1> DEFINE N == Len(seqs)
           Rec(h, n) == h = [i \in 1..n |-> IF i = 1 THEN seqs[i] ELSE h[i - 1] \o seqs[i]]
           T == {n \in 0..N : \E h : Rec(h, n)}
<1>1. N \in Nat /\ N # 0
  BY ListElements, Zenon
<1>2. 0 \in T
  <2> DEFINE h == [i \in 1..0 |-> seqs[i]]
  <2>1. Rec(h, 0)
    OBVIOUS
  <2> HIDE DEF h, Rec
  <2> QED
    BY <1>1, <2>1
<1>3. ASSUME NEW n \in 0..(N - 1), n \in T PROVE n + 1 \in T
  <2>1. n \in Nat /\ n + 1 \in 0..N
    BY <1>1
  <2>2. PICK h : Rec(h, n)
    BY <1>3, Zenon
  <2> DEFINE g == [i \in 1..(n + 1) |-> IF i = 1 THEN seqs[i] ELSE h[i - 1] \o seqs[i]]
  <2>3. ASSUME NEW i \in 1..(n + 1), i # 1 PROVE g[i - 1] = h[i - 1]
    <3>1. i - 1 \in 1..n /\ i - 1 \in 1..(n + 1)
      BY <2>1, <2>3
    <3>2. g[i - 1] = IF i - 1 = 1 THEN seqs[i - 1] ELSE h[i - 1 - 1] \o seqs[i - 1]
      BY <3>1, Zenon
    <3>3. h[i - 1] = IF i - 1 = 1 THEN seqs[i - 1] ELSE h[i - 1 - 1] \o seqs[i - 1]
      BY <2>2, <3>1, Zenon
    <3> QED
      BY <3>2, <3>3, Zenon
  <2>4. \A i \in 1..(n + 1) : (IF i = 1 THEN seqs[i] ELSE h[i - 1] \o seqs[i])
                                = IF i = 1 THEN seqs[i] ELSE g[i - 1] \o seqs[i]
    <3> HIDE DEF g
    <3> QED
      BY <2>3, Zenon
  <2>5. Rec(g, n + 1)
    <3>1. g = [i \in 1..(n + 1) |-> IF i = 1 THEN seqs[i] ELSE h[i - 1] \o seqs[i]]
      OBVIOUS
    <3> HIDE DEF g
    <3> QED
      BY <2>4, <3>1
  <2> HIDE DEF g, Rec
  <2> QED
    BY <2>1, <2>5, Zenon
<1>4. N \in T
  <2> HIDE DEF T
  <2>1. \A k \in 0..N : k \in T
    BY <1>1, <1>2, <1>3, UpTo
  <2> QED
    BY <1>1, <2>1
<1> DEFINE h == CHOOSE h : Rec(h, N)
<1>5. Rec(h, N)
  <2>1. \E g : Rec(g, N)
    BY <1>4, Zenon
  <2> HIDE DEF Rec
  <2> QED
    BY <2>1, Zenon
<1>6. FlattenSeq(seqs) = h[N]
  BY <1>1 DEF FlattenSeq
<1> HIDE DEF h
<1>7. 1 \in 1..N /\ \A i \in 2..N : i \in 1..N /\ i # 1
  BY <1>1
<1>8. h[1] = seqs[1]
  BY <1>5, <1>7
<1>9. ASSUME NEW i \in 2..N PROVE h[i] = h[i - 1] \o seqs[i]
  <2>1. i \in 1..N /\ i # 1
    BY <1>7, Zenon
  <2>2. h[i] = IF i = 1 THEN seqs[i] ELSE h[i - 1] \o seqs[i]
    BY <1>5, <2>1, Zenon
  <2> QED
    BY <2>1, <2>2, Zenon
<1> QED
  BY <1>6, <1>8, <1>9, Zenon

\* No two elements of the list have the same id.
DistinctIds(s) == \A i, j \in 1..Len(s) : s[i].id = s[j].id => i = j
\* The ids in a list.
IdsOf(s) == {x.id : x \in Range(s)}

\* Two lists without an id in common, one after the other, have distinct ids.
LEMMA ConcatDistinct ==
  ASSUME NEW s, IsList(s), NEW t, IsList(t), DistinctIds(s), DistinctIds(t),
         \A x \in Range(s), y \in Range(t) : x.id # y.id
  PROVE  DistinctIds(s \o t)
<1> DEFINE a == s \o t
           m == Len(s)
           n == Len(t)
<1>1. /\ m \in Nat /\ n \in Nat /\ Len(a) = m + n
      /\ \A i \in 1..m : a[i] = s[i] /\ s[i] \in Range(s)
      /\ \A i \in 1..n : a[m + i] = t[i] /\ t[i] \in Range(t)
  <2>1. /\ m \in Nat /\ \A i \in 1..m : s[i] \in Range(s)
    BY ListElements, Zenon
  <2>2. /\ n \in Nat /\ \A i \in 1..n : t[i] \in Range(t)
    BY ListElements, Zenon
  <2>3. /\ Len(a) = Len(s) + Len(t)
        /\ \A i \in 1..Len(s) : a[i] = s[i]
        /\ \A i \in 1..Len(t) : a[Len(s) + i] = t[i]
    BY ConcatList, Zenon
  <2> HIDE DEF a
  <2> QED
    BY <2>1, <2>2, <2>3
<1> HIDE DEF a, m, n
<1>2. ASSUME NEW i \in 1..Len(a), NEW j \in 1..Len(a), a[i].id = a[j].id, i <= m
      PROVE  i = j
  <2>1. i \in 1..m /\ a[i] = s[i] /\ s[i] \in Range(s)
    BY <1>1, <1>2
  <2>2. CASE j <= m
    <3>1. j \in 1..m /\ a[j] = s[j]
      BY <1>1, <2>2
    <3>2. s[i].id = s[j].id
      BY <1>2, <2>1, <3>1, Zenon
    <3> QED
      BY <2>1, <3>1, <3>2, Zenon DEF DistinctIds, m
  <2>3. CASE ~ (j <= m)
    <3>1. j - m \in 1..n /\ m + (j - m) = j
      BY <1>1, <2>3
    <3>2. a[m + (j - m)] = t[j - m] /\ t[j - m] \in Range(t)
      BY <1>1, <3>1, Zenon
    <3>3. a[j] = t[j - m]
      BY <3>1, <3>2
    <3>4. s[i].id # t[j - m].id
      BY <2>1, <3>2, Zenon
    <3> QED
      BY <1>2, <2>1, <3>3, <3>4, Zenon
  <2> QED
    BY <2>2, <2>3, Zenon
<1>3. ASSUME NEW i \in 1..Len(a), NEW j \in 1..Len(a), a[i].id = a[j].id, ~ (i <= m), ~ (j <= m)
      PROVE  i = j
  <2>1. /\ i - m \in 1..n /\ m + (i - m) = i
        /\ j - m \in 1..n /\ m + (j - m) = j
    BY <1>1, <1>3
  <2>2. a[m + (i - m)] = t[i - m] /\ a[m + (j - m)] = t[j - m]
    BY <1>1, <2>1, Zenon
  <2>3. a[i] = t[i - m] /\ a[j] = t[j - m]
    BY <2>1, <2>2
  <2>4. t[i - m].id = t[j - m].id
    BY <1>3, <2>3, Zenon
  <2>5. i - m = j - m
    BY <2>1, <2>4, Zenon DEF DistinctIds, n
  <2> QED
    BY <1>1, <2>5
<1>4. \A i, j \in 1..Len(a) : a[i].id = a[j].id => i = j
  BY <1>2, <1>3, Zenon
<1> QED
  BY <1>4, Zenon DEF DistinctIds, a, m, n

\* FlattenSeq joins lists: nothing is lost, and ids stay distinct.
LEMMA Flattened ==
  ASSUME NEW seqs, IsList(seqs), \A i \in 1..Len(seqs) : IsList(seqs[i])
  PROVE  /\ IsList(FlattenSeq(seqs))
         /\ \A x : x \in Range(FlattenSeq(seqs)) <=> \E i \in 1..Len(seqs) : x \in Range(seqs[i])
         /\ /\ \A i \in 1..Len(seqs) : DistinctIds(seqs[i])
            /\ \A i, j \in 1..Len(seqs) : i # j =>
                 \A x \in Range(seqs[i]), y \in Range(seqs[j]) : x.id # y.id
            => DistinctIds(FlattenSeq(seqs))
<1> DEFINE N == Len(seqs)
           All == /\ \A i \in 1..N : DistinctIds(seqs[i])
                  /\ \A i, j \in 1..N : i # j =>
                       \A x \in Range(seqs[i]), y \in Range(seqs[j]) : x.id # y.id
<1>1. N \in Nat
  BY ListElements, Zenon
<1>2. CASE N = 0
  <2>1. seqs = <<>>
    BY <1>2 DEF IsList
  <2>2. FlattenSeq(seqs) = seqs
    BY <1>2, Zenon DEF FlattenSeq
  <2>3. DistinctIds(<<>>)
    BY DEF DistinctIds
  <2>4. \A i \in 1..N : FALSE
    BY <1>2
  <2> QED
    BY <2>1, <2>2, <2>3, <2>4, EmptyIsList, Zenon
<1>3. CASE N # 0
  <2>1. PICK h : /\ h[1] = seqs[1]
                 /\ \A i \in 2..N : h[i] = h[i - 1] \o seqs[i]
                 /\ FlattenSeq(seqs) = h[N]
    BY <1>3, FlattenTrace, Zenon
  <2> DEFINE Good(k) ==
               /\ IsList(h[k])
               /\ \A x : x \in Range(h[k]) <=> \E i \in 1..k : x \in Range(seqs[i])
               /\ All => DistinctIds(h[k])
             T == {k \in 0..(N - 1) : Good(k + 1)}
  <2>2. 0 \in T
    <3>1. 1 \in 1..N /\ 0 \in 0..(N - 1) /\ \A i : i \in 1..(0 + 1) <=> i = 1
      BY <1>1, <1>3
    <3>2. Good(1)
      BY <2>1, <3>1
    <3> HIDE DEF Good
    <3> QED
      BY <3>1, <3>2
  <2>3. ASSUME NEW k \in 0..(N - 1 - 1), k \in T PROVE k + 1 \in T
    <3> DEFINE m == k + 1
    <3>1. /\ m \in 1..N /\ m + 1 \in 2..N /\ m + 1 \in 1..N /\ m \in 0..(N - 1) /\ m + 1 - 1 = m
          /\ \A i : i \in 1..(m + 1) <=> i \in 1..m \/ i = m + 1
          /\ \A i \in 1..m : i \in 1..N /\ i # m + 1
      BY <1>1, <1>3
    <3>2. Good(m)
      <4> HIDE DEF Good
      <4> QED
        BY <2>3
    <3> HIDE DEF m, All
    <3>3. h[m + 1] = h[m] \o seqs[m + 1]
      <4> DEFINE p == m + 1
      <4>1. p \in 2..N /\ p - 1 = m
        BY <3>1
      <4> HIDE DEF p
      <4>2. h[p] = h[p - 1] \o seqs[p]
        BY <2>1, <4>1, Zenon
      <4> QED
        BY <4>1, <4>2, Zenon DEF p
    <3>4. IsList(seqs[m + 1])
      BY <3>1, Zenon
    <3>5. IsList(h[m + 1]) /\ Range(h[m + 1]) = Range(h[m]) \cup Range(seqs[m + 1])
      <4>1. IsList(h[m])
        BY <3>2, Zenon
      <4> QED
        BY <3>3, <3>4, <4>1, ConcatRange, Zenon
    <3>6. ASSUME NEW x
          PROVE  x \in Range(h[m + 1]) <=> \E i \in 1..(m + 1) : x \in Range(seqs[i])
      BY <3>1, <3>2, <3>5, Zenon
    <3>7. ASSUME All PROVE DistinctIds(h[m + 1])
      <4>1. DistinctIds(h[m]) /\ DistinctIds(seqs[m + 1])
        BY <3>1, <3>2, <3>7, Zenon DEF All
      <4>2. ASSUME NEW x \in Range(h[m]), NEW y \in Range(seqs[m + 1]) PROVE x.id # y.id
        <5>1. PICK i \in 1..m : x \in Range(seqs[i])
          BY <3>2, Zenon
        <5> QED
          BY <3>1, <3>7, <5>1, Zenon DEF All
      <4> QED
        BY <3>2, <3>3, <3>4, <4>1, <4>2, ConcatDistinct, Zenon
    <3>8. Good(m + 1)
      BY <3>5, <3>6, <3>7, Zenon
    <3> HIDE DEF Good
    <3>9. m \in T
      BY <3>1, <3>8
    <3> QED
      BY <3>9 DEF m
  <2>4. Good(N)
    <3> HIDE DEF Good
    <3>1. N - 1 \in Nat /\ N - 1 \in 0..(N - 1) /\ N - 1 + 1 = N
      BY <1>1, <1>3
    <3>2. N - 1 \in T
      <4> HIDE DEF T
      <4>1. \A k \in 0..(N - 1) : k \in T
        BY <2>2, <2>3, <3>1, UpTo
      <4> QED
        BY <3>1, <4>1
    <3>3. Good(N - 1 + 1)
      BY <3>2
    <3> QED
      BY <3>1, <3>3
  <2> QED
    BY <2>1, <2>4, Zenon
<1> QED
  BY <1>2, <1>3, Zenon

-----------------------------------------------------------------------------
(* Elements at places, and elements that pass a test.                      *)

\* AtPlaces, with what it binds put in its place.
LEMMA AtPlacesIs ==
  ASSUME NEW s, NEW a
  PROVE  AtPlaces(s, a) = [n \in DOMAIN a |-> s[a[n]]]
<1> DEFINE B(p) == [n \in DOMAIN p |-> s[p[n]]]
<1>1. AtPlaces(s, a) = Of(a, B)
  BY DEF AtPlaces
<1>2. {z \in {a} : z = z} = {a}
  OBVIOUS
<1>3. Of(a, B) = B(a)
  <2> HIDE DEF B
  <2>1. {B(z) : z \in {z \in {a} : z = z}} = {B(a)}
    BY <1>2, Zenon
  <2> QED
    BY <2>1, Zenon DEF Of
<1> QED
  BY <1>1, <1>3, Zenon

\* The elements of s at the places in I, as a lists them.
LEMMA ElementsAtPlaces ==
  ASSUME NEW s, IsList(s), NEW I \in SUBSET (1..Len(s)), NEW R, NEW a, Lists(a, I, R)
  PROVE  /\ IsList(AtPlaces(s, a))
         /\ Len(AtPlaces(s, a)) = Cardinality(I)
         /\ Cardinality(I) \in Nat
         /\ \A n \in 1..Cardinality(I) : a[n] \in I /\ AtPlaces(s, a)[n] = s[a[n]]
         /\ DistinctIds(s) => DistinctIds(AtPlaces(s, a))
<1> DEFINE N == Cardinality(I)
           b == AtPlaces(s, a)
<1>1. Len(s) \in Nat /\ DOMAIN s = 1..Len(s)
  BY ListElements, Zenon
<1>2. IsFiniteSet(I) /\ N \in Nat
  <2>1. 1 \in Int /\ Len(s) \in Int
    BY <1>1
  <2>2. IsFiniteSet(1..Len(s))
    BY <2>1, FS_Interval, Zenon
  <2>3. IsFiniteSet(I)
    BY <2>2, FS_Subset, Zenon
  <2> QED
    BY <2>3, FS_CardinalityType, Zenon
<1>3. /\ a = [n \in 1..N |-> a[n]]
      /\ \A n \in 1..N : a[n] \in I
      /\ \A m, n \in 1..N : a[m] = a[n] => m = n
      /\ \A i \in I : \E n \in 1..N : a[n] = i
  BY Zenon DEF Lists
<1>4. DOMAIN a = 1..N
  <2>1. DOMAIN [n \in 1..N |-> a[n]] = 1..N
    OBVIOUS
  <2> QED
    BY <1>3, <2>1, Zenon
<1>5. b = [n \in 1..N |-> s[a[n]]]
  BY <1>4, AtPlacesIs, Zenon
<1>6. \A n \in 1..N : b[n] = s[a[n]]
  BY <1>5, Zenon
<1>7. b = [n \in 1..N |-> b[n]]
  BY <1>5
<1> HIDE DEF b
<1>8. IsList(b) /\ Len(b) = N
  BY <1>2, <1>7, ListByShape, Zenon
<1>11. ASSUME DistinctIds(s) PROVE DistinctIds(b)
  <2>1. ASSUME NEW m \in 1..N, NEW n \in 1..N, b[m].id = b[n].id PROVE m = n
    <3>1. a[m] \in 1..Len(s) /\ a[n] \in 1..Len(s)
      BY <1>3, Zenon
    <3>2. s[a[m]].id = s[a[n]].id
      BY <1>6, <2>1, Zenon
    <3>3. a[m] = a[n]
      BY <1>11, <3>1, <3>2, Zenon DEF DistinctIds
    <3> QED
      BY <1>3, <3>3, Zenon
  <2> QED
    BY <1>8, <2>1, Zenon DEF DistinctIds
<1> QED
  BY <1>2, <1>3, <1>6, <1>8, <1>11, Zenon DEF b

\* The elements at the places of a set are those that the set names.
LEMMA RangeAtPlaces ==
  ASSUME NEW s, IsList(s), NEW I \in SUBSET (1..Len(s)), NEW R, NEW a, Lists(a, I, R)
  PROVE  /\ \A x \in Range(AtPlaces(s, a)) : \E i \in I : s[i] = x
         /\ \A i \in I : s[i] \in Range(AtPlaces(s, a))
<1> DEFINE N == Cardinality(I)
           b == AtPlaces(s, a)
<1>1. /\ \A n \in 1..N : a[n] \in I
      /\ \A i \in I : \E n \in 1..N : a[n] = i
  BY Zenon DEF Lists
<1>2. IsList(b) /\ Len(b) = N
  BY ElementsAtPlaces, Zenon
<1>3. \A n \in 1..N : b[n] = s[a[n]]
  BY ElementsAtPlaces
<1> HIDE DEF b, N
<1>4. /\ \A x \in Range(b) : \E n \in 1..N : b[n] = x
      /\ \A n \in 1..N : b[n] \in Range(b)
  BY <1>2, InRange, Zenon
<1>5. ASSUME NEW x \in Range(b) PROVE \E i \in I : s[i] = x
  <2>1. PICK n \in 1..N : b[n] = x
    BY <1>4, Zenon
  <2> QED
    BY <1>1, <1>3, <2>1, Zenon
<1>6. ASSUME NEW i \in I PROVE s[i] \in Range(b)
  <2>1. PICK n \in 1..N : a[n] = i
    BY <1>1, Zenon
  <2> QED
    BY <1>3, <1>4, <2>1, Zenon
<1> QED
  BY <1>5, <1>6, Zenon DEF b

\* Numbers arranged by size, with what Arranged binds put in its place.
LEMMA ArrangedLess ==
  ASSUME NEW I
  PROVE  Arranged(I, <) = Ranked(I, {p \in I \X I : p[1] < p[2]})
<1> DEFINE A(J) == {p \in J \X J : p[1] < p[2]}
           B(J) == Of(A(J), LAMBDA before : Ranked(J, before))
<1>1. Arranged(I, <) = Of(I, B)
  BY DEF Arranged
<1>2. \A x : {z \in {x} : z = z} = {x}
  OBVIOUS
<1>3. Of(I, B) = B(I)
  <2> HIDE DEF B
  <2>1. {B(z) : z \in {z \in {I} : z = z}} = {B(I)}
    BY <1>2, Zenon
  <2> QED
    BY <2>1, Zenon DEF Of
<1>4. B(I) = Ranked(I, A(I))
  <2> HIDE DEF A
  <2>1. {Ranked(I, z) : z \in {z \in {A(I)} : z = z}} = {Ranked(I, A(I))}
    BY <1>2, Zenon
  <2> QED
    BY <2>1, Zenon DEF Of
<1> QED
  BY <1>1, <1>3, <1>4, Zenon

\* The elements of s at the places in I, in their order.
ElementsIn(s, I) == AtPlaces(s, Ranked(I, {p \in I \X I : p[1] < p[2]}))

\* There are no more places than the list is long.
LEMMA FewPlaces ==
  ASSUME NEW n \in Nat, NEW I \in SUBSET (1..n)
  PROVE  IsFiniteSet(I) /\ Cardinality(I) \in Nat /\ Cardinality(I) <= n
<1>1. IsFiniteSet(1..n) /\ Cardinality(1..n) = n
  BY FS_Interval
<1>2. IsFiniteSet(I) /\ Cardinality(I) <= Cardinality(1..n)
  BY <1>1, FS_Subset
<1> QED
  BY <1>1, <1>2, FS_CardinalityType

\* What passes a test, at the places of a list.
ListedIn(k, s, I) == \E a, R : Lists(a, I, R) /\ k = AtPlaces(s, a)

LEMMA KeptPlaces ==
  ASSUME NEW s, IsList(s), NEW I \in SUBSET (1..Len(s)), NEW k,
         k = ElementsIn(s, I)
  PROVE  ListedIn(k, s, I)
<1> DEFINE R == {p \in I \X I : p[1] < p[2]}
<1>0. \A i, j \in I : <<i, j>> \in R <=> i < j
  OBVIOUS
<1> HIDE DEF R
<1>1. Len(s) \in Nat
  BY ListElements, Zenon
<1>2. IsFiniteSet(I)
  <2>1. 1 \in Int /\ Len(s) \in Int
    BY <1>1
  <2>2. IsFiniteSet(1..Len(s))
    BY <2>1, FS_Interval, Zenon
  <2> QED
    BY <2>2, FS_Subset, Zenon
<1>3. OrderOn(R, I)
  <2>1. \A i \in I : i \in Int
    BY <1>1
  <2>2. \A i \in I : ~ (<<i, i>> \in R)
    BY <1>0, <2>1
  <2>3. \A i, j \in I : i # j => <<i, j>> \in R \/ <<j, i>> \in R
    BY <1>0, <2>1
  <2>4. \A i, j, l \in I : <<i, j>> \in R /\ <<j, l>> \in R => <<i, l>> \in R
    <3>1. \A i, j, l \in I : i < j /\ j < l => i < l
      BY <2>1
    <3> QED
      BY <1>0, <3>1, Zenon
  <2> QED
    BY <2>2, <2>3, <2>4, Zenon DEF OrderOn
<1>4. Lists(Ranked(I, R), I, R)
  BY <1>2, <1>3, RankedLists, Zenon
<1>5. k = AtPlaces(s, Ranked(I, R))
  BY Zenon DEF R, ElementsIn
<1> QED
  BY <1>4, <1>5, Zenon DEF ListedIn

\* What passes a test.
LEMMA KeptElements ==
  ASSUME NEW s, IsList(s), NEW I \in SUBSET (1..Len(s)), NEW k,
         k = ElementsIn(s, I)
  PROVE  /\ IsList(k)
         /\ \A x \in Range(k) : \E i \in I : s[i] = x
         /\ \A i \in I : s[i] \in Range(k)
         /\ DistinctIds(s) => DistinctIds(k)
         /\ Len(k) <= Len(s)
<1>1. Len(s) \in Nat
  BY ListElements, Zenon
<1>2. PICK a, R : Lists(a, I, R) /\ k = AtPlaces(s, a)
  <2>1. ListedIn(k, s, I)
    BY KeptPlaces, Zenon
  <2> QED
    BY <2>1, Zenon DEF ListedIn
<1>3. IsList(AtPlaces(s, a)) /\ (DistinctIds(s) => DistinctIds(AtPlaces(s, a)))
  BY <1>2, ElementsAtPlaces, Zenon
<1>4. /\ \A x \in Range(AtPlaces(s, a)) : \E i \in I : s[i] = x
      /\ \A i \in I : s[i] \in Range(AtPlaces(s, a))
  BY <1>2, RangeAtPlaces, Zenon
<1>5. Len(AtPlaces(s, a)) <= Len(s)
  <2>1. Len(AtPlaces(s, a)) = Cardinality(I)
    BY <1>2, ElementsAtPlaces, Zenon
  <2> QED
    BY <1>1, <2>1, FewPlaces
<1> QED
  BY <1>2, <1>3, <1>4, <1>5, Zenon

\* Each of them passes once.
OnceFrom(k, s, I) ==
  \A m, n \in 1..Len(k) : m # n => \E i, j \in I : i # j /\ s[i] = k[m] /\ s[j] = k[n]

LEMMA KeptOnce ==
  ASSUME NEW s, IsList(s), NEW I \in SUBSET (1..Len(s)), NEW k,
         k = ElementsIn(s, I)
  PROVE  OnceFrom(k, s, I)
<1>1. PICK a, R : Lists(a, I, R) /\ k = AtPlaces(s, a)
  <2>1. ListedIn(k, s, I)
    BY KeptPlaces, Zenon
  <2> QED
    BY <2>1, Zenon DEF ListedIn
<1>2. /\ Len(AtPlaces(s, a)) = Cardinality(I)
      /\ \A n \in 1..Cardinality(I) : a[n] \in I /\ AtPlaces(s, a)[n] = s[a[n]]
  <2>1. Lists(a, I, R)
    BY <1>1, Zenon
  <2> QED
    BY <2>1, ElementsAtPlaces
<1>3. \A m, n \in 1..Cardinality(I) : a[m] = a[n] => m = n
  BY <1>1, Zenon DEF Lists
<1> QED
  <2> SUFFICES ASSUME NEW m \in 1..Len(k), NEW n \in 1..Len(k), m # n
               PROVE  \E i, j \in I : i # j /\ s[i] = k[m] /\ s[j] = k[n]
    BY Zenon DEF OnceFrom
  <2>1. m \in 1..Cardinality(I) /\ n \in 1..Cardinality(I) /\ k = AtPlaces(s, a)
    BY <1>1, <1>2
  <2>2. a[m] \in I /\ a[n] \in I /\ k[m] = s[a[m]] /\ k[n] = s[a[n]]
    BY <1>2, <2>1, Zenon
  <2>3. a[m] # a[n]
    BY <1>3, <2>1, Zenon
  <2> QED
    BY <2>2, <2>3, Zenon

-----------------------------------------------------------------------------
(* The order of findings (Findings).                                       *)

\* A finding is what it should be (findings.py), and its place can be compared.
WellFormed(f) ==
  /\ f.severity \in Int
  /\ f.file \in Int
  /\ f.first \in Int /\ f.last \in Int
  /\ RuleOrder[f.rule] \in Int
  /\ IsFinding(f)

\* The order of findings (sort_findings) is strict and transitive, and of two that it
\* does not order each stands to a third as the other does.
LEMMA PrecedesOrders ==
  ASSUME NEW f, NEW g, NEW h, WellFormed(f), WellFormed(g), WellFormed(h)
  PROVE  /\ ~ Precedes(f, f)
         /\ Precedes(f, g) => ~ Precedes(g, f)
         /\ Precedes(f, g) /\ Precedes(g, h) => Precedes(f, h)
         /\ Precedes(f, g) /\ ~ Precedes(h, g) => Precedes(f, h)
         /\ ~ Precedes(g, f) /\ Precedes(g, h) => Precedes(f, h)
BY DEF WellFormed, Precedes

\* Ordered (sort_findings) sorts: it loses no finding and adds none.
LEMMA OrderedElements ==
  ASSUME NEW fs, IsList(fs), \A i \in 1..Len(fs) : WellFormed(fs[i])
  PROVE  /\ IsList(Ordered(fs))
         /\ \A x \in Range(Ordered(fs)) : x \in Range(fs)
         /\ \A x \in Range(fs) : x \in Range(Ordered(fs))
         /\ DistinctIds(fs) => DistinctIds(Ordered(fs))
<1> DEFINE Sooner(i, j) == Precedes(fs[i], fs[j]) \/ (~ Precedes(fs[j], fs[i]) /\ i < j)
           I == 1..Len(fs)
           R == {p \in I \X I : Sooner(p[1], p[2])}
<1>1. Len(fs) \in Nat /\ DOMAIN fs = I
  BY ListElements, Zenon
<1>2. Ordered(fs) = AtPlaces(fs, Ranked(I, R))
  <2> DEFINE InOrder(gs) ==
               LET Soon(i, j) == Precedes(gs[i], gs[j]) \/ (~ Precedes(gs[j], gs[i]) /\ i < j)
               IN  AtPlaces(gs, Arranged(DOMAIN gs, Soon))
             A(J) == {p \in J \X J : Sooner(p[1], p[2])}
             B(J) == Of(A(J), LAMBDA before : Ranked(J, before))
  <2>1. \A x : {z \in {x} : z = z} = {x}
    OBVIOUS
  <2>2. Ordered(fs) = Of(fs, InOrder)
    BY DEF Ordered
  <2>3. Of(fs, InOrder) = InOrder(fs)
    <3> HIDE DEF InOrder
    <3>1. {InOrder(z) : z \in {z \in {fs} : z = z}} = {InOrder(fs)}
      BY <2>1, Zenon
    <3> QED
      BY <3>1, Zenon DEF Of
  <2>4. InOrder(fs) = AtPlaces(fs, Arranged(DOMAIN fs, Sooner))
    OBVIOUS
  <2>5. Arranged(DOMAIN fs, Sooner) = Of(DOMAIN fs, B)
    BY DEF Arranged
  <2>6. Of(DOMAIN fs, B) = B(DOMAIN fs)
    <3> HIDE DEF B
    <3>1. {B(z) : z \in {z \in {DOMAIN fs} : z = z}} = {B(DOMAIN fs)}
      BY <2>1, Zenon
    <3> QED
      BY <3>1, Zenon DEF Of
  <2>7. B(DOMAIN fs) = Ranked(DOMAIN fs, A(DOMAIN fs))
    <3> HIDE DEF A
    <3>1. {Ranked(DOMAIN fs, z) : z \in {z \in {A(DOMAIN fs)} : z = z}} = {Ranked(DOMAIN fs, A(DOMAIN fs))}
      BY <2>1, Zenon
    <3> QED
      BY <3>1, Zenon DEF Of
  <2>8. A(DOMAIN fs) = R
    BY <1>1
  <2> HIDE DEF InOrder, A, B, R, I
  <2> QED
    BY <1>1, <2>2, <2>3, <2>4, <2>5, <2>6, <2>7, <2>8, Zenon
<1>3. \A i, j \in I : <<i, j>> \in R <=> Sooner(i, j)
  OBVIOUS
<1> HIDE DEF R
<1>4. \A i \in I : i \in Int
  BY <1>1
<1>5. \A i \in I : ~ (<<i, i>> \in R)
  <2>1. \A i \in I : ~ (i < i)
    BY <1>4
  <2> QED
    BY <1>3, <2>1, PrecedesOrders, Zenon
<1>6. ASSUME NEW i \in I, NEW j \in I, i # j PROVE <<i, j>> \in R \/ <<j, i>> \in R
  <2>1. i < j \/ j < i
    BY <1>4, <1>6
  <2> QED
    BY <1>3, <2>1, PrecedesOrders, Zenon
<1>7. ASSUME NEW i \in I, NEW j \in I, NEW k \in I, <<i, j>> \in R, <<j, k>> \in R
      PROVE  <<i, k>> \in R
  <2>1. WellFormed(fs[i]) /\ WellFormed(fs[j]) /\ WellFormed(fs[k])
    OBVIOUS
  <2>2. Sooner(i, j) /\ Sooner(j, k)
    BY <1>3, <1>7, Zenon
  <2>3. i < j /\ j < k => i < k
    BY <1>4
  <2> DEFINE f == fs[i]
             g == fs[j]
             h == fs[k]
  <2>4. WellFormed(f) /\ WellFormed(g) /\ WellFormed(h)
    BY <2>1
  <2>5. /\ Precedes(f, g) \/ (~ Precedes(g, f) /\ i < j)
        /\ Precedes(g, h) \/ (~ Precedes(h, g) /\ j < k)
    BY <2>2
  <2>6. Precedes(f, h) \/ (~ Precedes(h, f) /\ i < k)
    <3> HIDE DEF f, g, h
    <3>1. CASE Precedes(f, g)
      BY <2>4, <2>5, <3>1, PrecedesOrders, Zenon
    <3>2. CASE Precedes(g, h)
      BY <2>4, <2>5, <3>2, PrecedesOrders, Zenon
    <3>3. CASE ~ Precedes(f, g) /\ ~ Precedes(g, h)
      <4>1. ~ Precedes(h, f)
        <5>1. ~ Precedes(g, f) /\ ~ Precedes(h, g)
          BY <2>5, <3>3, Zenon
        <5>2. Precedes(h, f) /\ ~ Precedes(g, f) => Precedes(h, g)
          BY <2>4, PrecedesOrders, Zenon
        <5> QED
          BY <5>1, <5>2, Zenon
      <4> QED
        BY <2>3, <2>5, <3>3, <4>1, Zenon
    <3> QED
      BY <3>1, <3>2, <3>3, Zenon
  <2> QED
    BY <1>3, <2>6, Zenon
<1>8. OrderOn(R, I)
  BY <1>5, <1>6, <1>7, Zenon DEF OrderOn
<1>9. IsFiniteSet(I) /\ I \in SUBSET (1..Len(fs))
  <2>1. 1 \in Int /\ Len(fs) \in Int
    BY <1>1
  <2> QED
    BY <2>1, FS_Interval, Zenon
<1> DEFINE a == Ranked(I, R)
<1>10. Lists(a, I, R)
  BY <1>8, <1>9, RankedLists, Zenon
<1>11. Ordered(fs) = AtPlaces(fs, a)
  BY <1>2, Zenon
<1> HIDE DEF a
<1>12. IsList(AtPlaces(fs, a)) /\ (DistinctIds(fs) => DistinctIds(AtPlaces(fs, a)))
  BY <1>9, <1>10, ElementsAtPlaces, Zenon
<1>13. /\ \A x \in Range(AtPlaces(fs, a)) : \E i \in I : fs[i] = x
       /\ \A i \in I : fs[i] \in Range(AtPlaces(fs, a))
  BY <1>9, <1>10, RangeAtPlaces, Zenon
<1>14. /\ \A x \in Range(fs) : \E i \in I : fs[i] = x
       /\ \A i \in I : fs[i] \in Range(fs)
  BY InRange, Zenon
<1> QED
  BY <1>11, <1>12, <1>13, <1>14, Zenon

-----------------------------------------------------------------------------
(* What the parsers make of the tools' outputs (Analyzers).                *)

\* The fields of a finding.
Fields ==
  {"id", "file", "first", "last", "category", "severity", "sources", "confidence", "status",
   "rule", "redacted", "formatting", "evidence", "verified", "note"}

\* A finding that a tool has just reported.
Reporting(f, tool) ==
  /\ DOMAIN f = Fields
  /\ WellFormed(f)
  /\ f.confidence \in Int
  /\ f.sources = {tool}
  /\ f.status = "open"
  /\ f.verified = {}

\* The rules that the parsers name themselves have a place in the order of rules.
LEMMA OwnRulesOrdered == \A r \in OwnRules : RuleOrder[r] \in Int
BY RuleAssumption, Zenon

\* Severities are numbers, and categories names.
LEMMA SeverityTypes ==
  /\ Critical \in Severities /\ High \in Severities /\ Medium \in Severities /\ Low \in Severities
  /\ Info \in Severities /\ Severities = 0..4 /\ NoSeverity \in Int
BY DEF Critical, High, Medium, Low, Info, Severities, NoSeverity

LEMMA CategoryNames ==
  \A c \in {"bug", "security", "style", "performance", "maintainability", "typing"} : c \in Categories
BY DEF Categories

\* Found makes a finding of its tool.
LEMMA FoundReports ==
  ASSUME NEW tool, NEW e, e.file \in Int, e.first \in Int, e.last \in Int,
         NEW rule, RuleOrder[rule] \in Int, NEW category \in Categories, NEW severity \in Severities,
         NEW confidence \in 0..10
  PROVE  Reporting(Found(tool, e, rule, category, severity, confidence), tool)
<1> DEFINE last == Larger(e.last, e.first)
<1>1. last \in Int /\ e.first <= last
  BY DEF Larger
<1> HIDE DEF last
<1>2. Found(tool, e, rule, category, severity, confidence) =
        [id |-> NoId, file |-> e.file, first |-> e.first, last |-> last,
         category |-> category, severity |-> severity, sources |-> {tool}, confidence |-> confidence,
         status |-> "open", rule |-> rule, redacted |-> FALSE, formatting |-> FALSE,
         evidence |-> {}, verified |-> {}, note |-> "none"]
  BY DEF Found, last
<1>3. severity \in Int /\ "open" \in FindingStatuses
  BY SeverityTypes DEF FindingStatuses
<1> QED
  BY <1>1, <1>2, <1>3 DEF Reporting, WellFormed, IsFinding, Fields

\* Classify gives a category and a severity.
LEMMA ClassifyType ==
  ASSUME NEW family
  PROVE  Classify(family)[1] \in Categories /\ Classify(family)[2] \in Severities
<1>1. CASE family = "syntax"
  <2>1. ~ ("syntax" \in DOMAIN Classification)
    BY DEF Classification
  <2>2. Classify("syntax") = <<"bug", Medium>>
    BY <2>1 DEF Classify
  <2> QED
    BY <1>1, <2>2, SeverityTypes, CategoryNames
<1>2. CASE family # "syntax" /\ family \in DOMAIN Classification
  BY <1>2, SeverityTypes, CategoryNames DEF Classify, Classification
<1>3. CASE family # "syntax" /\ ~ (family \in DOMAIN Classification)
  BY <1>3, SeverityTypes, CategoryNames DEF Classify
<1> QED
  BY <1>1, <1>2, <1>3, Zenon

\* A single finding of a tool.
LEMMA OneFinding ==
  ASSUME NEW tool, NEW f, Reporting(f, tool)
  PROVE  IsList(<<f>>) /\ \A i \in 1..Len(<<f>>) : Reporting(<<f>>[i], tool)
<1>1. <<f>> \in Seq({f}) /\ Len(<<f>>) = 1 /\ <<f>>[1] = f
  OBVIOUS
<1>2. \A i \in 1..1 : i = 1
  OBVIOUS
<1> QED
  BY <1>1, <1>2, SeqIsList, Zenon

\* No finding of a tool.
LEMMA NoFinding ==
  ASSUME NEW tool
  PROVE  IsList(<<>>) /\ \A i \in 1..Len(<<>>) : Reporting(<<>>[i], tool)
<1>1. Len(<<>>) = 0 /\ \A i \in 1..0 : FALSE
  OBVIOUS
<1> QED
  BY <1>1, EmptyIsList, Zenon

\* The findings of a tool, one list after the other.
LEMMA MoreFindings ==
  ASSUME NEW tool, NEW s, IsList(s), NEW t, IsList(t),
         \A i \in 1..Len(s) : Reporting(s[i], tool), \A i \in 1..Len(t) : Reporting(t[i], tool)
  PROVE  IsList(s \o t) /\ \A i \in 1..Len(s \o t) : Reporting((s \o t)[i], tool)
<1>1. /\ \A x \in Range(s) : \E i \in 1..Len(s) : s[i] = x
      /\ \A x \in Range(t) : \E i \in 1..Len(t) : t[i] = x
  BY InRange, Zenon
<1>2. IsList(s \o t) /\ Range(s \o t) = Range(s) \cup Range(t)
  BY ConcatList, Zenon
<1>3. \A i \in 1..Len(s \o t) : (s \o t)[i] \in Range(s \o t)
  BY <1>2, InRange, Zenon
<1>4. \A x \in Range(s) \cup Range(t) : Reporting(x, tool)
  BY <1>1
<1> QED
  BY <1>2, <1>3, <1>4, Zenon

\* What the parser of a tool gives: a list of its findings.
Reports(s, tool) == IsList(s) /\ \A i \in 1..Len(s) : Reporting(s[i], tool)

\* One finding of a tool is a report of it.
LEMMA OneReport ==
  ASSUME NEW tool, NEW f, Reporting(f, tool)
  PROVE  Reports(<<f>>, tool)
BY OneFinding, Zenon DEF Reports

\* No finding is a report, too.
LEMMA NoReport ==
  ASSUME NEW tool
  PROVE  Reports(<<>>, tool)
BY NoFinding, Zenon DEF Reports

\* Two reports of a tool, one after the other, are one.
LEMMA MoreReports ==
  ASSUME NEW tool, NEW s, NEW t, Reports(s, tool), Reports(t, tool)
  PROVE  Reports(s \o t, tool)
BY MoreFindings, Zenon DEF Reports

\* A finding of which fields of no account here are changed.
LEMMA ChangedReports ==
  ASSUME NEW tool, NEW f, Reporting(f, tool), NEW v
  PROVE  /\ Reporting([f EXCEPT !.formatting = v], tool)
         /\ Reporting([f EXCEPT !.redacted = v], tool)
         /\ Reporting([f EXCEPT !.id = v], tool)
         /\ \A m \in Int : Reporting([f EXCEPT !.first = m, !.last = m], tool)
BY DEF Reporting, WellFormed, IsFinding, Fields

\* What the parser of ruff makes of an entry are findings of ruff.
LEMMA RuffReports ==
  ASSUME NEW e, EntryOf("ruff", e)
  PROVE  Reports(Ruff(e), "ruff")
<1> DEFINE class == Classify(e.family)
           rule == IF e.family = "syntax" THEN "syntax-error" ELSE e.rule
           f == Found("ruff", e, rule, class[1], class[2], 10)
<1>1. class[1] \in Categories /\ class[2] \in Severities
  BY ClassifyType, Zenon
<1>2. e.file \in Int /\ e.first \in Int /\ e.last \in Int /\ e.rule \in DOMAIN RuleOrder
  BY DEF EntryOf
<1>3. RuleOrder[rule] \in Int
  BY <1>2, OwnRulesOrdered, RuleAssumption DEF OwnRules
<1>4. Reporting(f, "ruff")
  <2> HIDE DEF class, rule
  <2> QED
    BY <1>1, <1>2, <1>3, CategoryNames, FoundReports
<1>5. Reporting([f EXCEPT !.formatting = e.layout], "ruff")
  BY <1>4, ChangedReports, Zenon
<1>6. Ruff(e) = <<[f EXCEPT !.formatting = e.layout]>>
  BY DEF Ruff
<1> QED
  BY <1>5, <1>6, OneReport, Zenon

\* What the parser of bandit makes of an entry are findings of bandit.
LEMMA BanditReports ==
  ASSUME NEW e, EntryOf("bandit", e)
  PROVE  Reports(Bandit(e), "bandit")
<1> DEFINE confidence ==
             CASE e.confidence = "HIGH" -> 9 [] e.confidence = "MEDIUM" -> 7 [] OTHER -> 4
           severity == BanditSeverity(e.severity, e.confidence)
           f == Found("bandit", e, e.rule, "security", severity, confidence)
<1>1. severity \in Severities
  BY SeverityTypes DEF BanditSeverity
<1>2. e.file \in Int /\ e.first \in Int /\ e.last \in Int /\ RuleOrder[e.rule] \in Int
  BY RuleAssumption DEF EntryOf
<1>3. confidence \in 0..10
  OBVIOUS
<1>4. Reporting(f, "bandit")
  <2> HIDE DEF confidence, severity
  <2> QED
    BY <1>1, <1>2, <1>3, CategoryNames, FoundReports
<1>5. Reporting([f EXCEPT !.redacted = e.rule \in PasswordTests], "bandit")
  BY <1>4, ChangedReports, Zenon
<1>6. Bandit(e) = <<[f EXCEPT !.redacted = e.rule \in PasswordTests]>>
  BY DEF Bandit
<1> QED
  BY <1>5, <1>6, OneReport, Zenon

\* What the parser of mypy makes of an entry are findings of mypy.
LEMMA MypyReports ==
  ASSUME NEW e, EntryOf("mypy", e)
  PROVE  Reports(Mypy(e), "mypy")
<1>1. e.file \in Int /\ e.first \in Int /\ e.last \in Int /\ RuleOrder[e.rule] \in Int /\ 10 \in 0..10
  BY RuleAssumption DEF EntryOf
<1>2. Reporting(Found("mypy", e, e.rule, "typing", Medium, 10), "mypy")
  BY <1>1, SeverityTypes, CategoryNames, FoundReports
<1>3. \/ Mypy(e) = <<Found("mypy", e, e.rule, "typing", Medium, 10)>>
      \/ Mypy(e) = <<>>
  BY DEF Mypy
<1> QED
  BY <1>2, <1>3, OneReport, NoReport, Zenon

\* What the parser of radon makes of an entry are findings of radon.
LEMMA RadonReports ==
  ASSUME NEW e, EntryOf("radon", e)
  PROVE  Reports(Radon(e), "radon")
<1> DEFINE severity == IF e.rank = "D" THEN Low ELSE Medium
           f == Found("radon", e, "cyclomatic-complexity", "maintainability", severity, 10)
           g == Found("radon", e, "maintainability-index", "maintainability", Medium, 10)
<1>1. e.file \in Int /\ e.first \in Int /\ e.last \in Int /\ 10 \in 0..10 /\ 1 \in Int /\ severity \in Severities
  BY SeverityTypes DEF EntryOf
<1>2. RuleOrder["cyclomatic-complexity"] \in Int /\ RuleOrder["maintainability-index"] \in Int
  BY OwnRulesOrdered DEF OwnRules
<1>3. Reporting(f, "radon")
  <2> HIDE DEF severity
  <2> QED
    BY <1>1, <1>2, CategoryNames, FoundReports
<1>4. Reporting(g, "radon")
  BY <1>1, <1>2, SeverityTypes, CategoryNames, FoundReports
<1>5. Reporting([g EXCEPT !.first = 1, !.last = 1], "radon")
  BY <1>1, <1>4, ChangedReports, Zenon
<1> e.report \in {"cc", "mi", "raw"}
  BY DEF EntryOf
<1>6. \/ Radon(e) = <<f>>
      \/ Radon(e) = <<[g EXCEPT !.first = 1, !.last = 1]>>
      \/ Radon(e) = <<>>
  <2>1. CASE e.report = "cc"
    BY <2>1, Zenon DEF Radon
  <2>2. CASE e.report = "mi"
    BY <2>2 DEF Radon
  <2>3. CASE e.report = "raw"
    BY <2>3 DEF Radon
  <2> QED
    BY <2>1, <2>2, <2>3
<1> QED
  BY <1>3, <1>5, <1>6, OneReport, NoReport, Zenon

\* What the parser of vulture makes of an entry are findings of vulture.
LEMMA VultureReports ==
  ASSUME NEW e, EntryOf("vulture", e)
  PROVE  Reports(Vulture(e), "vulture")
<1> DEFINE confidence == e.percent \div 10
<1>1. e.file \in Int /\ e.first \in Int /\ e.last \in Int /\ RuleOrder[e.rule] \in Int /\ confidence \in 0..10
  BY RuleAssumption DEF EntryOf
<1>2. Reporting(Found("vulture", e, e.rule, "maintainability", Low, confidence), "vulture")
  <2> HIDE DEF confidence
  <2> QED
    BY <1>1, SeverityTypes, CategoryNames, FoundReports
<1>3. Vulture(e) = <<Found("vulture", e, e.rule, "maintainability", Low, confidence)>>
  BY DEF Vulture
<1> QED
  BY <1>2, <1>3, OneReport, Zenon

\* What the parser of lizard makes of an entry are findings of lizard.
LEMMA LizardReports ==
  ASSUME NEW e, EntryOf("lizard", e)
  PROVE  Reports(Lizard(e), "lizard")
<1> DEFINE f(rule) == Found("lizard", e, rule, "maintainability", Low, 10)
           If(test, rule) == IF test THEN <<f(rule)>> ELSE <<>>
<1>1. e.file \in Int /\ e.first \in Int /\ e.last \in Int /\ 10 \in 0..10
  BY DEF EntryOf
<1>2. ASSUME NEW rule \in OwnRules, NEW test
      PROVE  Reports(If(test, rule), "lizard")
  <2>1. Reporting(f(rule), "lizard")
    BY <1>1, OwnRulesOrdered, SeverityTypes, CategoryNames, FoundReports
  <2>2. If(test, rule) = <<f(rule)>> \/ If(test, rule) = <<>>
    OBVIOUS
  <2> QED
    BY <2>1, <2>2, OneReport, NoReport, Zenon
<1> DEFINE a == If(e.complexity > MaxComplexity /\ ~ e.python, "function-complexity")
           b == If(e.length > MaxLength, "long-function")
           c == If(e.parameters > MaxParameters, "too-many-parameters")
<1>3. Lizard(e) = (a \o b) \o c
  BY DEF Lizard
<1>4. Reports(a, "lizard") /\ Reports(b, "lizard") /\ Reports(c, "lizard")
  BY <1>2, Zenon DEF OwnRules
<1> HIDE DEF a, b, c
<1> QED
  BY <1>3, <1>4, MoreReports, Zenon

\* What the parser of detect-secrets makes of an entry are findings of detect-secrets.
LEMMA DetectSecretsReports ==
  ASSUME NEW e, EntryOf("detect-secrets", e)
  PROVE  Reports(DetectSecrets(e), "detect-secrets")
<1> DEFINE severity == IF e.test THEN Medium ELSE High
           confidence == IF e.heuristic THEN 6 ELSE 9
           f == Found("detect-secrets", e, e.rule, "security", severity, confidence)
<1>1. /\ e.file \in Int /\ e.first \in Int /\ e.last \in Int /\ RuleOrder[e.rule] \in Int
      /\ severity \in Severities /\ confidence \in 0..10
  BY RuleAssumption, SeverityTypes DEF EntryOf
<1>2. Reporting(f, "detect-secrets")
  <2> HIDE DEF severity, confidence
  <2> QED
    BY <1>1, CategoryNames, FoundReports
<1>3. Reporting([f EXCEPT !.redacted = TRUE], "detect-secrets")
  BY <1>2, ChangedReports, Zenon
<1>4. DetectSecrets(e) = <<[f EXCEPT !.redacted = TRUE]>>
  BY DEF DetectSecrets
<1> QED
  BY <1>3, <1>4, OneReport, Zenon

\* What the parser of opengrep makes of an entry are findings of opengrep.
LEMMA OpengrepReports ==
  ASSUME NEW e, EntryOf("opengrep", e)
  PROVE  Reports(Opengrep(e), "opengrep")
<1> DEFINE category == IF e.category \in Categories THEN e.category ELSE "security"
           severity ==
             CASE e.severity = "ERROR" -> High [] e.severity = "WARNING" -> Medium [] OTHER -> Low
           confidence ==
             CASE e.confidence = "high" -> 9 [] e.confidence = "low" -> 5 [] OTHER -> 7
           f == Found("opengrep", e, e.rule, category, severity, confidence)
<1>1. e.file \in Int /\ e.first \in Int /\ e.last \in Int /\ RuleOrder[e.rule] \in Int
  BY RuleAssumption DEF EntryOf
<1>2. severity \in Severities /\ category \in Categories
  BY SeverityTypes, CategoryNames
<1>3. confidence \in 0..10
  OBVIOUS
<1>4. Reporting(f, "opengrep")
  <2> HIDE DEF category, severity, confidence
  <2> QED
    BY <1>1, <1>2, <1>3, CategoryNames, FoundReports
<1>5. Opengrep(e) = <<f>>
  BY DEF Opengrep
<1> QED
  BY <1>4, <1>5, OneReport, Zenon

\* The analyzers.
Tools == Range(Analyzers)

\* The analyzers.
LEMMA ToolNames ==
  Tools = {"ruff", "bandit", "mypy", "radon", "vulture", "lizard", "detect-secrets", "opengrep"}
BY DEF Tools, Range, Analyzers

\* What the parser of any analyzer makes of an entry are findings of that analyzer.
LEMMA EntryReports ==
  ASSUME NEW tool \in Tools, NEW e, EntryOf(tool, e)
  PROVE  Reports(EntryFindings(tool, e), tool)
<1>1. CASE tool = "ruff"
  <2>1. EntryFindings("ruff", e) = Ruff(e)
    BY DEF EntryFindings
  <2> QED
    BY <1>1, <2>1, RuffReports
<1>2. CASE tool = "bandit"
  <2>1. EntryFindings("bandit", e) = Bandit(e)
    BY DEF EntryFindings
  <2> QED
    BY <1>2, <2>1, BanditReports
<1>3. CASE tool = "mypy"
  <2>1. EntryFindings("mypy", e) = Mypy(e)
    BY DEF EntryFindings
  <2> QED
    BY <1>3, <2>1, MypyReports
<1>4. CASE tool = "radon"
  <2>1. EntryFindings("radon", e) = Radon(e)
    BY DEF EntryFindings
  <2> QED
    BY <1>4, <2>1, RadonReports
<1>5. CASE tool = "vulture"
  <2>1. EntryFindings("vulture", e) = Vulture(e)
    BY DEF EntryFindings
  <2> QED
    BY <1>5, <2>1, VultureReports
<1>6. CASE tool = "lizard"
  <2>1. EntryFindings("lizard", e) = Lizard(e)
    BY DEF EntryFindings
  <2> QED
    BY <1>6, <2>1, LizardReports
<1>7. CASE tool = "detect-secrets"
  <2>1. EntryFindings("detect-secrets", e) = DetectSecrets(e)
    BY DEF EntryFindings
  <2> QED
    BY <1>7, <2>1, DetectSecretsReports
<1>8. CASE tool = "opengrep"
  <2>1. EntryFindings("opengrep", e) = Opengrep(e)
    BY DEF EntryFindings
  <2> QED
    BY <1>8, <2>1, OpengrepReports
<1> QED
  BY <1>1, <1>2, <1>3, <1>4, <1>5, <1>6, <1>7, <1>8, ToolNames

\* The findings of entry i of a tool's output.
EntryIds(s, tool, i) == \A x \in Range(s) : \E n : x.id = <<tool, i, n>>

\* Parsed gives every finding of an entry an id of its own.
LEMMA ParsedReports ==
  ASSUME NEW tool \in Tools, NEW i, NEW e, EntryOf(tool, e)
  PROVE  /\ Reports(Parsed(tool, i, e), tool)
         /\ EntryIds(Parsed(tool, i, e), tool, i)
         /\ DistinctIds(Parsed(tool, i, e))
<1>1. CASE e.file = NoFile
  <2>1. Parsed(tool, i, e) = <<>>
    BY <1>1 DEF Parsed
  <2>2. Range(<<>>) = {} /\ Len(<<>>) = 0 /\ 1..0 = {}
    BY EmptyIsList
  <2> QED
    BY <2>1, <2>2, NoReport DEF EntryIds, DistinctIds
<1>2. CASE e.file # NoFile
  <2> DEFINE found == EntryFindings(tool, e)
             s == [n \in DOMAIN found |-> [found[n] EXCEPT !.id = <<tool, i, n>>]]
             N == Len(found)
  <2>1. s = Parsed(tool, i, e)
    BY <1>2 DEF Parsed
  <2>2. Reports(found, tool)
    BY EntryReports, Zenon
  <2>3. N \in Nat /\ DOMAIN found = 1..N
    BY <2>2, ListElements, Zenon DEF Reports
  <2>4. \A n \in 1..N : Reporting(found[n], tool)
    BY <2>2, Zenon DEF Reports
  <2> HIDE DEF found, N
  <2>5. s = [n \in 1..N |-> s[n]]
    BY <2>3
  <2>6. IsList(s) /\ Len(s) = N
    BY <2>3, <2>5, ListByShape, Zenon
  <2>7. \A n \in 1..N : s[n] = [found[n] EXCEPT !.id = <<tool, i, n>>]
    BY <2>3
  <2>8. \A n \in 1..N : s[n].id = <<tool, i, n>>
    <3> TAKE n \in 1..N
    <3>1. "id" \in DOMAIN found[n]
      BY <2>4 DEF Reporting, Fields
    <3>2. s[n] = [found[n] EXCEPT !.id = <<tool, i, n>>]
      BY <2>7, Zenon
    <3> QED
      BY <3>1, <3>2, Zenon
  <2>9. \A n \in 1..N : Reporting(s[n], tool)
    <3> TAKE n \in 1..N
    <3> DEFINE f == found[n]
               v == <<tool, i, n>>
    <3>1. Reporting(f, tool)
      BY <2>4
    <3>2. s[n] = [f EXCEPT !.id = v]
      BY <2>7
    <3> HIDE DEF f, v, s
    <3>3. Reporting([f EXCEPT !.id = v], tool)
      BY <3>1, ChangedReports, Zenon
    <3> QED
      BY <3>2, <3>3
  <2> HIDE DEF s
  <2>10. EntryIds(s, tool, i)
    <3> SUFFICES ASSUME NEW x \in Range(s)
                 PROVE  \E n : x.id = <<tool, i, n>>
      BY DEF EntryIds
    <3>1. PICK n \in 1..N : s[n] = x
      BY <2>6, InRange, Zenon
    <3> QED
      BY <3>1, <2>8
  <2>11. DistinctIds(s)
    <3> SUFFICES ASSUME NEW m \in 1..N, NEW n \in 1..N, s[m].id = s[n].id
                 PROVE  m = n
      BY <2>6 DEF DistinctIds
    <3>1. <<tool, i, m>> = <<tool, i, n>>
      BY <2>8, Zenon
    <3> QED
      BY <3>1
  <2> QED
    BY <2>1, <2>6, <2>9, <2>10, <2>11, Zenon DEF Reports
<1> QED
  BY <1>1, <1>2

\* The list of findings that a tool has reported.
ToolFindings(s, tool) ==
  /\ Reports(s, tool)
  /\ DistinctIds(s)
  /\ \A x \in Range(s) : \E i, n : x.id = <<tool, i, n>>

\* No findings, of any analyzer.
LEMMA NoToolFindings ==
  ASSUME NEW tool
  PROVE  ToolFindings(<<>>, tool)
<1>1. Range(<<>>) = {} /\ Len(<<>>) = 0 /\ 1..0 = {}
  BY EmptyIsList
<1> QED
  BY <1>1, NoReport DEF ToolFindings, DistinctIds

\* The findings of an analyzer's result are findings of that analyzer, with distinct ids.
LEMMA ResultFindings ==
  ASSUME NEW tool \in Tools, NEW output, OutputOf(tool, output)
  PROVE  ToolFindings(Result(tool, output).findings, tool)
<1>1. CASE Status(tool, output) # "ok"
  <2>1. Result(tool, output).findings = <<>>
    BY <1>1 DEF Result, NoResult
  <2> QED
    BY <2>1, NoToolFindings
<1>2. CASE Status(tool, output) = "ok"
  <2> DEFINE es == output.entries
             p == [i \in DOMAIN es |-> Parsed(tool, i, es[i])]
             N == Len(es)
             s == FlattenSeq(p)
  <2>1. Result(tool, output).findings = s
    BY <1>2 DEF Result
  <2>2. N \in Nat /\ DOMAIN es = 1..N /\ \A i \in 1..N : EntryOf(tool, es[i])
    BY ListElements, Zenon DEF OutputOf
  <2> HIDE DEF es, N
  <2>3. p = [i \in 1..N |-> p[i]] /\ \A i \in 1..N : p[i] = Parsed(tool, i, es[i])
    BY <2>2
  <2>4. \A i \in 1..N : Reports(p[i], tool) /\ EntryIds(p[i], tool, i) /\ DistinctIds(p[i])
    BY <2>2, <2>3, ParsedReports, Zenon
  <2> HIDE DEF p
  <2>5. IsList(p) /\ Len(p) = N
    BY <2>2, <2>3, ListByShape, Zenon
  <2>6. \A i \in 1..N : IsList(p[i])
    BY <2>4, Zenon DEF Reports
  <2>7. /\ IsList(s)
        /\ \A x : x \in Range(s) <=> \E i \in 1..N : x \in Range(p[i])
        /\ /\ \A i \in 1..N : DistinctIds(p[i])
           /\ \A i, j \in 1..N : i # j => \A x \in Range(p[i]), y \in Range(p[j]) : x.id # y.id
           => DistinctIds(s)
    BY <2>5, <2>6, Flattened, Zenon
  <2>8. \A i, j \in 1..N : i # j => \A x \in Range(p[i]), y \in Range(p[j]) : x.id # y.id
    <3> SUFFICES ASSUME NEW i \in 1..N, NEW j \in 1..N, i # j,
                        NEW x \in Range(p[i]), NEW y \in Range(p[j]), x.id = y.id
                 PROVE  FALSE
      OBVIOUS
    <3>1. PICK m : x.id = <<tool, i, m>>
      BY <2>4, Zenon DEF EntryIds
    <3>2. PICK n : y.id = <<tool, j, n>>
      BY <2>4, Zenon DEF EntryIds
    <3>3. <<tool, i, m>> = <<tool, j, n>>
      BY <3>1, <3>2, Zenon
    <3> QED
      BY <3>3
  <2>9. DistinctIds(s)
    BY <2>4, <2>7, <2>8, Zenon
  <2>10. \A x \in Range(s) : /\ \E i, n : x.id = <<tool, i, n>>
                             /\ Reporting(x, tool)
    <3> TAKE x \in Range(s)
    <3>1. PICK i \in 1..N : x \in Range(p[i])
      BY <2>7
    <3>2. \E n : x.id = <<tool, i, n>>
      BY <3>1, <2>4, Zenon DEF EntryIds
    <3>3. PICK k \in 1..Len(p[i]) : p[i][k] = x
      BY <3>1, <2>6, InRange, Zenon
    <3>4. Reporting(x, tool)
      BY <3>3, <2>4, Zenon DEF Reports
    <3> QED
      BY <3>2, <3>4, Zenon
  <2>11. Reports(s, tool)
    BY <2>7, <2>10, InRange, Zenon DEF Reports
  <2> QED
    BY <2>1, <2>9, <2>10, <2>11, Zenon DEF ToolFindings
<1> QED
  BY <1>1, <1>2

-----------------------------------------------------------------------------
(* Buckets: which findings deduplicate puts together (StaticAnalysis).     *)

\* h[i] are the buckets after i findings.
PlacedRun(h, base, s, N) ==
  /\ h[0] = base
  /\ \A i \in 1..N : h[i] = Placed(h[i - 1], s[i])
  /\ FoldedOver(Placed, base, s) = h[N]

\* Deduplicate puts one finding after the other into a bucket: the buckets after each.
LEMMA PlacedTrace ==
  ASSUME NEW base, NEW s, NEW N \in Nat, N = Len(s)
  PROVE  \E h : PlacedRun(h, base, s, N)
<1> DEFINE Step(x, n) == CHOOSE y \in {Placed(z, s[n]) : z \in {x}} : TRUE
           Rec(h, n) == h = [i \in 0..n |-> IF i = 0 THEN base ELSE Step(h[i - 1], i)]
           T == {n \in 0..N : \E h : Rec(h, n)}
<1>1. \A x, n : Step(x, n) = Placed(x, s[n])
  <2> TAKE x, n
  <2> DEFINE y == Placed(x, s[n])
  <2>1. {Placed(z, s[n]) : z \in {x}} = {y}
    OBVIOUS
  <2> HIDE DEF y
  <2>2. (CHOOSE z \in {y} : TRUE) = y
    OBVIOUS
  <2> QED
    BY <2>1, <2>2, Zenon DEF y
<1> HIDE DEF Step
<1>2. 0 \in T
  <2> DEFINE h == [i \in 0..0 |-> base]
  <2>1. Rec(h, 0)
    OBVIOUS
  <2> HIDE DEF h, Rec
  <2> QED
    BY <2>1
<1>3. ASSUME NEW n \in 0..(N - 1), n \in T PROVE n + 1 \in T
  <2>1. n \in Nat /\ n + 1 \in 0..N
    OBVIOUS
  <2>2. PICK h : Rec(h, n)
    BY <1>3, Zenon
  <2> DEFINE g == [i \in 0..(n + 1) |-> IF i = 0 THEN base ELSE Step(h[i - 1], i)]
  <2>3. ASSUME NEW i \in 0..(n + 1), i # 0 PROVE g[i - 1] = h[i - 1]
    <3>1. i - 1 \in 0..n /\ i - 1 \in 0..(n + 1)
      BY <2>1, <2>3
    <3>2. g[i - 1] = IF i - 1 = 0 THEN base ELSE Step(h[i - 1 - 1], i - 1)
      BY <3>1, Zenon
    <3>3. h[i - 1] = IF i - 1 = 0 THEN base ELSE Step(h[i - 1 - 1], i - 1)
      BY <2>2, <3>1, Zenon
    <3> QED
      BY <3>2, <3>3, Zenon
  <2>4. \A i \in 0..(n + 1) : (IF i = 0 THEN base ELSE Step(h[i - 1], i))
                                = IF i = 0 THEN base ELSE Step(g[i - 1], i)
    <3> HIDE DEF g
    <3> QED
      BY <2>3, Zenon
  <2>5. Rec(g, n + 1)
    <3>1. g = [i \in 0..(n + 1) |-> IF i = 0 THEN base ELSE Step(h[i - 1], i)]
      OBVIOUS
    <3> HIDE DEF g
    <3> QED
      BY <2>4, <3>1
  <2> HIDE DEF g, Rec
  <2> QED
    BY <2>1, <2>5, Zenon
<1>4. N \in T
  <2> HIDE DEF T
  <2>1. \A k \in 0..N : k \in T
    BY <1>2, <1>3, UpTo
  <2> QED
    BY <2>1
<1> DEFINE h == CHOOSE h : Rec(h, N)
<1>5. Rec(h, N)
  <2>1. \E g : Rec(g, N)
    BY <1>4, Zenon
  <2> HIDE DEF Rec
  <2> QED
    BY <2>1, Zenon
<1>6. FoldedOver(Placed, base, s) = h[N]
  BY Zenon DEF FoldedOver, Step
<1> HIDE DEF h
<1>7. 0 \in 0..N /\ \A i \in 1..N : i \in 0..N /\ i # 0
  OBVIOUS
<1>8. h[0] = base
  BY <1>5, <1>7
<1>9. ASSUME NEW i \in 1..N PROVE h[i] = Placed(h[i - 1], s[i])
  <2>1. i \in 0..N /\ i # 0
    BY <1>7, Zenon
  <2>2. h[i] = IF i = 0 THEN base ELSE Step(h[i - 1], i)
    BY <1>5, <2>1, Zenon
  <2> QED
    BY <2>1, <2>2, <1>1, Zenon
<1> QED
  BY <1>6, <1>8, <1>9 DEF PlacedRun

\* What r is, that consists of the lists a and b.
Joins(r, a, b) ==
  /\ IsList(r)
  /\ Len(r) = Len(a) + Len(b)
  /\ \A i \in 1..Len(a) : r[i] = a[i]
  /\ \A i \in 1..Len(b) : r[Len(a) + i] = b[i]

\* Concatenation joins two lists.
LEMMA ConcatJoins ==
  ASSUME NEW a, IsList(a), NEW b, IsList(b)
  PROVE  Joins(a \o b, a, b)
BY ConcatList DEF Joins

\* What r is, that consists of the list a, x and the list c.
JoinsAround(r, a, x, c) ==
  /\ IsList(r)
  /\ Len(r) = Len(a) + 1 + Len(c)
  /\ \A i \in 1..Len(a) : r[i] = a[i]
  /\ r[Len(a) + 1] = x
  /\ \A i \in 1..Len(c) : r[Len(a) + 1 + i] = c[i]

\* An element between two lists.
LEMMA JoinedAround ==
  ASSUME NEW a, IsList(a), NEW x, NEW c, IsList(c)
  PROVE  JoinsAround((a \o <<x>>) \o c, a, x, c)
<1>1. PICK y : y = <<x>>
  OBVIOUS
<1>2. IsList(y) /\ Len(y) = 1 /\ y[1] = x
  <2>1. y \in Seq({x}) /\ Len(y) = 1 /\ y[1] = x
    BY <1>1
  <2> QED
    BY <2>1, SeqIsList, Zenon
<1>3. PICK b : b = a \o y
  OBVIOUS
<1>4. Joins(b, a, y)
  BY <1>2, <1>3, ConcatJoins, Zenon
<1>5. PICK r : r = b \o c
  OBVIOUS
<1>6. Joins(r, b, c)
  <2>1. IsList(b)
    BY <1>4 DEF Joins
  <2> QED
    BY <2>1, <1>5, ConcatJoins, Zenon
<1>7. Len(a) \in Nat /\ Len(c) \in Nat
  BY ListElements, Zenon
<1>8. JoinsAround(r, a, x, c)
  BY <1>2, <1>4, <1>6, <1>7 DEF Joins, JoinsAround
<1> QED
  BY <1>1, <1>3, <1>5, <1>8, Zenon

\* InsertAt puts an element at a place and moves what is behind it by one.
LEMMA InsertList ==
  ASSUME NEW s, IsList(s), NEW p \in 1..(Len(s) + 1), NEW x
  PROVE  /\ IsList(InsertAt(s, p, x))
         /\ Len(InsertAt(s, p, x)) = Len(s) + 1
         /\ \A i \in 1..(p - 1) : InsertAt(s, p, x)[i] = s[i]
         /\ InsertAt(s, p, x)[p] = x
         /\ \A i \in (p + 1)..(Len(s) + 1) : InsertAt(s, p, x)[i] = s[i - 1]
<1> DEFINE S == Range(s)
           a == SubSeq(s, 1, p - 1)
           c == SubSeq(s, p, Len(s))
           r == (a \o <<x>>) \o c
           N == Len(s)
<1>1. s \in Seq(S) /\ N \in Nat
  BY ListElements DEF IsList
<1>2. p - 1 \in Nat /\ p - 1 <= N
  BY <1>1
<1>3. IsList(a) /\ Len(a) = p - 1 /\ \A i \in 1..(p - 1) : a[i] = s[i]
  <2> DEFINE m == p - 1
  <2> HIDE DEF m
  <2>1. m \in Nat /\ m <= Len(s)
    BY <1>2 DEF m
  <2>2. IsList(SubSeq(s, 1, m)) /\ Len(SubSeq(s, 1, m)) = m /\ \A i \in 1..m : SubSeq(s, 1, m)[i] = s[i]
    BY <2>1, PrefixList, Zenon
  <2> QED
    BY <2>2, Zenon DEF m
<1>4. c \in Seq(S) /\ Len(c) = N - p + 1 /\ \A j \in 1..(N - p + 1) : c[j] = s[p + j - 1]
  <2> HIDE DEF S
  <2> QED
    BY <1>1
<1> HIDE DEF S, a, c
<1>5. IsList(c)
  BY <1>4, SeqIsList, Zenon
<1>6. /\ IsList(r)
      /\ Len(r) = Len(a) + 1 + Len(c)
      /\ \A i \in 1..Len(a) : r[i] = a[i]
      /\ r[Len(a) + 1] = x
      /\ \A i \in 1..Len(c) : r[Len(a) + 1 + i] = c[i]
  <2>1. JoinsAround(r, a, x, c)
    BY <1>3, <1>5, JoinedAround, Zenon
  <2> QED
    BY <2>1 DEF JoinsAround
<1>9. r = InsertAt(s, p, x)
  BY DEF InsertAt, a, c
<1> HIDE DEF r
<1>10. Len(r) = N + 1 /\ r[p] = x /\ \A i \in 1..(p - 1) : r[i] = s[i]
  BY <1>1, <1>3, <1>4, <1>6
<1>11. ASSUME NEW i \in (p + 1)..(N + 1) PROVE r[i] = s[i - 1]
  <2> DEFINE j == i - p
  <2>1. j \in 1..Len(c) /\ p + j = i /\ j \in 1..(N - p + 1) /\ p + j - 1 = i - 1
    BY <1>1, <1>4
  <2> HIDE DEF j
  <2>2. r[p + j] = c[j] /\ c[j] = s[p + j - 1]
    BY <1>3, <1>4, <1>6, <2>1
  <2> QED
    BY <2>1, <2>2
<1> QED
  BY <1>6, <1>9, <1>10, <1>11, Zenon

\* FirstOf is the least of a set of numbers.
LEMMA FirstIs ==
  ASSUME NEW I \in SUBSET Nat, I # {}
  PROVE  FirstOf(I) \in I /\ \A i \in I : FirstOf(I) <= i
BY LeastNatural DEF FirstOf

\* The largest of some places is one of them.
LEMMA MaxIs ==
  ASSUME NEW N \in Nat, NEW I \in SUBSET (1..N), I # {}
  PROVE  Max(I) \in I
<1> DEFINE T == {N - i : i \in I}
<1>1. T \in SUBSET Nat /\ T # {}
  <2>1. \A i \in I : N - i \in Nat
    OBVIOUS
  <2>2. PICK i : i \in I
    OBVIOUS
  <2>3. N - i \in T
    BY <2>2
  <2> QED
    BY <2>1, <2>3
<1>2. PICK m \in T : \A n \in T : m <= n
  BY <1>1, LeastNatural, Zenon
<1>3. PICK x \in I : m = N - x
  BY <1>2
<1>4. \A y \in I : x >= y
  <2> TAKE y \in I
  <2>1. N - y \in T
    BY Zenon
  <2>2. m <= N - y
    BY <1>2, <2>1, Zenon
  <2> QED
    BY <1>3, <2>2
<1> HIDE DEF T
<1>5. \E z \in I : \A y \in I : z >= y
  BY <1>4, Zenon
<1> QED
  BY <1>5, Zenon DEF Max

\* Buckets of the first n elements of s, all of them, none empty, none sharing an
\* element and each about one place.
Buckets(b, s, n) ==
  /\ IsList(b)
  /\ \A k \in 1..Len(b) : /\ IsList(b[k]) /\ Len(b[k]) # 0
                          /\ \A x \in Range(b[k]) : \E i \in 1..n : s[i] = x
  /\ \A k, l \in 1..Len(b) : k # l => \A x \in Range(b[k]) : x \notin Range(b[l])
  /\ \A k \in 1..Len(b) : \A x, y \in Range(b[k]) : x.file = y.file /\ x.first = y.first
  /\ \A i \in 1..n : \E k \in 1..Len(b) : s[i] \in Range(b[k])

\* The next finding is in no bucket yet.
LEMMA NewElement ==
  ASSUME NEW s, DistinctIds(s), NEW n \in 0..(Len(s) - 1), Len(s) \in Nat,
         NEW b, Buckets(b, s, n)
  PROVE  \A k \in 1..Len(b) : s[n + 1] \notin Range(b[k])
<1> SUFFICES ASSUME NEW k \in 1..Len(b), s[n + 1] \in Range(b[k])
             PROVE  FALSE
  OBVIOUS
<1> DEFINE m == n + 1
<1>1. m \in 1..Len(s) /\ \A i \in 1..n : i \in 1..Len(s) /\ i # m
  OBVIOUS
<1> HIDE DEF m
<1>2. s[m] \in Range(b[k])
  BY DEF m
<1>3. PICK i \in 1..n : s[i] = s[m]
  BY <1>2, Zenon DEF Buckets
<1>4. s[i].id = s[m].id
  BY <1>3
<1> QED
  BY <1>1, <1>4, Zenon DEF DistinctIds

\* The next finding joins a bucket.
LEMMA JoinedBucket ==
  ASSUME NEW s, DistinctIds(s), NEW n \in 0..(Len(s) - 1), Len(s) \in Nat,
         NEW b, Buckets(b, s, n), NEW p \in 1..Len(b), SamePlace(b[p][1], s[n + 1])
  PROVE  Buckets([b EXCEPT ![p] = Append(@, s[n + 1])], s, n + 1)
<1> DEFINE f == s[n + 1]
           c == [b EXCEPT ![p] = Append(@, f)]
           N == Len(b)
<1>1. N \in Nat /\ DOMAIN b = 1..N
  BY ListElements, Zenon DEF Buckets
<1>2. IsList(b[p]) /\ Len(b[p]) \in Nat
  BY ListElements, Zenon DEF Buckets
<1> DEFINE a == Append(b[p], f)
<1>3. IsList(a) /\ Len(a) = Len(b[p]) + 1 /\ Range(a) = Range(b[p]) \cup {f}
  BY <1>2, AppendList
<1>4. \A k \in 1..N : f \notin Range(b[k])
  BY NewElement
<1>5. f = s[n + 1] /\ n + 1 \in 1..(n + 1) /\ \A i \in 1..n : i \in 1..(n + 1)
  OBVIOUS
<1> HIDE DEF f
<1>6. c = [k \in 1..N |-> c[k]] /\ c[p] = a /\ \A k \in 1..N : k # p => c[k] = b[k]
  BY <1>1
<1> HIDE DEF c, a
<1>7. IsList(c) /\ Len(c) = N
  BY <1>1, <1>6, ListByShape, Zenon
<1>8. ASSUME NEW k \in 1..N
      PROVE  /\ IsList(c[k]) /\ Len(c[k]) # 0
             /\ \A x \in Range(c[k]) : \E i \in 1..(n + 1) : s[i] = x
  <2>1. CASE k = p
    <3>1. IsList(c[k]) /\ Len(c[k]) # 0
      BY <2>1, <1>2, <1>3, <1>6
    <3>2. ASSUME NEW x \in Range(c[k]) PROVE \E i \in 1..(n + 1) : s[i] = x
      <4>1. x \in Range(b[p]) \/ x = f
        BY <2>1, <1>3, <1>6
      <4>2. CASE x = f
        BY <4>2, <1>5
      <4>3. CASE x \in Range(b[p])
        BY <4>3, <1>5, Zenon DEF Buckets
      <4> QED
        BY <4>1, <4>2, <4>3
    <3> QED
      BY <3>1, <3>2
  <2>2. CASE k # p
    <3>1. c[k] = b[k]
      BY <2>2, <1>6
    <3> QED
      BY <3>1, <1>5, Zenon DEF Buckets
  <2> QED
    BY <2>1, <2>2
<1>9. ASSUME NEW k \in 1..N, NEW l \in 1..N, k # l, NEW x \in Range(c[k])
      PROVE  x \notin Range(c[l])
  <2>1. /\ Range(c[k]) = Range(b[k]) \/ (k = p /\ Range(c[k]) = Range(b[k]) \cup {f})
        /\ Range(c[l]) = Range(b[l]) \/ (l = p /\ Range(c[l]) = Range(b[l]) \cup {f})
    <3>1. ASSUME NEW m \in 1..N
          PROVE  Range(c[m]) = Range(b[m]) \/ (m = p /\ Range(c[m]) = Range(b[m]) \cup {f})
      <4>1. CASE m = p
        <5>1. c[m] = a /\ b[m] = b[p]
          BY <4>1, <1>6, Zenon
        <5> QED
          BY <4>1, <5>1, <1>3, Zenon
      <4>2. CASE m # p
        <5>1. c[m] = b[m]
          BY <4>2, <1>6
        <5> QED
          BY <5>1
      <4> QED
        BY <4>1, <4>2
    <3> QED
      BY <3>1, <1>9
  <2>2. \A y \in Range(b[k]) : y \notin Range(b[l])
    BY <1>9, Zenon DEF Buckets
  <2> QED
    BY <2>1, <2>2, <1>4, <1>9
<1>10. \A k \in 1..N : k = p \/ c[k] = b[k]
  BY <1>6, Zenon
<1>11. c[p] = a /\ Range(a) = Range(b[p]) \cup {f}
  BY <1>3, <1>6, Zenon
<1>12. ASSUME NEW x \in Range(a) PROVE x.file = f.file /\ x.first = f.first
  <2>1. b[p][1] \in Range(b[p])
    <3>1. 1 \in 1..Len(b[p])
      <4>1. Len(b[p]) # 0
        BY Zenon DEF Buckets
      <4> QED
        BY <1>2, <4>1
    <3> QED
      BY <1>2, <3>1, InRange, Zenon
  <2>2. b[p][1].file = f.file /\ b[p][1].first = f.first
    BY Zenon DEF SamePlace, f
  <2>3. \A y, z \in Range(b[p]) : y.file = z.file /\ y.first = z.first
    BY Zenon DEF Buckets
  <2>4. x = f \/ x \in Range(b[p])
    BY <1>11, <1>12
  <2> QED
    BY <2>1, <2>2, <2>3, <2>4
<1>13. ASSUME NEW k \in 1..N, NEW x \in Range(c[k]), NEW y \in Range(c[k])
       PROVE  x.file = y.file /\ x.first = y.first
  <2>1. CASE k = p
    BY <1>11, <1>12, <1>13, <2>1
  <2>2. CASE k # p
    <3>1. x \in Range(b[k]) /\ y \in Range(b[k])
      BY <1>10, <1>13, <2>2
    <3> QED
      BY <3>1, Zenon DEF Buckets
  <2> QED
    BY <2>1, <2>2
<1>14. ASSUME NEW i \in 1..(n + 1) PROVE \E k \in 1..N : s[i] \in Range(c[k])
  <2>1. CASE i \in 1..n
    <3>1. PICK k \in 1..N : s[i] \in Range(b[k])
      BY <2>1, Zenon DEF Buckets
    <3>2. s[i] \in Range(c[k])
      BY <1>10, <1>11, <3>1
    <3> QED
      BY <3>2
  <2>2. CASE i = n + 1
    BY <1>5, <1>11, <2>2
  <2> QED
    BY <2>1, <2>2
<1> QED
  BY <1>7, <1>8, <1>9, <1>13, <1>14 DEF Buckets, c, f

\* Where a new bucket stands does not matter.
LEMMA NewBucket ==
  ASSUME NEW s, DistinctIds(s), NEW n \in 0..(Len(s) - 1), Len(s) \in Nat,
         NEW b, Buckets(b, s, n), NEW p \in 1..(Len(b) + 1)
  PROVE  Buckets(InsertAt(b, p, <<s[n + 1]>>), s, n + 1)
<1> DEFINE f == s[n + 1]
           y == <<f>>
           c == InsertAt(b, p, y)
           N == Len(b)
           old(k) == IF k < p THEN k ELSE k - 1
<1>1. N \in Nat
  BY ListElements, Zenon DEF Buckets
<1>2. \A k \in 1..N : f \notin Range(b[k])
  BY NewElement
<1>3. f = s[n + 1] /\ n + 1 \in 1..(n + 1) /\ \A i \in 1..n : i \in 1..(n + 1)
  OBVIOUS
<1> HIDE DEF f
<1>4. IsList(y) /\ Len(y) = 1 /\ Range(y) = {f}
  <2>1. y \in Seq({f}) /\ Len(y) = 1 /\ Range(y) = {f}
    BY DEF Range
  <2> QED
    BY <2>1, SeqIsList, Zenon
<1> HIDE DEF y
<1>5. /\ IsList(c) /\ Len(c) = N + 1
      /\ \A i \in 1..(p - 1) : c[i] = b[i]
      /\ c[p] = y
      /\ \A i \in (p + 1)..(N + 1) : c[i] = b[i - 1]
  <2>1. IsList(b)
    BY Zenon DEF Buckets
  <2> QED
    BY <2>1, InsertList
<1> HIDE DEF c
<1>6. ASSUME NEW k \in 1..(N + 1), k # p
      PROVE  old(k) \in 1..N /\ c[k] = b[old(k)]
  BY <1>1, <1>5, <1>6
<1>7. \A k, l \in 1..(N + 1) : k # p /\ l # p /\ k # l => old(k) # old(l)
  BY <1>1
<1> HIDE DEF old
<1>8. ASSUME NEW k \in 1..(N + 1)
      PROVE  /\ IsList(c[k]) /\ Len(c[k]) # 0
             /\ \A x \in Range(c[k]) : \E i \in 1..(n + 1) : s[i] = x
  <2>1. CASE k = p
    <3>1. c[k] = y
      BY <2>1, <1>5, Zenon
    <3>2. IsList(y) /\ Len(y) # 0
      BY <1>4
    <3>3. ASSUME NEW x \in Range(y) PROVE s[n + 1] = x
      BY <3>3, <1>3, <1>4, Zenon
    <3>4. \A x \in Range(y) : \E i \in 1..(n + 1) : s[i] = x
      BY <1>3, <3>3, Zenon
    <3> QED
      BY <3>1, <3>2, <3>4, Zenon
  <2>2. CASE k # p
    <3>1. PICK j \in 1..N : c[k] = b[j]
      BY <2>2, <1>6
    <3> QED
      BY <3>1, <1>3, Zenon DEF Buckets
  <2> QED
    BY <2>1, <2>2
<1>9. ASSUME NEW k \in 1..(N + 1), NEW l \in 1..(N + 1), k # l, NEW x \in Range(c[k])
      PROVE  x \notin Range(c[l])
  <2>1. CASE k # p /\ l # p
    <3> DEFINE i == old(k)
               j == old(l)
    <3>1. i \in 1..N /\ j \in 1..N /\ i # j /\ c[k] = b[i] /\ c[l] = b[j]
      BY <2>1, <1>6, <1>7, <1>9
    <3> HIDE DEF i, j
    <3>2. \A z \in Range(b[i]) : z \notin Range(b[j])
      BY <3>1, Zenon DEF Buckets
    <3> QED
      BY <3>1, <3>2, <1>9
  <2>2. CASE k = p
    <3>1. PICK j \in 1..N : c[l] = b[j]
      BY <2>2, <1>6, <1>9
    <3>2. x = f
      BY <2>2, <1>4, <1>5, <1>9
    <3> QED
      BY <3>1, <3>2, <1>2
  <2>3. CASE l = p
    <3>1. PICK j \in 1..N : c[k] = b[j]
      BY <2>3, <1>6, <1>9
    <3>2. x # f
      BY <3>1, <1>2, <1>9
    <3> QED
      BY <2>3, <3>2, <1>4, <1>5
  <2> QED
    BY <2>1, <2>2, <2>3
<1>10. ASSUME NEW k \in 1..(N + 1), NEW x \in Range(c[k]), NEW z \in Range(c[k])
       PROVE  x.file = z.file /\ x.first = z.first
  <2>1. CASE k = p
    BY <1>4, <1>5, <1>10, <2>1
  <2>2. CASE k # p
    <3>1. PICK j \in 1..N : c[k] = b[j]
      BY <2>2, <1>6
    <3>2. x \in Range(b[j]) /\ z \in Range(b[j])
      BY <1>10, <3>1
    <3> QED
      BY <3>2, Zenon DEF Buckets
  <2> QED
    BY <2>1, <2>2
<1>11. ASSUME NEW i \in 1..(n + 1) PROVE \E k \in 1..(N + 1) : s[i] \in Range(c[k])
  <2>1. CASE i \in 1..n
    <3>1. PICK j \in 1..N : s[i] \in Range(b[j])
      BY <2>1, Zenon DEF Buckets
    <3>2. j \in 1..(p - 1) \/ j + 1 \in (p + 1)..(N + 1)
      BY <1>1
    <3>3. \E k \in 1..(N + 1) : c[k] = b[j]
      <4>1. CASE j \in 1..(p - 1)
        BY <1>1, <1>5, <4>1
      <4>2. CASE j + 1 \in (p + 1)..(N + 1)
        <5>1. c[j + 1] = b[j + 1 - 1] /\ j + 1 - 1 = j /\ j + 1 \in 1..(N + 1)
          BY <1>1, <1>5, <4>2
        <5> QED
          BY <5>1
      <4> QED
        BY <3>2, <4>1, <4>2
    <3> QED
      BY <3>1, <3>3
  <2>2. CASE i = n + 1
    BY <1>3, <1>4, <1>5, <2>2
  <2> QED
    BY <2>1, <2>2
<1> QED
  BY <1>5, <1>8, <1>9, <1>10, <1>11 DEF Buckets, c, y, f

\* Placed puts the next finding into one bucket, an old one or one of its own.
LEMMA PlacedBuckets ==
  ASSUME NEW s, DistinctIds(s), NEW n \in 0..(Len(s) - 1), Len(s) \in Nat,
         NEW b, Buckets(b, s, n)
  PROVE  Buckets(Placed(b, s[n + 1]), s, n + 1)
<1> DEFINE f == s[n + 1]
           fitting == {i \in DOMAIN b : Fits(b[i], f)}
           here == {i \in DOMAIN b : SamePlace(b[i][1], f)}
           N == Len(b)
<1>1. N \in Nat /\ DOMAIN b = 1..N /\ IsList(b)
  BY ListElements, Zenon DEF Buckets
<1>2. fitting \in SUBSET (1..N) /\ here \in SUBSET (1..N)
  BY <1>1
<1>3. Placed(b, f) = IF fitting # {} THEN [b EXCEPT ![FirstOf(fitting)] = Append(@, f)]
                     ELSE IF here = {} THEN Append(b, <<f>>)
                     ELSE InsertAt(b, Max(here) + 1, <<f>>)
  BY Zenon DEF Placed
<1> HIDE DEF fitting, here
<1>4. CASE fitting # {}
  <2> DEFINE p == FirstOf(fitting)
  <2>1. p \in fitting /\ p \in 1..N
    <3>1. fitting \in SUBSET Nat
      BY <1>1, <1>2
    <3> QED
      BY <3>1, <1>2, <1>4, FirstIs
  <2> HIDE DEF p
  <2>4. SamePlace(b[p][1], f)
    BY <2>1 DEF fitting, Fits
  <2>2. Buckets([b EXCEPT ![p] = Append(@, f)], s, n + 1)
    BY <2>1, <2>4, JoinedBucket
  <2>3. Placed(b, f) = [b EXCEPT ![p] = Append(@, f)]
    BY <1>3, <1>4, Zenon DEF p
  <2> QED
    BY <2>2, <2>3
<1>5. CASE fitting = {} /\ here = {}
  <2>1. Placed(b, f) = Append(b, <<f>>)
    BY <1>3, <1>5, Zenon
  <2>2. Append(b, <<f>>) = InsertAt(b, N + 1, <<f>>)
    <3>1. PICK y : y = <<f>>
      OBVIOUS
    <3> DEFINE c == InsertAt(b, N + 1, y)
               a == Append(b, y)
    <3>2. /\ IsList(a) /\ Len(a) = N + 1
          /\ \A i \in 1..N : a[i] = b[i]
          /\ a[N + 1] = y
      BY <1>1, AppendList
    <3>3. N + 1 \in 1..(N + 1)
      BY <1>1
    <3>4. /\ IsList(c) /\ Len(c) = N + 1
          /\ \A i \in 1..(N + 1 - 1) : c[i] = b[i]
          /\ c[N + 1] = y
      BY <1>1, <3>3, InsertList
    <3> HIDE DEF c, a
    <3>5. a = [i \in 1..(N + 1) |-> a[i]] /\ c = [i \in 1..(N + 1) |-> c[i]]
      BY <3>2, <3>4, ListElements, Zenon
    <3>6. \A i \in 1..(N + 1) : a[i] = c[i]
      BY <1>1, <3>2, <3>4
    <3>7. a = c
      BY <3>5, <3>6
    <3> QED
      BY <3>1, <3>7 DEF a, c
  <2>3. N + 1 \in 1..(N + 1)
    BY <1>1
  <2>4. Buckets(InsertAt(b, N + 1, <<f>>), s, n + 1)
    BY <2>3, NewBucket
  <2> QED
    BY <2>1, <2>2, <2>4
<1>6. CASE fitting = {} /\ here # {}
  <2> DEFINE p == Max(here) + 1
  <2>1. Max(here) \in 1..N
    BY <1>1, <1>2, <1>6, MaxIs, Zenon
  <2>2. p \in 1..(N + 1)
    BY <1>1, <2>1
  <2>3. Placed(b, f) = InsertAt(b, p, <<f>>)
    BY <1>3, <1>6, Zenon
  <2> HIDE DEF p
  <2>4. Buckets(InsertAt(b, p, <<f>>), s, n + 1)
    BY <2>2, NewBucket
  <2> QED
    BY <2>3, <2>4
<1> QED
  BY <1>4, <1>5, <1>6

-----------------------------------------------------------------------------
(* The static findings.                                                    *)

\* A finding of a tool, as its analyzer reports it.
Fresh(f) == \E tool \in Tools : Reporting(f, tool) /\ \E i, n : f.id = <<tool, i, n>>

\* A finding of tools, as the later stages get it.
StaticFinding(f) ==
  /\ DOMAIN f = Fields
  /\ WellFormed(f)
  /\ f.sources # {} /\ f.sources \subseteq Tools
  /\ f.status = "open"
  /\ f.verified = {}
  /\ \E tool \in Tools : \E i, n : f.id = <<tool, i, n>>

\* A static finding that is given its evidence is still one.
LEMMA EvidenceGiven ==
  ASSUME NEW f, StaticFinding(f), NEW v, NEW g, g = [f EXCEPT !.evidence = v]
  PROVE  /\ StaticFinding(g) /\ g.id = f.id
         /\ g.evidence = v /\ g.file = f.file /\ g.first = f.first /\ g.last = f.last
         /\ g.redacted = f.redacted
<1> DEFINE Same == {"id", "severity", "file", "first", "last", "rule", "sources", "status", "verified",
                    "category", "confidence", "redacted"}
<1>1. DOMAIN f = Fields
  BY DEF StaticFinding
<1>2. DOMAIN g = Fields /\ \A x \in Fields : x # "evidence" => g[x] = f[x]
  BY <1>1, Zenon
<1>3. /\ Same \subseteq Fields
      /\ "evidence" \notin Same
  BY DEF Fields
<1>4. \A x \in Same : g[x] = f[x]
  BY <1>2, <1>3, Zenon
<1>5. /\ g.id = f.id /\ g.severity = f.severity /\ g.file = f.file /\ g.first = f.first
      /\ g.rule = f.rule /\ g.sources = f.sources /\ g.status = f.status /\ g.verified = f.verified
      /\ g.last = f.last /\ g.category = f.category /\ g.confidence = f.confidence
      /\ g.redacted = f.redacted
  BY <1>4, Zenon
<1>6. WellFormed(g)
  BY <1>5 DEF StaticFinding, WellFormed, IsFinding
<1>7. \E tool \in Tools : \E i, n : g.id = <<tool, i, n>>
  BY <1>5, Zenon DEF StaticFinding
<1>8. g.sources # {} /\ g.sources \subseteq Tools /\ g.status = "open" /\ g.verified = {}
  BY <1>5, Zenon DEF StaticFinding
<1>9. g.evidence = v
  BY <1>1 DEF Fields
<1> QED
  BY <1>2, <1>5, <1>6, <1>7, <1>8, <1>9, Zenon DEF StaticFinding

\* Of every list of reports, one leads.
LEMMA SomeReportLeads ==
  ASSUME NEW b, IsList(b), Len(b) # 0, \A x \in Range(b) : Fresh(x)
  PROVE  \E i \in 1..Len(b) : Leads(b, i)
<1> DEFINE N == Len(b)
           I == 1..N
           Sooner(i, j) == \/ b[i].severity > b[j].severity
                           \/ /\ b[i].severity = b[j].severity
                              /\ \/ b[i].confidence > b[j].confidence
                                 \/ b[i].confidence = b[j].confidence /\ i < j
           R == {p \in I \X I : Sooner(p[1], p[2])}
<1>1. N \in Nat /\ DOMAIN b = 1..N
  BY ListElements, Zenon
<1>2. \A i \in I : b[i].severity \in Int /\ b[i].confidence \in Int
  <2> TAKE i \in I
  <2>1. Fresh(b[i])
    BY InRange, Zenon
  <2>2. PICK tool \in Tools : Reporting(b[i], tool)
    BY <2>1 DEF Fresh
  <2> QED
    BY <2>2 DEF Reporting, WellFormed
<1>3. \A i, j \in I : <<i, j>> \in R <=> Sooner(i, j)
  OBVIOUS
<1> HIDE DEF R
<1>4. OrderOn(R, I)
  <2>1. \A i \in I : ~ Sooner(i, i)
    BY <1>1, <1>2
  <2>2. \A i, j \in I : i # j => Sooner(i, j) \/ Sooner(j, i)
    BY <1>1, <1>2
  <2>3. \A i, j, k \in I : Sooner(i, j) /\ Sooner(j, k) => Sooner(i, k)
    BY <1>1, <1>2
  <2> HIDE DEF Sooner, I
  <2> QED
    BY <1>3, <2>1, <2>2, <2>3, Zenon DEF OrderOn
<1>5. IsFiniteSet(I) /\ Cardinality(I) = N
  BY <1>1, FS_Interval
<1>6. PICK i \in I : Rank(I, R, i) = 0
  <2>1. 0 \in 0..(Cardinality(I) - 1)
    BY <1>1, <1>5
  <2> HIDE DEF I
  <2> QED
    <3>1. \A n \in 0..(Cardinality(I) - 1) : \E i \in I : Rank(I, R, i) = n
      BY <1>4, <1>5, Ranks
    <3> QED
      BY <2>1, <3>1, Zenon
<1>7. \A j \in I : ~ (<<j, i>> \in R)
  <2> TAKE j \in I
  <2>1. Rank(I, R, j) \in Nat
    <3> HIDE DEF I
    <3>1. Rank(I, R, j) \in 0..(Cardinality(I) - 1)
      BY <1>4, <1>5, Ranks, Zenon
    <3> QED
      BY <3>1
  <2>2. ~ (Rank(I, R, j) < Rank(I, R, i))
    BY <1>6, <2>1
  <2> HIDE DEF I
  <2> QED
    BY <1>4, <1>5, <2>2, Ranks, Zenon
<1>8. \A j \in I : ~ Sooner(j, i)
  BY <1>3, <1>7
<1>9. Leads(b, i)
  BY <1>1, <1>2, <1>8 DEF Leads
<1> QED
  BY <1>9

\* The largest of a list of numbers.
LEMMA MaxOfList ==
  ASSUME NEW N \in Nat, N # 0, NEW x, \A i \in 1..N : x[i] \in Int
  PROVE  /\ Max({x[i] : i \in 1..N}) \in {x[i] : i \in 1..N}
         /\ \A k \in 1..N : x[k] <= Max({x[i] : i \in 1..N})
<1> DEFINE T == {n \in 0..N : n = 0 \/ \E i \in 1..n : \A j \in 1..n : x[j] <= x[i]}
           S == {x[i] : i \in 1..N}
<1>1. 0 \in T
  OBVIOUS
<1>2. ASSUME NEW n \in 0..(N - 1), n \in T PROVE n + 1 \in T
  <2>1. n + 1 \in 0..N /\ n + 1 \in 1..N /\ \A j \in 1..(n + 1) : j = n + 1 \/ j \in 1..n
    OBVIOUS
  <2>2. CASE n = 0
    <3>1. x[1] <= x[1] /\ \A j \in 1..1 : j = 1
      OBVIOUS
    <3> QED
      BY <2>1, <2>2, <3>1
  <2>3. CASE n # 0
    <3>1. PICK i \in 1..n : \A j \in 1..n : x[j] <= x[i]
      BY <1>2, <2>3
    <3>2. x[i] \in Int /\ x[n + 1] \in Int /\ i \in 1..(n + 1) /\ n + 1 \in 1..(n + 1) /\ 1..n \subseteq 1..N
      BY <2>1
    <3>3. CASE x[n + 1] <= x[i]
      BY <2>1, <3>1, <3>2, <3>3
    <3>4. CASE ~ (x[n + 1] <= x[i])
      <4>1. \A j \in 1..n : x[j] <= x[n + 1]
        BY <3>1, <3>2, <3>4
      <4> QED
        BY <2>1, <3>2, <4>1
    <3> QED
      BY <3>3, <3>4
  <2> QED
    BY <2>2, <2>3
<1>3. \A k \in 0..N : k \in T
  <2> HIDE DEF T
  <2> QED
    BY <1>1, <1>2, UpTo
<1>4. PICK i \in 1..N : \A j \in 1..N : x[j] <= x[i]
  BY <1>3
<1>5. \E y \in S : \A z \in S : y >= z
  <2>1. x[i] \in S /\ \A z \in S : x[i] >= z
    BY <1>4
  <2> QED
    BY <2>1
<1>6. Max(S) \in S /\ \A z \in S : Max(S) >= z
  <2> HIDE DEF S
  <2> QED
    BY <1>5, Zenon DEF Max
<1> QED
  BY <1>6

\* What becomes of one bucket keeps the id and the place of one of its reports, and
\* reaches as far as each of them.
LEMMA MergedFinding ==
  ASSUME NEW b, IsList(b), Len(b) # 0, \A x \in Range(b) : Fresh(x)
  PROVE  /\ StaticFinding(Merged(b))
         /\ \E x \in Range(b) : /\ Merged(b).id = x.id
                               /\ Merged(b).file = x.file /\ Merged(b).first = x.first
         /\ \A x \in Range(b) : x.last <= Merged(b).last /\ (x.redacted => Merged(b).redacted)
<1> DEFINE N == Len(b)
           p == CHOOSE i \in DOMAIN b : Leads(b, i)
           lead == b[p]
           srcs == UNION {f.sources : f \in Range(b)}
           last == Max({f.last : f \in Range(b)})
           conf == Max({f.confidence : f \in Range(b)})
           red == \E f \in Range(b) : f.redacted
           m == [lead EXCEPT !.sources = srcs, !.last = last, !.confidence = conf, !.redacted = red]
<1>1. N \in Nat /\ DOMAIN b = 1..N
  BY ListElements, Zenon
<1>2. p \in 1..N
  <2>1. \E i \in DOMAIN b : Leads(b, i)
    BY <1>1, SomeReportLeads, Zenon
  <2> QED
    BY <1>1, <2>1, Zenon
<1>3. m = Merged(b)
  BY DEF Merged
<1> HIDE DEF p
<1>4. lead \in Range(b)
  BY <1>2, InRange, Zenon
<1>5. Fresh(lead)
  BY <1>4, Zenon
<1>6. PICK tool \in Tools : Reporting(lead, tool) /\ \E i, n : lead.id = <<tool, i, n>>
  BY <1>5, Zenon DEF Fresh
<1>7. srcs # {} /\ srcs \subseteq Tools
  <2>1. \A f \in Range(b) : f.sources \subseteq Tools
    <3> TAKE f \in Range(b)
    <3>1. PICK t \in Tools : Reporting(f, t)
      BY Zenon DEF Fresh
    <3> QED
      BY <3>1 DEF Reporting
  <2>2. tool \in lead.sources
    BY <1>6 DEF Reporting
  <2> HIDE DEF lead
  <2> QED
    BY <2>1, <2>2, <1>4
<1>11. \A i \in 1..N : /\ b[i].last \in Int /\ b[i].confidence \in 0..10
                        /\ b[i].first <= b[i].last
  <2> TAKE i \in 1..N
  <2>1. Fresh(b[i])
    BY InRange, Zenon
  <2> QED
    BY <2>1 DEF Fresh, Reporting, WellFormed, IsFinding
<1>12. N # 0 /\ \A f : f \in Range(b) <=> \E i \in 1..N : b[i] = f
  BY ListElements, Zenon
<1>13. last \in Int /\ lead.last <= last /\ \A i \in 1..N : b[i].last <= last
  <2> DEFINE x == [i \in 1..N |-> b[i].last]
  <2>1. {f.last : f \in Range(b)} = {x[i] : i \in 1..N}
    BY <1>12
  <2>2. \A i \in 1..N : x[i] \in Int
    BY <1>11
  <2>3. lead.last = x[p] /\ \A i \in 1..N : b[i].last = x[i]
    BY <1>2
  <2> HIDE DEF x, N, lead
  <2>4. Max({x[i] : i \in 1..N}) \in {x[i] : i \in 1..N} /\ \A k \in 1..N : x[k] <= Max({x[i] : i \in 1..N})
    BY <1>1, <1>12, <2>2, MaxOfList
  <2> QED
    BY <1>2, <2>1, <2>2, <2>3, <2>4
<1>14. conf \in 0..10
  <2> DEFINE x == [i \in 1..N |-> b[i].confidence]
  <2>1. {f.confidence : f \in Range(b)} = {x[i] : i \in 1..N}
    BY <1>12
  <2>2. \A i \in 1..N : x[i] \in 0..10
    BY <1>11
  <2>3. \A i \in 1..N : x[i] \in Int
    BY <2>2
  <2> HIDE DEF x, N
  <2>4. Max({x[i] : i \in 1..N}) \in {x[i] : i \in 1..N}
    BY <1>1, <1>12, <2>3, MaxOfList
  <2> QED
    BY <2>1, <2>2, <2>4
<1>15. \A f \in Range(b) : f.redacted => red
  OBVIOUS
<1>16. \A f \in Range(b) : f.last <= last
  BY <1>12, <1>13
<1> HIDE DEF lead, srcs, last, conf, red
<1>17. /\ m.file = lead.file /\ m.first = lead.first /\ m.last = last /\ m.redacted = red
  BY <1>6 DEF Reporting, Fields
<1>8. /\ DOMAIN m = Fields /\ WellFormed(m)
      /\ m.sources = srcs /\ m.status = "open" /\ m.verified = {} /\ m.id = lead.id
  BY <1>6, <1>7, <1>13, <1>14 DEF Reporting, WellFormed, IsFinding, Fields
<1> HIDE DEF m
<1>9. StaticFinding(m)
  BY <1>6, <1>7, <1>8 DEF StaticFinding
<1>10. \A x \in Range(b) : x.last <= m.last /\ (x.redacted => m.redacted)
  BY <1>15, <1>16, <1>17, Zenon
<1> QED
  BY <1>3, <1>4, <1>8, <1>9, <1>10, <1>17, Zenon

\* Distinct findings of tools.
StaticFindings(s) ==
  IsList(s) /\ DistinctIds(s) /\ \A x \in Range(s) : StaticFinding(x)

\* f hides the lines of x from its place on, because x or another report does.
Covers(f, x) == f.redacted /\ f.file = x.file /\ f.first = x.first /\ x.last <= f.last

\* Deduplicate gives findings with distinct ids, each of tools only, and forgets nothing
\* that is to be hidden.
LEMMA DeduplicatedFindings ==
  ASSUME NEW s, IsList(s), DistinctIds(s), \A x \in Range(s) : Fresh(x)
  PROVE  /\ StaticFindings(Deduplicate(s))
         /\ \A x \in Range(s) : x.redacted => \E f \in Range(Deduplicate(s)) : Covers(f, x)
<1> DEFINE N == Len(s)
<1>1. N \in Nat /\ DOMAIN s = 1..N
  BY ListElements, Zenon
<1>2. PICK h : PlacedRun(h, <<>>, s, N)
  BY <1>1, PlacedTrace, Zenon
<1> DEFINE T == {n \in 0..N : Buckets(h[n], s, n)}
<1>3. 0 \in T
  <2>1. IsList(h[0]) /\ Len(h[0]) = 0
    BY <1>2, EmptyIsList, Zenon DEF PlacedRun
  <2>2. Buckets(h[0], s, 0)
    BY <2>1 DEF Buckets
  <2> QED
    BY <1>1, <2>2
<1>4. ASSUME NEW n \in 0..(N - 1), n \in T PROVE n + 1 \in T
  <2>1. n + 1 \in 1..N /\ n + 1 \in 0..N /\ n + 1 - 1 = n
    BY <1>1
  <2> DEFINE b == h[n]
  <2>2. Buckets(b, s, n)
    BY <1>4
  <2>3. h[n + 1] = Placed(b, s[n + 1])
    BY <1>2, <2>1 DEF PlacedRun
  <2> HIDE DEF b
  <2>4. Buckets(Placed(b, s[n + 1]), s, n + 1)
    BY <1>1, <2>2, PlacedBuckets
  <2> QED
    BY <2>1, <2>3, <2>4
<1>5. \A k \in 0..N : k \in T
  <2> HIDE DEF T
  <2> QED
    BY <1>1, <1>3, <1>4, UpTo
<1> DEFINE b == h[N]
           M == Len(b)
           r == [k \in DOMAIN b |-> Merged(b[k])]
<1>6. Buckets(b, s, N)
  BY <1>1, <1>5
<1>7. r = Deduplicate(s)
  <2> DEFINE B(c) == [k \in DOMAIN c |-> Merged(c[k])]
  <2>1. \A c : Of(c, B) = B(c)
    <3> TAKE c
    <3> DEFINE y == B(c)
    <3>1. {B(z) : z \in {z \in {c} : z = z}} = {y}
      OBVIOUS
    <3> HIDE DEF y
    <3>2. (CHOOSE z \in {y} : TRUE) = y
      OBVIOUS
    <3> HIDE DEF B
    <3> QED
      BY <3>1, <3>2, Zenon DEF Of, y
  <2>2. Deduplicate(s) = Of(FoldedOver(Placed, <<>>, s), B)
    BY DEF Deduplicate
  <2> HIDE DEF B
  <2>3. Deduplicate(s) = B(b)
    BY <1>2, <2>1, <2>2, Zenon DEF PlacedRun
  <2> QED
    BY <2>3 DEF B
<1> HIDE DEF b, T
<1>8. IsList(b) /\ M \in Nat /\ DOMAIN b = 1..M
  BY <1>6, ListElements, Zenon DEF Buckets
<1>9. r = [k \in 1..M |-> r[k]] /\ \A k \in 1..M : r[k] = Merged(b[k])
  BY <1>8
<1> HIDE DEF r
<1>10. IsList(r) /\ Len(r) = M
  BY <1>8, <1>9, ListByShape, Zenon
<1>11. \A k \in 1..M : /\ IsList(b[k]) /\ Len(b[k]) # 0
                       /\ \A x \in Range(b[k]) : \E i \in 1..N : s[i] = x
  BY <1>6, Zenon DEF Buckets
<1>12. \A k \in 1..M :
         /\ StaticFinding(r[k])
         /\ \E x \in Range(b[k]) : r[k].id = x.id /\ r[k].file = x.file /\ r[k].first = x.first
         /\ \A x \in Range(b[k]) : x.last <= r[k].last /\ (x.redacted => r[k].redacted)
  <2> TAKE k \in 1..M
  <2>1. \A x \in Range(b[k]) : Fresh(x)
    BY <1>11, InRange, Zenon
  <2>3. IsList(b[k]) /\ Len(b[k]) # 0
    BY <1>11, Zenon
  <2>2. /\ StaticFinding(Merged(b[k]))
        /\ \E x \in Range(b[k]) : /\ Merged(b[k]).id = x.id
                                 /\ Merged(b[k]).file = x.file /\ Merged(b[k]).first = x.first
        /\ \A x \in Range(b[k]) : x.last <= Merged(b[k]).last
                                   /\ (x.redacted => Merged(b[k]).redacted)
    BY <2>1, <2>3, MergedFinding, Zenon
  <2> QED
    BY <1>9, <2>2, Zenon
<1>13. DistinctIds(r)
  <2> SUFFICES ASSUME NEW k \in 1..M, NEW l \in 1..M, r[k].id = r[l].id, k # l
               PROVE  FALSE
    BY <1>10 DEF DistinctIds
  <2>1. PICK x \in Range(b[k]) : r[k].id = x.id
    BY <1>12
  <2>2. PICK y \in Range(b[l]) : r[l].id = y.id
    BY <1>12
  <2>3. PICK i \in 1..N : s[i] = x
    BY <1>11
  <2>4. PICK j \in 1..N : s[j] = y
    BY <1>11
  <2>5. i = j
    BY <2>1, <2>2, <2>3, <2>4 DEF DistinctIds
  <2>6. x \notin Range(b[l])
    BY <1>6, Zenon DEF Buckets
  <2>7. x = y
    BY <2>3, <2>4, <2>5
  <2> QED
    BY <2>6, <2>7
<1>14. \A x \in Range(r) : StaticFinding(x)
  <2> TAKE x \in Range(r)
  <2>1. PICK k \in 1..M : r[k] = x
    BY <1>10, InRange, Zenon
  <2> QED
    BY <2>1, <1>12
<1>15. ASSUME NEW x \in Range(s), x.redacted PROVE \E f \in Range(r) : Covers(f, x)
  <2>1. PICK i \in 1..N : s[i] = x
    BY InRange, Zenon
  <2>2. PICK k \in 1..M : x \in Range(b[k])
    BY <1>6, <2>1, Zenon DEF Buckets
  <2>3. PICK y \in Range(b[k]) : r[k].file = y.file /\ r[k].first = y.first
    BY <1>12, Zenon
  <2>4. x.file = y.file /\ x.first = y.first
    BY <1>6, <2>2, <2>3, Zenon DEF Buckets
  <2>5. x.last <= r[k].last /\ r[k].redacted
    BY <1>12, <1>15, <2>2, Zenon
  <2>6. r[k] \in Range(r)
    BY <1>10, InRange, Zenon
  <2> QED
    BY <2>3, <2>4, <2>5, <2>6, Zenon DEF Covers
<1> QED
  BY <1>7, <1>10, <1>13, <1>14, <1>15, Zenon DEF StaticFindings

\* Every analyzer has one place in the list of them.
LEMMA AnalyzerList ==
  /\ IsList(Analyzers) /\ Len(Analyzers) = 8 /\ DOMAIN Analyzers = 1..8
  /\ \A i \in 1..8 : Analyzers[i] \in Tools
  /\ \A i, j \in 1..8 : Analyzers[i] = Analyzers[j] => i = j
<1>1. Len(Analyzers) = 8 /\ DOMAIN Analyzers = 1..8
  <2>1. Len(Analyzers) = 8
    BY DEF Analyzers
  <2>2. DOMAIN Analyzers = 1..8
    BY DEF Analyzers
  <2> QED
    BY <2>1, <2>2
<1>2. IsList(Analyzers)
  <2>1. Analyzers \in Seq(Tools)
    BY ToolNames DEF Analyzers
  <2> QED
    BY <2>1, SeqIsList, Zenon
<1>3. \A i \in 1..8 : Analyzers[i] \in Tools
  BY <1>1, <1>2, InRange, Zenon DEF Tools
<1>4. \A i, j \in 1..8 : Analyzers[i] = Analyzers[j] => i = j
  BY DEF Analyzers
<1> QED
  BY <1>1, <1>2, <1>3, <1>4

\* The findings of all the tools, one list after the other.
LEMMA AllReports ==
  ASSUME NEW found, IsList(found), Len(found) = 8,
         \A i \in 1..8 : ToolFindings(found[i], Analyzers[i])
  PROVE  /\ IsList(FlattenSeq(found))
         /\ DistinctIds(FlattenSeq(found))
         /\ \A x \in Range(FlattenSeq(found)) : Fresh(x)
<1> DEFINE s == FlattenSeq(found)
<1>1. \A i \in 1..8 : IsList(found[i]) /\ DistinctIds(found[i])
  BY Zenon DEF ToolFindings, Reports
<1>2. \A i \in 1..8 : \A x \in Range(found[i]) :
        Reporting(x, Analyzers[i]) /\ \E m, n : x.id = <<Analyzers[i], m, n>>
  <2> TAKE i \in 1..8
  <2> TAKE x \in Range(found[i])
  <2>1. PICK k \in 1..Len(found[i]) : found[i][k] = x
    BY <1>1, InRange, Zenon
  <2>2. Reporting(x, Analyzers[i])
    BY <2>1, Zenon DEF ToolFindings, Reports
  <2>3. \E m, n : x.id = <<Analyzers[i], m, n>>
    BY Zenon DEF ToolFindings
  <2> QED
    BY <2>2, <2>3
<1>3. /\ IsList(s)
      /\ \A x : x \in Range(s) <=> \E i \in 1..8 : x \in Range(found[i])
      /\ /\ \A i \in 1..8 : DistinctIds(found[i])
         /\ \A i, j \in 1..8 : i # j => \A x \in Range(found[i]), y \in Range(found[j]) : x.id # y.id
         => DistinctIds(s)
  BY <1>1, Flattened, Zenon
<1>4. ASSUME NEW i \in 1..8, NEW j \in 1..8, i # j,
             NEW x \in Range(found[i]), NEW y \in Range(found[j]), x.id = y.id
      PROVE  FALSE
  <2>1. PICK m, n : x.id = <<Analyzers[i], m, n>>
    BY <1>2, Zenon
  <2>2. PICK k, l : y.id = <<Analyzers[j], k, l>>
    BY <1>2, Zenon
  <2>3. <<Analyzers[i], m, n>> = <<Analyzers[j], k, l>>
    BY <2>1, <2>2, <1>4, Zenon
  <2>4. Analyzers[i] = Analyzers[j]
    BY <2>3
  <2> QED
    BY <2>4, <1>4, AnalyzerList, Zenon
<1>5. DistinctIds(s)
  <2>1. \A i, j \in 1..8 : i # j => \A x \in Range(found[i]), y \in Range(found[j]) : x.id # y.id
    BY <1>4
  <2> QED
    BY <2>1, <1>1, <1>3, Zenon
<1>6. \A x \in Range(s) : Fresh(x)
  <2> TAKE x \in Range(s)
  <2>1. PICK i \in 1..8 : x \in Range(found[i])
    BY <1>3
  <2>2. Reporting(x, Analyzers[i]) /\ \E m, n : x.id = <<Analyzers[i], m, n>>
    BY <2>1, <1>2, Zenon
  <2>3. Analyzers[i] \in Tools
    BY AnalyzerList, Zenon
  <2> QED
    BY <2>2, <2>3, Zenon DEF Fresh
<1> QED
  BY <1>3, <1>5, <1>6, Zenon

\* Sorting keeps what is known of the static findings.
LEMMA OrderedFindings ==
  ASSUME NEW s, StaticFindings(s)
  PROVE  StaticFindings(Ordered(s))
<1>1. \A i \in 1..Len(s) : WellFormed(s[i])
  <2> TAKE i \in 1..Len(s)
  <2>1. s[i] \in Range(s)
    BY InRange, Zenon DEF StaticFindings
  <2> QED
    BY <2>1, Zenon DEF StaticFindings, StaticFinding
<1>2. /\ IsList(Ordered(s))
      /\ \A x \in Range(Ordered(s)) : x \in Range(s)
      /\ DistinctIds(s) => DistinctIds(Ordered(s))
  BY <1>1, OrderedElements, Zenon DEF StaticFindings
<1> QED
  BY <1>2, Zenon DEF StaticFindings

\* What one finding hides of another's place, the index hides.
LEMMA CoveredIsSecret ==
  ASSUME NEW s, \A f \in Range(s) : WellFormed(f), NEW values,
         NEW f \in Range(s), NEW x, WellFormed(x), Covers(f, x), NEW n \in x.first..x.last
  PROVE  <<x.file, n>> \in SecretIndex(s, values).lines
<1>1. n \in f.first..f.last /\ f.redacted /\ f.file = x.file
  <2>1. x.first \in Int /\ x.last \in Int /\ f.last \in Int
    BY Zenon DEF WellFormed
  <2> QED
    BY <2>1 DEF Covers
<1>2. SecretIndex(s, values).lines =
        UNION {{<<g.file, m>> : m \in g.first..g.last} : g \in {g \in Range(s) : g.redacted}}
  BY DEF SecretIndex
<1>3. <<f.file, n>> \in {<<f.file, m>> : m \in f.first..f.last}
  BY <1>1
<1> QED
  BY <1>1, <1>2, <1>3

\* No detector reported this line of a file, and it holds no value that one detected.
Unreported(reported, values, file, n, line) ==
  /\ line.secret \notin values
  /\ \A x \in reported : x.redacted /\ x.file = file => n \notin x.first..x.last

\* The findings s cover every report that is to be hidden.
Hiding(s, reported) ==
  /\ \A f \in Range(s) \cup reported : WellFormed(f)
  /\ \A x \in reported : x.redacted => \E f \in Range(s) : Covers(f, x)

\* The evidence that a finding is given says what lines say that no detector reported.
LEMMA EvidenceUnreported ==
  ASSUME NEW s, NEW reported, Hiding(s, reported), NEW values,
         NEW f, DOMAIN f = Fields, NEW lines,
         NEW t \in WithEvidence(SecretIndex(s, values), f, lines).evidence
  PROVE  \E n \in DOMAIN lines : t = lines[n].says /\ Unreported(reported, values, f.file, n, lines[n])
<1> DEFINE index == SecretIndex(s, values)
           legible == {n \in f.first..Smaller(f.last, f.first + MaxEvidenceLines - 1) \cap DOMAIN lines :
                         ~ IsSensitive(index, f.file, n, lines[n])}
<1>1. WithEvidence(index, f, lines) =
        [f EXCEPT !.evidence = IF f.redacted THEN {} ELSE {lines[n].says : n \in legible}]
  BY DEF WithEvidence
<1>2. t \in {lines[n].says : n \in legible}
  <2>1. "evidence" \in DOMAIN f
    BY DEF Fields
  <2>2. \A v : [f EXCEPT !.evidence = v].evidence = v
    BY <2>1
  <2> HIDE DEF legible
  <2> QED
    BY <1>1, <2>2
<1>3. PICK n \in legible : t = lines[n].says
  BY <1>2
<1>4. n \in DOMAIN lines /\ ~ IsSensitive(index, f.file, n, lines[n])
  BY <1>3
<1> HIDE DEF legible
<1>5. lines[n].secret \notin values /\ <<f.file, n>> \notin index.lines
  <2>1. index.values = values
    BY DEF SecretIndex
  <2> HIDE DEF index
  <2> QED
    BY <1>4, <2>1 DEF IsSensitive
<1>6. ASSUME NEW x \in reported, x.redacted, x.file = f.file PROVE n \notin x.first..x.last
  <2>1. PICK g \in Range(s) : Covers(g, x)
    BY <1>6, Zenon DEF Hiding
  <2>2. WellFormed(x) /\ \A y \in Range(s) : WellFormed(y)
    BY DEF Hiding
  <2>3. n \in x.first..x.last => <<x.file, n>> \in SecretIndex(s, values).lines
    BY <2>1, <2>2, CoveredIsSecret, Zenon
  <2> QED
    BY <1>5, <1>6, <2>3
<1>7. Unreported(reported, values, f.file, n, lines[n])
  BY <1>5, <1>6, Zenon DEF Unreported
<1> QED
  BY <1>3, <1>4, <1>7

\* What run_static_analysis makes of all results are findings of tools with distinct ids.
\* They cover every report that is to be hidden, and show no line that one is about.
LEMMA CombinedFindings ==
  ASSUME NEW found, IsList(found), Len(found) = 8,
         \A i \in 1..8 : ToolFindings(found[i], Analyzers[i]),
         NEW values, NEW lines
  PROVE  /\ StaticFindings(Combined(found, values, lines))
         /\ \A x \in Range(FlattenSeq(found)) : x.redacted =>
              \E f \in Range(Combined(found, values, lines)) : Covers(f, x)
         /\ \A f \in Range(Combined(found, values, lines)) : \A v \in f.evidence :
              \E n \in DOMAIN LinesRead(lines, f.file) :
                /\ v = LinesRead(lines, f.file)[n].says
                /\ Unreported(Range(FlattenSeq(found)), values, f.file, n, LinesRead(lines, f.file)[n])
<1> DEFINE With(merged, index) ==
             [i \in DOMAIN merged |-> WithEvidence(index, merged[i], LinesRead(lines, merged[i].file))]
           Sorting(merged, index) == Ordered(With(merged, index))
           Indexed(merged) == Of(SecretIndex(merged, values), LAMBDA index : Sorting(merged, index))
           d == Deduplicate(FlattenSeq(found))
           index == SecretIndex(d, values)
           w == With(d, index)
           N == Len(d)
<1>1. \A x : {z \in {x} : z = z} = {x}
  OBVIOUS
<1>2. Combined(found, values, lines) = Of(d, Indexed)
  BY DEF Combined
<1>3. Of(d, Indexed) = Indexed(d)
  <2> HIDE DEF Indexed, d
  <2>1. {Indexed(z) : z \in {z \in {d} : z = z}} = {Indexed(d)}
    BY <1>1, Zenon
  <2> QED
    BY <2>1, Zenon DEF Of
<1>4. Indexed(d) = Sorting(d, index)
  <2> HIDE DEF Sorting, d
  <2>1. {Sorting(d, z) : z \in {z \in {SecretIndex(d, values)} : z = z}}
          = {Sorting(d, SecretIndex(d, values))}
    BY <1>1, Zenon
  <2> QED
    BY <2>1, Zenon DEF Of
<1>5. StaticFindings(d)
  BY AllReports, DeduplicatedFindings, Zenon
<1> DEFINE reported == Range(FlattenSeq(found))
<1>13. \A x \in reported : WellFormed(x) /\ (x.redacted => \E f \in Range(d) : Covers(f, x))
  <2>1. IsList(FlattenSeq(found)) /\ DistinctIds(FlattenSeq(found)) /\ \A x \in reported : Fresh(x)
    BY AllReports, Zenon
  <2>2. \A x : Fresh(x) => WellFormed(x)
    BY Zenon DEF Fresh, Reporting
  <2> QED
    BY <2>1, <2>2, DeduplicatedFindings, Zenon
<1>14. index = SecretIndex(d, values)
  BY Zenon
<1> HIDE DEF d, index, reported
<1>6. N \in Nat /\ DOMAIN d = 1..N
  BY <1>5, ListElements, Zenon DEF StaticFindings
<1>7. w = [i \in 1..N |-> w[i]] /\ \A i \in 1..N : w[i] = WithEvidence(index, d[i], LinesRead(lines, d[i].file))
  BY <1>6
<1>8. ASSUME NEW i \in 1..N
      PROVE  /\ StaticFinding(w[i]) /\ w[i].id = d[i].id /\ d[i] \in Range(d) /\ StaticFinding(d[i])
             /\ w[i].file = d[i].file /\ w[i].first = d[i].first /\ w[i].last = d[i].last
             /\ w[i].redacted = d[i].redacted
  <2>1. d[i] \in Range(d)
    BY <1>5, InRange, Zenon DEF StaticFindings
  <2>2. StaticFinding(d[i])
    BY <1>5, <2>1, Zenon DEF StaticFindings
  <2>3. PICK v : w[i] = [d[i] EXCEPT !.evidence = v]
    BY <1>7, Zenon DEF WithEvidence
  <2> HIDE DEF w
  <2>4. PICK f, g : f = d[i] /\ g = w[i]
    BY Zenon
  <2>5. StaticFinding(f) /\ g = [f EXCEPT !.evidence = v]
    BY <2>2, <2>3, <2>4, Zenon
  <2>6. /\ StaticFinding(g) /\ g.id = f.id
        /\ g.file = f.file /\ g.first = f.first /\ g.last = f.last /\ g.redacted = f.redacted
    BY <2>5, EvidenceGiven
  <2> QED
    BY <2>1, <2>2, <2>4, <2>6, Zenon
<1> HIDE DEF w
<1>9. IsList(w) /\ Len(w) = N
  BY <1>6, <1>7, ListByShape, Zenon
<1>10. DistinctIds(w)
  <2>1. DistinctIds(d)
    BY <1>5, Zenon DEF StaticFindings
  <2> QED
    BY <1>8, <1>9, <2>1, Zenon DEF DistinctIds
<1>11. \A x \in Range(w) : StaticFinding(x)
  <2> TAKE x \in Range(w)
  <2>1. PICK k \in 1..Len(w) : w[k] = x
    BY <1>9, InRange, Zenon
  <2>2. k \in 1..N
    BY <1>9
  <2>3. StaticFinding(w[k])
    BY <2>2, <1>8, Zenon
  <2> QED
    BY <2>1, <2>3
<1>15. StaticFindings(w)
  BY <1>9, <1>10, <1>11, Zenon DEF StaticFindings
<1>12. StaticFindings(Ordered(w))
  BY <1>15, OrderedFindings, Zenon
<1>16. \A x : x \in Range(Ordered(w)) <=> x \in Range(w)
  <2>1. \A i \in 1..Len(w) : WellFormed(w[i])
    BY <1>8, <1>9, Zenon DEF StaticFinding
  <2> QED
    BY <1>9, <2>1, OrderedElements, Zenon
<1>17. ASSUME NEW x \in reported, x.redacted PROVE \E f \in Range(Ordered(w)) : Covers(f, x)
  <2>1. PICK g \in Range(d) : Covers(g, x)
    BY <1>13, <1>17, Zenon
  <2>2. PICK i \in 1..N : d[i] = g
    BY <1>5, <2>1, InRange, Zenon DEF StaticFindings
  <2>3. Covers(w[i], x)
    BY <1>8, <2>1, <2>2, Zenon DEF Covers
  <2>4. w[i] \in Range(w)
    BY <1>9, InRange, Zenon
  <2> QED
    BY <1>16, <2>3, <2>4, Zenon
<1>18. ASSUME NEW f \in Range(Ordered(w)), NEW v \in f.evidence
       PROVE  \E n \in DOMAIN LinesRead(lines, f.file) :
                /\ v = LinesRead(lines, f.file)[n].says
                /\ Unreported(reported, values, f.file, n, LinesRead(lines, f.file)[n])
  <2>6. PICK k \in 1..Len(w) : w[k] = f
    BY <1>9, <1>16, InRange, Zenon
  <2>1. PICK i \in 1..N : w[i] = f
    BY <1>9, <2>6
  <2>2. PICK g, ls : g = d[i] /\ ls = LinesRead(lines, g.file)
    BY Zenon
  <2>3. f = WithEvidence(SecretIndex(d, values), g, ls) /\ f.file = g.file
    BY <1>7, <1>8, <1>14, <2>1, <2>2, Zenon
  <2>4. DOMAIN g = Fields /\ \A x \in Range(d) : WellFormed(x)
    BY <1>5, <1>8, <2>2, Zenon DEF StaticFindings, StaticFinding
  <2>7. v \in WithEvidence(SecretIndex(d, values), g, ls).evidence
    BY <1>18, <2>3, Zenon
  <2>5. \E n \in DOMAIN ls : v = ls[n].says /\ Unreported(reported, values, g.file, n, ls[n])
    <3>1. Hiding(d, reported)
      BY <1>13, <2>4 DEF Hiding
    <3> QED
      BY <2>4, <2>7, <3>1, EvidenceUnreported, Zenon
  <2> QED
    BY <2>2, <2>3, <2>5, Zenon
<1>19. Combined(found, values, lines) = Ordered(w)
  BY <1>2, <1>3, <1>4 DEF w
<1> QED
  BY <1>12, <1>17, <1>18, <1>19, Zenon DEF reported

-----------------------------------------------------------------------------
(* Judgements of models, and what merging does to findings (Merge).        *)

\* What is left of a tool's finding f once models have spoken: g.
Follows(g, f) ==
  /\ DOMAIN g = Fields /\ WellFormed(g)
  /\ g.id = f.id
  /\ f.sources \subseteq g.sources
  /\ g.verified = {}
  /\ Protected(f) => g.severity >= f.severity /\ g.status # "dismissed_by_ai"

\* A static finding follows itself.
LEMMA FollowsItself ==
  ASSUME NEW f, StaticFinding(f)
  PROVE  Follows(f, f)
BY DEF StaticFinding, Follows, WellFormed

\* A list of judgements, each with the severity it adjusts to.
Judging(judged) ==
  IsList(judged) /\ \A j \in 1..Len(judged) : judged[j].adjusted \in Severities \cup {NoSeverity}

\* A finding that is confirmed follows the one that was reported: a note, another
\* severity, but never a protected one lowered.
LEMMA ConfirmedFollows ==
  ASSUME NEW f, StaticFinding(f), NEW judged, Judging(judged),
         NEW I \in SUBSET (1..Len(judged)), I # {}
  PROVE  Follows(Confirm(f, judged, I), f)
<1> DEFINE p == FirstOf(I)
           adjusted == judged[p].adjusted
           srcs == f.sources \cup {judged[i].by : i \in I}
           conf == Larger(f.confidence, ConfirmedConfidence)
           g == [f EXCEPT !.sources = srcs, !.confidence = conf]
<1>1. Len(judged) \in Nat
  BY ListElements, Zenon DEF Judging
<1>2. p \in 1..Len(judged)
  <2>1. I \in SUBSET Nat
    BY <1>1
  <2> QED
    BY <2>1, FirstIs
<1>3. adjusted \in Severities \cup {NoSeverity} /\ adjusted \in Int
  BY <1>2, SeverityTypes DEF Judging
<1>4. f.sources \subseteq srcs
  OBVIOUS
<1>5. Confirm(f, judged, I) =
        IF adjusted \in {NoSeverity, f.severity} THEN g
        ELSE IF adjusted < f.severity /\ Protected(f) THEN [g EXCEPT !.note = "noted"]
        ELSE [g EXCEPT !.severity = adjusted, !.note = "noted"]
  BY DEF Confirm
<1>11. conf \in 0..10
  BY DEF StaticFinding, WellFormed, IsFinding, Larger, ConfirmedConfidence
<1> HIDE DEF p, adjusted, srcs, conf, g
<1>6. f.severity \in Int
  BY DEF StaticFinding, WellFormed
<1>7. g = [f EXCEPT !.sources = srcs, !.confidence = conf]
  BY DEF g
<1>8. Follows(g, f) /\ Follows([g EXCEPT !.note = "noted"], f)
  BY <1>4, <1>7, <1>11 DEF StaticFinding, Follows, WellFormed, IsFinding, Fields
<1>9. Protected(f) => (~ (adjusted < f.severity) => adjusted >= f.severity)
  BY <1>3, <1>6
<1>10. adjusted # NoSeverity /\ ~ (adjusted < f.severity /\ Protected(f)) =>
         Follows([g EXCEPT !.severity = adjusted, !.note = "noted"], f)
  BY <1>3, <1>4, <1>7, <1>9, <1>11 DEF StaticFinding, Follows, WellFormed, IsFinding, Fields
<1> QED
  BY <1>5, <1>8, <1>10

\* A finding that is judged follows the one that was reported.
LEMMA JudgedFollows ==
  ASSUME NEW f, StaticFinding(f), NEW judged, Judging(judged),
         NEW I \in SUBSET (1..Len(judged))
  PROVE  Follows(Judge(f, judged, I), f)
<1> DEFINE confirming == Saying(judged, I, "confirmed")
<1>1. confirming \in SUBSET (1..Len(judged))
  BY DEF Saying
<1>2. confirming # {} => Follows(Confirm(f, judged, confirming), f)
  BY <1>1, ConfirmedFollows
<1>3. Follows(f, f) /\ Follows([f EXCEPT !.note = "noted"], f)
  BY DEF StaticFinding, Follows, WellFormed, IsFinding, Fields
<1>4. Follows(Dismiss(f), f)
  BY DEF StaticFinding, Follows, WellFormed, IsFinding, Fields, FindingStatuses, Dismiss
<1> HIDE DEF confirming
<1> QED
  BY <1>2, <1>3, <1>4 DEF Judge, confirming

\* ApplyJudgements (apply_judgements) judges in place: as many findings as before, each
\* at its place.
LEMMA AppliedJudgements ==
  ASSUME NEW reported, StaticFindings(reported), NEW judged, Judging(judged)
  PROVE  /\ IsList(ApplyJudgements(reported, judged))
         /\ Len(ApplyJudgements(reported, judged)) = Len(reported)
         /\ \A i \in 1..Len(reported) : Follows(ApplyJudgements(reported, judged)[i], reported[i])
<1> DEFINE N == Len(reported)
           s == ApplyJudgements(reported, judged)
<1>1. N \in Nat /\ DOMAIN reported = 1..N /\ DOMAIN judged = 1..Len(judged)
  BY ListElements, Zenon DEF StaticFindings, Judging
<1>2. /\ s = [i \in 1..N |-> s[i]]
      /\ \A i \in 1..N : s[i] = IF About(reported[i], judged) = {} THEN reported[i]
                                ELSE Judge(reported[i], judged, About(reported[i], judged))
  BY <1>1 DEF ApplyJudgements
<1> HIDE DEF s
<1>3. IsList(s) /\ Len(s) = N
  BY <1>1, <1>2, ListByShape, Zenon
<1>4. ASSUME NEW i \in 1..N PROVE Follows(s[i], reported[i])
  <2>1. reported[i] \in Range(reported)
    BY InRange, Zenon DEF StaticFindings
  <2>2. StaticFinding(reported[i])
    BY <2>1, Zenon DEF StaticFindings
  <2>3. About(reported[i], judged) \in SUBSET (1..Len(judged))
    BY <1>1 DEF About
  <2>4. Follows(Judge(reported[i], judged, About(reported[i], judged)), reported[i])
    BY <2>2, <2>3, JudgedFollows, Zenon
  <2> QED
    BY <1>2, <2>2, <2>4, FollowsItself, Zenon
<1> QED
  BY <1>3, <1>4 DEF s

\* An issue that a model has just reported.
NewFinding(x) ==
  /\ DOMAIN x = Fields /\ WellFormed(x)
  /\ x.last \in Int /\ x.first <= x.last
  /\ x.sources # {} /\ x.sources \subseteq Models
  /\ x.status = "open"
  /\ x.verified = {}
  /\ \E i, n : x.id = <<"ai", i, n>>

\* What models found, under distinct ids.
NewFindings(s) == IsList(s) /\ DistinctIds(s) /\ \A x \in Range(s) : NewFinding(x)

\* g says what a model reported as new.
Represents(g, new) ==
  /\ SameIssue(g, new)
  /\ new.sources \subseteq g.sources
  /\ g.status # "dismissed_by_ai"
  /\ AiOnly(g) => g.severity >= new.severity

\* A finding that models reported and no tool.
ByModels(g) ==
  /\ DOMAIN g = Fields /\ WellFormed(g)
  /\ g.sources # {}
  /\ g.verified = {}

\* No model has the name of an analyzer.
LEMMA ToolsAreNoModels == Tools \cap Models = {}
BY SourceAssumption DEF Tools

\* What merging has made of the judged findings and the first n new ones.
Merging(s, reported, new, n) ==
  /\ IsList(s)
  /\ DistinctIds(s)
  /\ \A x \in Range(s) :
       \/ \E f \in Range(reported) : Follows(x, f)
       \/ ByModels(x) /\ \E k \in 1..n : x.id = new[k].id /\ x.file = new[k].file
  /\ \A f \in Range(reported) : \E x \in Range(s) : Follows(x, f)
  /\ \A k \in 1..n : \E x \in Range(s) : Represents(x, new[k])

\* A finding that a model found again still follows the one that was reported.
LEMMA CombinedFollows ==
  ASSUME NEW g, NEW f, StaticFinding(f), Follows(g, f), NEW new, NewFinding(new)
  PROVE  Follows(Combine(g, new), f)
<1>1. ~ AiOnly(g)
  <2>1. f.sources # {} /\ f.sources \subseteq Tools
    BY DEF StaticFinding
  <2> QED
    BY <2>1, ToolsAreNoModels DEF Follows, AiOnly
<1> DEFINE srcs == g.sources \cup new.sources
           conf == Larger(g.confidence, new.confidence)
           h == [g EXCEPT !.sources = srcs, !.confidence = conf]
<1>2. DOMAIN g = Fields
  BY DEF Follows
<1>3. CombineDismissed(g, new) = h
  <2>1. CombineDismissed(g, new) = [g EXCEPT !.sources = srcs, !.confidence = conf, !.severity = g.severity]
    BY <1>1 DEF CombineDismissed
  <2> HIDE DEF srcs, conf
  <2> QED
    BY <2>1, <1>2 DEF Fields
<1>4. f.sources \subseteq srcs /\ srcs # {} /\ conf \in 0..10
  BY DEF Follows, WellFormed, NewFinding, IsFinding, Larger
<1> HIDE DEF srcs, conf
<1>5. Follows(h, f) /\ Follows([h EXCEPT !.status = "needs_review", !.note = "noted"], f)
  BY <1>4 DEF Follows, WellFormed, IsFinding, Fields, FindingStatuses
<1> HIDE DEF h
<1> QED
  BY <1>3, <1>5 DEF Combine

\* A finding of models that a model found again is a finding of models, under its id.
LEMMA CombinedByModels ==
  ASSUME NEW g, ByModels(g), NEW new, NewFinding(new)
  PROVE  /\ ByModels(Combine(g, new))
         /\ Combine(g, new).id = g.id /\ Combine(g, new).file = g.file
<1> DEFINE srcs == g.sources \cup new.sources
           conf == Larger(g.confidence, new.confidence)
           sev == IF AiOnly(g) THEN Larger(g.severity, new.severity) ELSE g.severity
           h == [g EXCEPT !.sources = srcs, !.confidence = conf, !.severity = sev]
<1>1. CombineDismissed(g, new) = h
  BY DEF CombineDismissed
<1>2. sev \in Int /\ sev \in Severities /\ conf \in 0..10
  BY DEF ByModels, WellFormed, IsFinding, NewFinding, Larger
<1>3. srcs # {}
  BY DEF ByModels
<1> HIDE DEF srcs, conf, sev
<1>4. /\ ByModels(h) /\ h.id = g.id /\ h.file = g.file
      /\ LET i == [h EXCEPT !.status = "needs_review", !.note = "noted"]
         IN  ByModels(i) /\ i.id = g.id /\ i.file = g.file
  BY <1>2, <1>3 DEF ByModels, WellFormed, IsFinding, Fields, FindingStatuses
<1> HIDE DEF h
<1> QED
  BY <1>1, <1>4 DEF Combine

\* To combine a finding with a new one keeps what it stands for, and adds the new one.
LEMMA CombinedRepresents ==
  ASSUME NEW g, DOMAIN g = Fields, g.severity \in Int, NEW new, NewFinding(new)
  PROVE  /\ SameIssue(g, new) => Represents(Combine(g, new), new)
         /\ \A old : old.severity \in Int /\ Represents(g, old) => Represents(Combine(g, new), old)
<1> DEFINE srcs == g.sources \cup new.sources
           conf == Larger(g.confidence, new.confidence)
           sev == IF AiOnly(g) THEN Larger(g.severity, new.severity) ELSE g.severity
           h == [g EXCEPT !.sources = srcs, !.confidence = conf, !.severity = sev]
           c == Combine(g, new)
<1>1. CombineDismissed(g, new) = h
  BY DEF CombineDismissed
<1>2. /\ sev \in Int
      /\ AiOnly(g) => sev >= g.severity /\ sev >= new.severity
  BY DEF NewFinding, WellFormed, Larger
<1>3. new.sources \subseteq srcs /\ g.sources \subseteq srcs
  OBVIOUS
<1> HIDE DEF srcs, conf, sev
<1>4. /\ h.file = g.file /\ h.category = g.category /\ h.first = g.first /\ h.last = g.last
      /\ h.sources = srcs /\ h.severity = sev /\ h.status = g.status /\ DOMAIN h = Fields
  BY DEF Fields
<1> HIDE DEF h
<1>5. /\ c.file = g.file /\ c.category = g.category /\ c.first = g.first /\ c.last = g.last
      /\ c.sources = srcs /\ c.severity = sev
      /\ c.status # "dismissed_by_ai"
  BY <1>1, <1>4 DEF Combine, Fields
<1> HIDE DEF c
<1>6. \A x : SameIssue(g, x) => SameIssue(c, x)
  BY <1>5 DEF SameIssue, Overlap
<1>7. AiOnly(c) => AiOnly(g)
  BY <1>3, <1>5 DEF AiOnly
<1>8. SameIssue(g, new) => Represents(c, new)
  BY <1>2, <1>3, <1>5, <1>6, <1>7 DEF Represents
<1>9. ASSUME NEW old, old.severity \in Int, Represents(g, old)
      PROVE  Represents(c, old)
  <2>1. AiOnly(c) => c.severity >= old.severity
    BY <1>2, <1>5, <1>7, <1>9 DEF Represents
  <2> QED
    BY <2>1, <1>3, <1>5, <1>6, <1>9 DEF Represents
<1> QED
  BY <1>8, <1>9 DEF c

\* h[i] are the findings after i new ones.
MergeOneRun(h, base, s, N) ==
  /\ h[0] = base
  /\ \A i \in 1..N : h[i] = MergeOne(h[i - 1], s[i])
  /\ FoldedOver(MergeOne, base, s) = h[N]

\* MergeFindings (merge_findings) merges one new finding after the other: the findings
\* after each.
LEMMA MergeOneTrace ==
  ASSUME NEW base, NEW s, NEW N \in Nat, N = Len(s)
  PROVE  \E h : MergeOneRun(h, base, s, N)
<1> DEFINE Step(x, n) == CHOOSE y \in {MergeOne(z, s[n]) : z \in {x}} : TRUE
           Rec(h, n) == h = [i \in 0..n |-> IF i = 0 THEN base ELSE Step(h[i - 1], i)]
           T == {n \in 0..N : \E h : Rec(h, n)}
<1>1. \A x, n : Step(x, n) = MergeOne(x, s[n])
  <2> TAKE x, n
  <2> DEFINE y == MergeOne(x, s[n])
  <2>1. {MergeOne(z, s[n]) : z \in {x}} = {y}
    OBVIOUS
  <2> HIDE DEF y
  <2>2. (CHOOSE z \in {y} : TRUE) = y
    OBVIOUS
  <2> QED
    BY <2>1, <2>2, Zenon DEF y
<1> HIDE DEF Step
<1>2. 0 \in T
  <2> DEFINE h == [i \in 0..0 |-> base]
  <2>1. Rec(h, 0)
    OBVIOUS
  <2> HIDE DEF h, Rec
  <2> QED
    BY <2>1
<1>3. ASSUME NEW n \in 0..(N - 1), n \in T PROVE n + 1 \in T
  <2>1. n \in Nat /\ n + 1 \in 0..N
    OBVIOUS
  <2>2. PICK h : Rec(h, n)
    BY <1>3, Zenon
  <2> DEFINE g == [i \in 0..(n + 1) |-> IF i = 0 THEN base ELSE Step(h[i - 1], i)]
  <2>3. ASSUME NEW i \in 0..(n + 1), i # 0 PROVE g[i - 1] = h[i - 1]
    <3>1. i - 1 \in 0..n /\ i - 1 \in 0..(n + 1)
      BY <2>1, <2>3
    <3>2. g[i - 1] = IF i - 1 = 0 THEN base ELSE Step(h[i - 1 - 1], i - 1)
      BY <3>1, Zenon
    <3>3. h[i - 1] = IF i - 1 = 0 THEN base ELSE Step(h[i - 1 - 1], i - 1)
      BY <2>2, <3>1, Zenon
    <3> QED
      BY <3>2, <3>3, Zenon
  <2>4. \A i \in 0..(n + 1) : (IF i = 0 THEN base ELSE Step(h[i - 1], i))
                                = IF i = 0 THEN base ELSE Step(g[i - 1], i)
    <3> HIDE DEF g
    <3> QED
      BY <2>3, Zenon
  <2>5. Rec(g, n + 1)
    <3>1. g = [i \in 0..(n + 1) |-> IF i = 0 THEN base ELSE Step(h[i - 1], i)]
      OBVIOUS
    <3> HIDE DEF g
    <3> QED
      BY <2>4, <3>1
  <2> HIDE DEF g, Rec
  <2> QED
    BY <2>1, <2>5, Zenon
<1>4. N \in T
  <2> HIDE DEF T
  <2>1. \A k \in 0..N : k \in T
    BY <1>2, <1>3, UpTo
  <2> QED
    BY <2>1
<1> DEFINE h == CHOOSE h : Rec(h, N)
<1>5. Rec(h, N)
  <2>1. \E g : Rec(g, N)
    BY <1>4, Zenon
  <2> HIDE DEF Rec
  <2> QED
    BY <2>1, Zenon
<1>6. FoldedOver(MergeOne, base, s) = h[N]
  BY Zenon DEF FoldedOver, Step
<1> HIDE DEF h
<1>7. 0 \in 0..N /\ \A i \in 1..N : i \in 0..N /\ i # 0
  OBVIOUS
<1>8. h[0] = base
  BY <1>5, <1>7
<1>9. ASSUME NEW i \in 1..N PROVE h[i] = MergeOne(h[i - 1], s[i])
  <2>1. i \in 0..N /\ i # 0
    BY <1>7, Zenon
  <2>2. h[i] = IF i = 0 THEN base ELSE Step(h[i - 1], i)
    BY <1>5, <2>1, Zenon
  <2> QED
    BY <2>1, <2>2, <1>1, Zenon
<1> QED
  BY <1>6, <1>8, <1>9 DEF MergeOneRun

\* Ids stay distinct when an element with a new one is appended.
LEMMA AppendedIds ==
  ASSUME NEW s, IsList(s), DistinctIds(s), NEW x, \A y \in Range(s) : y.id # x.id
  PROVE  DistinctIds(Append(s, x))
<1> DEFINE a == Append(s, x)
           N == Len(s)
<1>1. N \in Nat /\ \A i \in 1..N : s[i] \in Range(s)
  BY ListElements, Zenon
<1>2. /\ Len(a) = N + 1
      /\ \A i \in 1..N : a[i] = s[i]
      /\ a[N + 1] = x
  BY AppendList
<1> HIDE DEF a
<1>3. \A i \in 1..N : a[i].id # x.id
  BY <1>1, <1>2
<1>4. ASSUME NEW i \in 1..(N + 1), NEW j \in 1..(N + 1), a[i].id = a[j].id
      PROVE  i = j
  <2>1. CASE i \in 1..N /\ j \in 1..N
    <3>1. s[i].id = s[j].id
      BY <1>2, <1>4, <2>1
    <3> QED
      BY <2>1, <3>1, Zenon DEF DistinctIds
  <2>2. CASE i = N + 1 \/ j = N + 1
    BY <1>1, <1>2, <1>3, <1>4, <2>2
  <2> QED
    BY <1>1, <2>1, <2>2
<1>5. DistinctIds(a)
  BY <1>2, <1>4 DEF DistinctIds
<1> QED
  BY <1>5 DEF a

\* The id of the next new finding is not in use yet.
LEMMA NewIds ==
  ASSUME NEW reported, StaticFindings(reported), NEW new, NewFindings(new),
         NEW n \in 0..(Len(new) - 1), Len(new) \in Nat, NEW s, Merging(s, reported, new, n)
  PROVE  \A y \in Range(s) : y.id # new[n + 1].id
<1> DEFINE m == n + 1
<1>1. m \in 1..Len(new) /\ \A k \in 1..n : k \in 1..Len(new) /\ k # m
  OBVIOUS
<1> SUFFICES ASSUME NEW y \in Range(s), y.id = new[m].id
             PROVE  FALSE
  OBVIOUS
<1> HIDE DEF m
<1>2. NewFinding(new[m])
  <2>1. new[m] \in Range(new)
    BY <1>1, InRange, Zenon DEF NewFindings
  <2> QED
    BY <2>1, Zenon DEF NewFindings
<1>3. CASE \E f \in Range(reported) : Follows(y, f)
  <2>1. PICK f \in Range(reported) : Follows(y, f)
    BY <1>3
  <2>2. StaticFinding(f) /\ y.id = f.id
    BY <2>1, Zenon DEF StaticFindings, Follows
  <2>3. PICK tool \in Tools : \E i, k : f.id = <<tool, i, k>>
    BY <2>2, Zenon DEF StaticFinding
  <2>4. PICK i, k : f.id = <<tool, i, k>>
    BY <2>3
  <2>5. PICK j, l : new[m].id = <<"ai", j, l>>
    BY <1>2, Zenon DEF NewFinding
  <2>6. <<tool, i, k>> = <<"ai", j, l>>
    BY <2>2, <2>4, <2>5, Zenon
  <2>7. tool = "ai"
    BY <2>6
  <2> QED
    BY <2>7, ToolNames
<1>4. CASE \E k \in 1..n : y.id = new[k].id
  <2>1. PICK k \in 1..n : y.id = new[k].id
    BY <1>4
  <2>2. new[k].id = new[m].id
    BY <2>1, Zenon
  <2> QED
    BY <1>1, <2>2, Zenon DEF NewFindings, DistinctIds
<1> QED
  BY <1>3, <1>4, Zenon DEF Merging

\* A new finding stands for itself.
LEMMA NewRepresents ==
  ASSUME NEW x, NewFinding(x)
  PROVE  ByModels(x) /\ Represents(x, x)
BY DEF NewFinding, ByModels, Represents, SameIssue, Overlap, WellFormed

\* A new finding that matches no other is added at the end.
LEMMA AddedOne ==
  ASSUME NEW reported, StaticFindings(reported), NEW new, NewFindings(new),
         NEW n \in 0..(Len(new) - 1), Len(new) \in Nat, NEW s, Merging(s, reported, new, n)
  PROVE  Merging(Append(s, new[n + 1]), reported, new, n + 1)
<1> DEFINE m == n + 1
           x == new[m]
           a == Append(s, x)
<1>1. m \in 1..Len(new) /\ m \in 1..m /\ \A k \in 1..n : k \in 1..m
  OBVIOUS
<1>2. \A k \in 1..m : k \in 1..n \/ k = m
  OBVIOUS
<1>3. NewFinding(x)
  <2> HIDE DEF m
  <2>1. new[m] \in Range(new)
    BY <1>1, InRange, Zenon DEF NewFindings
  <2> QED
    BY <2>1, Zenon DEF NewFindings
<1>4. \A y \in Range(s) : y.id # x.id
  BY NewIds
<1> HIDE DEF m, x
<1>5. IsList(a) /\ Range(a) = Range(s) \cup {x}
  <2>1. IsList(s)
    BY Zenon DEF Merging
  <2> QED
    BY <2>1, AppendList, Zenon
<1>6. DistinctIds(a)
  <2>1. IsList(s) /\ DistinctIds(s)
    BY Zenon DEF Merging
  <2> QED
    BY <2>1, <1>4, AppendedIds
<1> HIDE DEF a
<1>7. \A y \in Range(s) : y \in Range(a)
  BY <1>5
<1>8. x \in Range(a)
  BY <1>5
<1>9. ASSUME NEW y \in Range(a)
      PROVE  \/ \E f \in Range(reported) : Follows(y, f)
             \/ (ByModels(y) /\ \E k \in 1..m : y.id = new[k].id /\ y.file = new[k].file)
  <2>1. CASE y = x
    <3>1. ByModels(y)
      BY <2>1, <1>3, NewRepresents
    <3> QED
      BY <2>1, <3>1, <1>1 DEF x
  <2>2. CASE y \in Range(s)
    <3>1. CASE \E f \in Range(reported) : Follows(y, f)
      BY <3>1
    <3>2. CASE ByModels(y) /\ \E k \in 1..n : y.id = new[k].id /\ y.file = new[k].file
      BY <3>2, <1>1
    <3> QED
      BY <2>2, <3>1, <3>2, Zenon DEF Merging
  <2> QED
    BY <1>5, <2>1, <2>2
<1>10. ASSUME NEW f \in Range(reported) PROVE \E y \in Range(a) : Follows(y, f)
  BY <1>7, Zenon DEF Merging
<1>11. ASSUME NEW k \in 1..m PROVE \E y \in Range(a) : Represents(y, new[k])
  <2>1. CASE k = m
    BY <2>1, <1>3, <1>8, NewRepresents DEF x
  <2>2. CASE k \in 1..n
    BY <2>2, <1>7, Zenon DEF Merging
  <2> QED
    BY <1>2, <2>1, <2>2
<1> QED
  <2>1. Merging(a, reported, new, m)
    BY <1>5, <1>6, <1>9, <1>10, <1>11 DEF Merging
  <2> QED
    BY <2>1 DEF a, x, m

\* A new finding that matches another is combined with it, in its place.
LEMMA JoinedOne ==
  ASSUME NEW reported, StaticFindings(reported), NEW new, NewFindings(new),
         NEW n \in 0..(Len(new) - 1), Len(new) \in Nat, NEW s, Merging(s, reported, new, n),
         NEW p \in 1..Len(s), SameIssue(s[p], new[n + 1])
  PROVE  Merging([s EXCEPT ![p] = Combine(@, new[n + 1])], reported, new, n + 1)
<1> DEFINE m == n + 1
           x == new[m]
           N == Len(s)
           c == [s EXCEPT ![p] = Combine(@, x)]
<1>1. m \in 1..Len(new) /\ m \in 1..m /\ \A k \in 1..n : k \in 1..m
  OBVIOUS
<1>2. \A k \in 1..m : k \in 1..n \/ k = m
  OBVIOUS
<1>3. NewFinding(x) /\ SameIssue(s[p], x)
  <2> HIDE DEF m
  <2>1. new[m] \in Range(new)
    BY <1>1, InRange, Zenon DEF NewFindings
  <2>2. SameIssue(s[p], new[m])
    BY DEF m
  <2> QED
    BY <2>1, <2>2, Zenon DEF NewFindings
<1> HIDE DEF m, x
<1>4. N \in Nat /\ DOMAIN s = 1..N /\ IsList(s)
  BY ListElements, Zenon DEF Merging
<1>5. /\ c = [i \in 1..N |-> c[i]]
      /\ c[p] = Combine(s[p], x)
      /\ \A i \in 1..N : i # p => c[i] = s[i]
  BY <1>4
<1> HIDE DEF c
<1>6. IsList(c) /\ Len(c) = N
  BY <1>4, <1>5, ListByShape, Zenon
<1>7. \A i \in 1..N : c[i] \in Range(c)
  BY <1>6, ListElements, Zenon
<1>8. s[p] \in Range(s)
  BY <1>4, InRange, Zenon
<1>9. \/ \E f \in Range(reported) : Follows(s[p], f)
      \/ (ByModels(s[p]) /\ \E k \in 1..n : s[p].id = new[k].id /\ s[p].file = new[k].file)
  BY <1>8, Zenon DEF Merging
<1>10. DOMAIN s[p] = Fields /\ s[p].severity \in Int
  BY <1>9 DEF Follows, ByModels, WellFormed
<1>11. c[p].id = s[p].id /\ c[p].file = s[p].file
  BY <1>5, <1>10 DEF Combine, CombineDismissed, Fields
<1>12. DistinctIds(c)
  <2>1. \A i \in 1..N : c[i].id = s[i].id
    BY <1>5, <1>11
  <2> QED
    BY <2>1, <1>6, Zenon DEF DistinctIds, Merging
<1>13. \A f \in Range(reported) : Follows(s[p], f) => Follows(c[p], f)
  BY <1>3, <1>5, CombinedFollows DEF StaticFindings
<1>14. \A k \in 1..n : Represents(s[p], new[k]) => Represents(c[p], new[k])
  <2> TAKE k \in 1..n
  <2>1. k \in 1..Len(new)
    OBVIOUS
  <2>2. new[k] \in Range(new)
    BY <2>1, InRange, Zenon DEF NewFindings
  <2>3. new[k].severity \in Int
    BY <2>2 DEF NewFindings, NewFinding, WellFormed
  <2> QED
    BY <2>3, <1>3, <1>5, <1>10, CombinedRepresents, Zenon
<1>15. Represents(c[p], x)
  BY <1>3, <1>5, <1>10, CombinedRepresents, Zenon
<1>16. ASSUME NEW y \in Range(c)
       PROVE  \/ \E f \in Range(reported) : Follows(y, f)
              \/ (ByModels(y) /\ \E k \in 1..m : y.id = new[k].id /\ y.file = new[k].file)
  <2>1. PICK i \in 1..Len(c) : c[i] = y
    BY <1>6, InRange, Zenon
  <2>2. i \in 1..N
    BY <1>6
  <2>3. CASE i = p
    <3>1. CASE \E f \in Range(reported) : Follows(s[p], f)
      BY <2>1, <2>3, <3>1, <1>13
    <3>2. CASE ByModels(s[p]) /\ \E k \in 1..n : s[p].id = new[k].id /\ s[p].file = new[k].file
      <4>1. ByModels(c[p])
        BY <3>2, <1>3, <1>5, CombinedByModels
      <4>2. PICK k \in 1..n : s[p].id = new[k].id /\ s[p].file = new[k].file
        BY <3>2
      <4>3. k \in 1..m /\ c[p].id = new[k].id /\ c[p].file = new[k].file
        BY <4>2, <1>1, <1>11
      <4> QED
        BY <2>1, <2>3, <4>1, <4>3
    <3> QED
      BY <1>9, <3>1, <3>2
  <2>4. CASE i # p
    <3>1. y = s[i] /\ s[i] \in Range(s)
      BY <2>1, <2>2, <2>4, <1>4, <1>5, InRange
    <3>2. CASE \E f \in Range(reported) : Follows(y, f)
      BY <3>2
    <3>3. CASE ByModels(y) /\ \E k \in 1..n : y.id = new[k].id /\ y.file = new[k].file
      BY <3>3, <1>1
    <3> QED
      BY <3>1, <3>2, <3>3, Zenon DEF Merging
  <2> QED
    BY <2>3, <2>4
<1>17. ASSUME NEW y \in Range(s) PROVE \E i \in 1..N : s[i] = y
  BY <1>4, InRange, Zenon
<1>18. ASSUME NEW f \in Range(reported) PROVE \E y \in Range(c) : Follows(y, f)
  <2>1. PICK y \in Range(s) : Follows(y, f)
    BY Zenon DEF Merging
  <2>2. PICK i \in 1..N : s[i] = y
    BY <1>17
  <2>3. Follows(c[i], f)
    BY <2>1, <2>2, <1>5, <1>13
  <2> QED
    BY <2>3, <1>7
<1>19. ASSUME NEW k \in 1..m PROVE \E y \in Range(c) : Represents(y, new[k])
  <2>1. CASE k = m
    BY <2>1, <1>7, <1>15 DEF x
  <2>2. CASE k \in 1..n
    <3>1. PICK y \in Range(s) : Represents(y, new[k])
      BY <2>2, Zenon DEF Merging
    <3>2. PICK i \in 1..N : s[i] = y
      BY <1>17
    <3>3. Represents(c[i], new[k])
      BY <2>2, <3>1, <3>2, <1>5, <1>14
    <3> QED
      BY <3>3, <1>7
  <2> QED
    BY <1>2, <2>1, <2>2
<1> QED
  <2>1. Merging(c, reported, new, m)
    BY <1>6, <1>12, <1>16, <1>18, <1>19 DEF Merging
  <2> QED
    BY <2>1 DEF c, x, m

\* The step of merge_findings: one new finding is added, or is combined.
LEMMA MergedOne ==
  ASSUME NEW reported, StaticFindings(reported), NEW new, NewFindings(new),
         NEW n \in 0..(Len(new) - 1), Len(new) \in Nat, NEW s, Merging(s, reported, new, n)
  PROVE  Merging(MergeOne(s, new[n + 1]), reported, new, n + 1)
<1> DEFINE x == new[n + 1]
           same == {i \in DOMAIN s : SameIssue(s[i], x)}
           p == FirstOf(same)
<1>1. DOMAIN s = 1..Len(s) /\ Len(s) \in Nat
  BY ListElements, Zenon DEF Merging
<1>2. MergeOne(s, x) = IF same = {} THEN Append(s, x) ELSE [s EXCEPT ![p] = Combine(@, x)]
  BY DEF MergeOne
<1>3. CASE same = {}
  <2>1. Merging(Append(s, x), reported, new, n + 1)
    BY AddedOne
  <2> HIDE DEF same, x
  <2>2. MergeOne(s, x) = Append(s, x)
    BY <1>2, <1>3, Zenon
  <2> QED
    BY <2>1, <2>2 DEF x
<1>4. CASE same # {}
  <2>1. p \in same
    <3>1. same \in SUBSET Nat
      BY <1>1
    <3> HIDE DEF same
    <3> QED
      BY <3>1, <1>4, FirstIs
  <2>2. p \in 1..Len(s) /\ SameIssue(s[p], x)
    BY <2>1, <1>1
  <2>3. MergeOne(s, x) = [s EXCEPT ![p] = Combine(@, x)]
    <3> HIDE DEF same, p, x
    <3> QED
      BY <1>2, <1>4, Zenon
  <2> HIDE DEF p
  <2>4. Merging([s EXCEPT ![p] = Combine(@, x)], reported, new, n + 1)
    BY <2>2, JoinedOne
  <2> QED
    BY <2>3, <2>4
<1> QED
  BY <1>3, <1>4

\* merge_findings after apply_judgements: every reported finding is still at its place,
\* and for every new one there is a finding that stands for it.
LEMMA MergedFindings ==
  ASSUME NEW reported, StaticFindings(reported), NEW judged, Judging(judged),
         NEW new, NewFindings(new)
  PROVE  Merging(MergeFindings(ApplyJudgements(reported, judged), new), reported, new, Len(new))
<1> DEFINE base == ApplyJudgements(reported, judged)
           N == Len(new)
           S == Len(reported)
<1>1. N \in Nat
  BY ListElements, Zenon DEF NewFindings
<1>2. PICK h : MergeOneRun(h, base, new, N)
  BY <1>1, MergeOneTrace, Zenon
<1>3. IsList(base) /\ Len(base) = S /\ \A i \in 1..S : Follows(base[i], reported[i])
  BY AppliedJudgements, Zenon
<1>4. /\ \A y \in Range(base) : \E i \in 1..S : base[i] = y
      /\ \A i \in 1..S : base[i] \in Range(base)
  BY <1>3, InRange
<1>5. /\ \A f \in Range(reported) : \E i \in 1..S : reported[i] = f
      /\ \A i \in 1..S : reported[i] \in Range(reported)
  BY InRange, Zenon DEF StaticFindings
<1> HIDE DEF base
<1>6. Merging(base, reported, new, 0)
  <2>1. DistinctIds(base)
    <3>1. \A i \in 1..S : base[i].id = reported[i].id
      BY <1>3 DEF Follows
    <3> QED
      BY <3>1, <1>3, Zenon DEF DistinctIds, StaticFindings
  <2>2. ASSUME NEW y \in Range(base) PROVE \E f \in Range(reported) : Follows(y, f)
    BY <1>3, <1>4, <1>5
  <2>3. ASSUME NEW f \in Range(reported) PROVE \E y \in Range(base) : Follows(y, f)
    BY <1>3, <1>4, <1>5
  <2> QED
    BY <1>3, <2>1, <2>2, <2>3 DEF Merging
<1> DEFINE T == {n \in 0..N : Merging(h[n], reported, new, n)}
<1>7. 0 \in T
  BY <1>1, <1>2, <1>6 DEF MergeOneRun
<1>8. ASSUME NEW n \in 0..(N - 1), n \in T PROVE n + 1 \in T
  <2>1. n + 1 \in 1..N /\ n + 1 \in 0..N /\ n + 1 - 1 = n
    BY <1>1
  <2> DEFINE b == h[n]
  <2>2. Merging(b, reported, new, n)
    BY <1>8
  <2>3. h[n + 1] = MergeOne(b, new[n + 1])
    BY <1>2, <2>1 DEF MergeOneRun
  <2> HIDE DEF b
  <2>4. Merging(MergeOne(b, new[n + 1]), reported, new, n + 1)
    BY <1>1, <2>2, MergedOne
  <2> QED
    BY <2>1, <2>3, <2>4
<1>9. \A k \in 0..N : k \in T
  <2> HIDE DEF T
  <2> QED
    BY <1>1, <1>7, <1>8, UpTo
<1>10. N \in T
  BY <1>1, <1>9
<1>11. MergeFindings(base, new) = h[N]
  BY <1>2, Zenon DEF MergeFindings, MergeOneRun
<1> QED
  BY <1>10, <1>11 DEF base

\* What the review of one chunk results in.
ReviewResult(r, i, file) ==
  /\ IsList(r.findings)
  /\ DistinctIds(r.findings)
  /\ \A x \in Range(r.findings) : NewFinding(x) /\ x.file = file /\ \E n : x.id = <<"ai", i, n>>
  /\ Judging(r.judgements)
  /\ r.discarded \in Nat

\* The issues of an answer that are accepted.
IssuesOf(s, task, c, code) == Kept(s, LAMBDA x : Accepts(x, task, c, code))

\* The issues of an answer that are accepted.
LEMMA KeptIssues ==
  ASSUME NEW s, IsList(s), NEW task, NEW c, NEW code
  PROVE  /\ IsList(IssuesOf(s, task, c, code))
         /\ \A y \in Range(IssuesOf(s, task, c, code)) :
              \E k \in 1..Len(s) : s[k] = y /\ Accepts(y, task, c, code)
         /\ \A k \in 1..Len(s) : Accepts(s[k], task, c, code) => s[k] \in Range(IssuesOf(s, task, c, code))
         /\ Len(IssuesOf(s, task, c, code)) <= Len(s)
<1> DEFINE P(t) == {i \in DOMAIN t : Accepts(t[i], task, c, code)}
           B(t) == AtPlaces(t, Arranged(P(t), <))
           K == IssuesOf(s, task, c, code)
           I == P(s)
<1>1. \A x : {z \in {x} : z = z} = {x}
  OBVIOUS
<1>2. K = Of(s, B)
  BY DEF IssuesOf, Kept
<1>3. Of(s, B) = B(s)
  <2> HIDE DEF B
  <2>1. {B(z) : z \in {z \in {s} : z = z}} = {B(s)}
    BY <1>1, Zenon
  <2> QED
    BY <2>1, Zenon DEF Of
<1>4. /\ I \in SUBSET (1..Len(s))
      /\ \A i \in I : Accepts(s[i], task, c, code)
      /\ \A i \in 1..Len(s) : Accepts(s[i], task, c, code) => i \in I
  BY ListElements
<1> HIDE DEF I, K
<1>5. B(s) = ElementsIn(s, I)
  BY ArrangedLess, Zenon DEF I, ElementsIn
<1>6. /\ IsList(K) /\ (\A x \in Range(K) : \E i \in I : s[i] = x) /\ \A i \in I : s[i] \in Range(K)
      /\ Len(K) <= Len(s)
  <2> HIDE DEF B
  <2>1. K = ElementsIn(s, I)
    BY <1>2, <1>3, <1>5, Zenon
  <2>2. I \in SUBSET (1..Len(s))
    BY <1>4, Zenon
  <2> QED
    BY <2>1, <2>2, KeptElements
<1>7. ASSUME NEW y \in Range(K)
      PROVE  \E k \in 1..Len(s) : s[k] = y /\ Accepts(y, task, c, code)
  <2>1. PICK i \in I : s[i] = y
    BY <1>6
  <2> QED
    BY <2>1, <1>4
<1>8. ASSUME NEW k \in 1..Len(s), Accepts(s[k], task, c, code)
      PROVE  s[k] \in Range(K)
  BY <1>4, <1>6, <1>8
<1>9. Len(IssuesOf(s, task, c, code)) <= Len(s)
  BY <1>6, Zenon DEF K
<1> QED
  BY <1>6, <1>7, <1>8, <1>9 DEF K

\* The judgements of an answer that are valid.
LEMMA KeptJudgements ==
  ASSUME NEW s, IsList(s)
  PROVE  /\ IsList(Kept(s, ValidJudgement))
         /\ \A y \in Range(Kept(s, ValidJudgement)) :
              \E k \in 1..Len(s) : s[k] = y /\ ValidJudgement(y)
         /\ \A k \in 1..Len(s) : ValidJudgement(s[k]) => s[k] \in Range(Kept(s, ValidJudgement))
         /\ Len(Kept(s, ValidJudgement)) <= Len(s)
<1> DEFINE P(t) == {i \in DOMAIN t : ValidJudgement(t[i])}
           B(t) == AtPlaces(t, Arranged(P(t), <))
           K == Kept(s, ValidJudgement)
           I == P(s)
<1>1. \A x : {z \in {x} : z = z} = {x}
  OBVIOUS
<1>2. K = Of(s, B)
  BY DEF Kept
<1>3. Of(s, B) = B(s)
  <2> HIDE DEF B
  <2>1. {B(z) : z \in {z \in {s} : z = z}} = {B(s)}
    BY <1>1, Zenon
  <2> QED
    BY <2>1, Zenon DEF Of
<1>4. /\ I \in SUBSET (1..Len(s))
      /\ \A i \in I : ValidJudgement(s[i])
      /\ \A i \in 1..Len(s) : ValidJudgement(s[i]) => i \in I
  BY ListElements
<1> HIDE DEF I, K
<1>5. B(s) = ElementsIn(s, I)
  BY ArrangedLess, Zenon DEF I, ElementsIn
<1>6. /\ IsList(K) /\ (\A x \in Range(K) : \E i \in I : s[i] = x) /\ \A i \in I : s[i] \in Range(K)
      /\ Len(K) <= Len(s)
  <2> HIDE DEF B
  <2>1. K = ElementsIn(s, I)
    BY <1>2, <1>3, <1>5, Zenon
  <2>2. I \in SUBSET (1..Len(s))
    BY <1>4, Zenon
  <2> QED
    BY <2>1, <2>2, KeptElements
<1>7. ASSUME NEW y \in Range(K)
      PROVE  \E k \in 1..Len(s) : s[k] = y /\ ValidJudgement(y)
  <2>1. PICK i \in I : s[i] = y
    BY <1>6
  <2> QED
    BY <2>1, <1>4
<1>8. ASSUME NEW k \in 1..Len(s), ValidJudgement(s[k])
      PROVE  s[k] \in Range(K)
  BY <1>4, <1>6, <1>8
<1>9. Len(Kept(s, ValidJudgement)) <= Len(s)
  BY <1>6, Zenon DEF K
<1> QED
  BY <1>6, <1>7, <1>8, <1>9 DEF K

\* The judgements about findings that were shown.
ShownOf(s, shown) == Kept(s, LAMBDA j : j.id \in shown)

\* The judgements of an answer about findings that were shown.
LEMMA KeptShown ==
  ASSUME NEW s, IsList(s), NEW shown
  PROVE  /\ IsList(ShownOf(s, shown))
         /\ \A y \in Range(ShownOf(s, shown)) :
              \E k \in 1..Len(s) : s[k] = y /\ y.id \in shown
         /\ \A k \in 1..Len(s) : s[k].id \in shown => s[k] \in Range(ShownOf(s, shown))
<1> DEFINE P(t) == {i \in DOMAIN t : t[i].id \in shown}
           B(t) == AtPlaces(t, Arranged(P(t), <))
           K == ShownOf(s, shown)
           I == P(s)
<1>1. \A x : {z \in {x} : z = z} = {x}
  OBVIOUS
<1>2. K = Of(s, B)
  BY DEF ShownOf, Kept
<1>3. Of(s, B) = B(s)
  <2> HIDE DEF B
  <2>1. {B(z) : z \in {z \in {s} : z = z}} = {B(s)}
    BY <1>1, Zenon
  <2> QED
    BY <2>1, Zenon DEF Of
<1>4. /\ I \in SUBSET (1..Len(s))
      /\ \A i \in I : s[i].id \in shown
      /\ \A i \in 1..Len(s) : s[i].id \in shown => i \in I
  BY ListElements
<1> HIDE DEF I, K
<1>5. B(s) = ElementsIn(s, I)
  BY ArrangedLess, Zenon DEF I, ElementsIn
<1>6. /\ IsList(K) /\ (\A x \in Range(K) : \E i \in I : s[i] = x) /\ \A i \in I : s[i] \in Range(K)
  <2> HIDE DEF B
  <2>1. K = ElementsIn(s, I)
    BY <1>2, <1>3, <1>5, Zenon
  <2>2. I \in SUBSET (1..Len(s))
    BY <1>4, Zenon
  <2> QED
    BY <2>1, <2>2, KeptElements
<1>7. ASSUME NEW y \in Range(K)
      PROVE  \E k \in 1..Len(s) : s[k] = y /\ y.id \in shown
  <2>1. PICK i \in I : s[i] = y
    BY <1>6
  <2> QED
    BY <2>1, <1>4
<1>8. ASSUME NEW k \in 1..Len(s), s[k].id \in shown
      PROVE  s[k] \in Range(K)
  BY <1>4, <1>6, <1>8
<1> QED
  BY <1>6, <1>7, <1>8 DEF K

\* An accepted issue becomes a finding of its model and file, under the id it is given.
LEMMA IssueFinding ==
  ASSUME NEW issue, issue.first \in Int, issue.last \in Int, ValidIssue(issue),
         NEW i, NEW n, NEW file \in Int, NEW p \in Models
  PROVE  /\ NewFinding(ToFinding(issue, <<"ai", i, n>>, file, p))
         /\ ToFinding(issue, <<"ai", i, n>>, file, p).file = file
         /\ ToFinding(issue, <<"ai", i, n>>, file, p).id = <<"ai", i, n>>
<1> DEFINE id == <<"ai", i, n>>
           conf == Fraction(issue.confidence) \div 10
           evidence == {line.says : line \in Range(Quoted(issue.evidence))}
           x == ToFinding(issue, id, file, p)
<1>1. /\ issue.first <= issue.last
      /\ issue.severity \in Int /\ issue.severity \in Severities /\ issue.category \in Categories
  BY DEF ValidIssue, ValidAnyway, Severities, Info, Critical
<1>6. conf \in 0..10 /\ "open" \in FindingStatuses
  <2>1. PICK h : h = Fraction(issue.confidence)
    OBVIOUS
  <2>2. h \in 0..100
    BY <2>1 DEF ValidIssue
  <2>3. h \div 10 \in 0..10
    BY <2>2
  <2> QED
    BY <2>1, <2>3 DEF FindingStatuses
<1>2. RuleOrder["ai"] \in Int
  BY OwnRulesOrdered DEF OwnRules
<1>3. x = [id |-> id, file |-> file, first |-> issue.first, last |-> issue.last,
           category |-> issue.category, severity |-> issue.severity, sources |-> {p},
           confidence |-> conf, status |-> "open",
           rule |-> "ai", redacted |-> FALSE, formatting |-> FALSE, verified |-> {}, note |-> "none",
           evidence |-> evidence]
  BY DEF ToFinding
<1>4. \E j, k : id = <<"ai", j, k>>
  OBVIOUS
<1> HIDE DEF id, conf, evidence, x
<1>5. NewFinding(x) /\ x.file = file /\ x.id = id
  BY <1>1, <1>2, <1>3, <1>4, <1>6 DEF NewFinding, WellFormed, IsFinding, Fields
<1> QED
  BY <1>5 DEF x, id

\* What an answer results in: findings of its model about its file, and judgements.
LEMMA ReviewedFindings ==
  ASSUME NEW answer, AnswerOf(answer), NEW i, NEW task, NEW c, c.file \in Int,
         NEW code, NEW shown, NEW p \in Models
  PROVE  ReviewResult(ReviewOf(answer, i, task, c, code, shown, p), i, c.file)
<1> DEFINE kept == IssuesOf(answer.issues, task, c, code)
           valid == Kept(answer.judgements, ValidJudgement)
           judged == ShownOf(valid, shown)
           fs == [n \in DOMAIN kept |-> ToFinding(kept[n], <<"ai", i, n>>, c.file, p)]
           js == [n \in DOMAIN judged |->
                    [id |-> judged[n].id, verdict |-> judged[n].verdict,
                     adjusted |-> judged[n].adjusted, reasoned |-> judged[n].reasoned, by |-> p]]
           r == ReviewOf(answer, i, task, c, code, shown, p)
           N == Len(kept)
           M == Len(judged)
<1>1. /\ r.findings = fs /\ r.judgements = js
      /\ r.discarded = (Len(answer.issues) - Len(kept)) + (Len(answer.judgements) - Len(valid))
  BY DEF ReviewOf, IssuesOf, ShownOf
<1>2. /\ IsList(kept)
      /\ \A y \in Range(kept) : \E k \in 1..Len(answer.issues) :
           answer.issues[k] = y /\ Accepts(y, task, c, code)
      /\ Len(kept) <= Len(answer.issues)
  BY KeptIssues DEF AnswerOf
<1>3. /\ IsList(valid) /\ \A y \in Range(valid) : ValidJudgement(y)
      /\ Len(valid) <= Len(answer.judgements)
  <2>1. /\ IsList(valid)
        /\ \A y \in Range(valid) : \E k \in 1..Len(answer.judgements) :
             answer.judgements[k] = y /\ ValidJudgement(y)
        /\ Len(valid) <= Len(answer.judgements)
    BY KeptJudgements DEF AnswerOf
  <2> QED
    BY <2>1
<1> HIDE DEF valid
<1>4. IsList(judged) /\ \A y \in Range(judged) : \E k \in 1..Len(valid) : valid[k] = y
  <2>1. /\ IsList(judged)
        /\ \A y \in Range(judged) : \E k \in 1..Len(valid) : valid[k] = y /\ y.id \in shown
    BY <1>3, KeptShown
  <2> QED
    BY <2>1
<1> HIDE DEF kept, judged, r
<1>5. N \in Nat /\ DOMAIN kept = 1..N /\ M \in Nat /\ DOMAIN judged = 1..M
  BY <1>2, <1>4, ListElements, Zenon
<1>6. /\ fs = [n \in 1..N |-> fs[n]]
      /\ \A n \in 1..N : fs[n] = ToFinding(kept[n], <<"ai", i, n>>, c.file, p)
  BY <1>5
<1>7. js = [n \in 1..M |-> js[n]] /\ \A n \in 1..M : js[n].adjusted = judged[n].adjusted
  BY <1>5
<1> HIDE DEF fs, js
<1>8. IsList(fs) /\ Len(fs) = N /\ IsList(js) /\ Len(js) = M
  BY <1>5, <1>6, <1>7, ListByShape, Zenon
<1>9. ASSUME NEW n \in 1..N
      PROVE  NewFinding(fs[n]) /\ fs[n].file = c.file /\ fs[n].id = <<"ai", i, n>>
  <2>1. kept[n] \in Range(kept)
    BY <1>2, InRange, Zenon
  <2>2. PICK k \in 1..Len(answer.issues) : answer.issues[k] = kept[n] /\ Accepts(kept[n], task, c, code)
    BY <1>2, <2>1
  <2>3. kept[n].first \in Int /\ kept[n].last \in Int
    BY <2>2 DEF AnswerOf
  <2>4. ValidIssue(kept[n])
    BY <2>2, Zenon DEF Accepts
  <2>5. PICK issue, file : issue = kept[n] /\ file = c.file
    OBVIOUS
  <2>6. /\ NewFinding(ToFinding(issue, <<"ai", i, n>>, file, p))
        /\ ToFinding(issue, <<"ai", i, n>>, file, p).file = file
        /\ ToFinding(issue, <<"ai", i, n>>, file, p).id = <<"ai", i, n>>
    BY <2>3, <2>4, <2>5, IssueFinding
  <2> QED
    BY <2>5, <2>6, <1>6, Zenon
<1>10. DistinctIds(fs)
  <2> SUFFICES ASSUME NEW m \in 1..N, NEW n \in 1..N, fs[m].id = fs[n].id
               PROVE  m = n
    BY <1>8 DEF DistinctIds
  <2>1. <<"ai", i, m>> = <<"ai", i, n>>
    BY <1>9
  <2> QED
    BY <2>1
<1>11. ASSUME NEW x \in Range(fs)
       PROVE  NewFinding(x) /\ x.file = c.file /\ \E n : x.id = <<"ai", i, n>>
  <2>1. PICK n \in 1..Len(fs) : fs[n] = x
    BY <1>8, InRange, Zenon
  <2>2. n \in 1..N
    BY <1>8
  <2> QED
    BY <2>1, <2>2, <1>9
<1>12. Judging(js)
  <2>1. ASSUME NEW n \in 1..M PROVE js[n].adjusted \in Severities \cup {NoSeverity}
    <3>1. judged[n] \in Range(judged)
      BY <1>4, InRange, Zenon
    <3>2. PICK k \in 1..Len(valid) : valid[k] = judged[n]
      BY <1>4, <3>1
    <3>3. ValidJudgement(judged[n])
      BY <1>3, <3>2, InRange
    <3> QED
      BY <3>3, <1>7 DEF ValidJudgement
  <2> QED
    BY <2>1, <1>8 DEF Judging
<1>13. r.discarded \in Nat
  <2>1. /\ Len(answer.issues) \in Nat /\ Len(kept) \in Nat
        /\ Len(answer.judgements) \in Nat /\ Len(valid) \in Nat
    BY <1>2, <1>3, ListElements, Zenon DEF AnswerOf
  <2>2. \A a, b, k, v \in Nat : k <= a /\ v <= b => (a - k) + (b - v) \in Nat
    OBVIOUS
  <2>3. (Len(answer.issues) - Len(kept)) + (Len(answer.judgements) - Len(valid)) \in Nat
    BY <1>2, <1>3, <2>1, <2>2, Zenon
  <2> QED
    BY <1>1, <2>3, Zenon
<1> QED
  BY <1>1, <1>8, <1>10, <1>11, <1>12, <1>13 DEF ReviewResult, r

-----------------------------------------------------------------------------
(* Answers to review requests (Answers).                                   *)

\* Some member of a set.
OneOf(s) == CHOOSE x \in s : TRUE

\* How the sum of w over each of these sets is computed.
Summing(h, D, w) ==
  h = [s \in D |-> IF s = {} THEN 0 ELSE w[OneOf(s)] + h[s \ {OneOf(s)}]]

\* A finite set without one of its members has one member less.
LEMMA WithoutOne ==
  ASSUME NEW S, IsFiniteSet(S), NEW s \in SUBSET S
  PROVE  /\ IsFiniteSet(s) /\ Cardinality(s) \in Nat /\ Cardinality(s) <= Cardinality(S)
         /\ Cardinality(s) = 0 <=> s = {}
         /\ s # {} => /\ OneOf(s) \in s
                      /\ s \ {OneOf(s)} \in SUBSET S
                      /\ Cardinality(s \ {OneOf(s)}) = Cardinality(s) - 1
<1>1. IsFiniteSet(s) /\ Cardinality(s) <= Cardinality(S)
  BY FS_Subset
<1>2. Cardinality(s) \in Nat
  BY <1>1, FS_CardinalityType
<1>3. Cardinality(s) = 0 <=> s = {}
  BY <1>1, FS_EmptySet
<1>4. ASSUME s # {} PROVE OneOf(s) \in s
  BY <1>4 DEF OneOf
<1>5. ASSUME s # {} PROVE Cardinality(s \ {OneOf(s)}) = Cardinality(s) - 1
  BY <1>1, <1>4, <1>5, FS_RemoveElement
<1> QED
  BY <1>1, <1>2, <1>3, <1>4, <1>5

\* The sum that MapThenSumSet defines by recursion on sets exists.
LEMMA SomeSum ==
  ASSUME NEW S, IsFiniteSet(S), NEW w
  PROVE  \E h : Summing(h, SUBSET S, w)
<1> DEFINE N == Cardinality(S)
           D(n) == {s \in SUBSET S : Cardinality(s) <= n}
           T == {n \in 0..N : \E h : Summing(h, D(n), w)}
<1>1. N \in Nat
  BY FS_CardinalityType
<1>2. 0 \in T
  <2> DEFINE h == [s \in D(0) |-> 0]
  <2>1. \A s \in D(0) : s = {}
    <3> TAKE s \in D(0)
    <3>1. Cardinality(s) \in Nat /\ Cardinality(s) <= 0 /\ (Cardinality(s) = 0 <=> s = {})
      BY WithoutOne
    <3> QED
      BY <3>1
  <2>2. Summing(h, D(0), w)
    <3> HIDE DEF D
    <3> QED
      BY <2>1 DEF Summing
  <2> HIDE DEF h, D
  <2> QED
    BY <1>1, <2>2
<1>3. ASSUME NEW n \in 0..(N - 1), n \in T PROVE n + 1 \in T
  <2>1. n \in Nat /\ n + 1 \in 0..N
    BY <1>1
  <2>2. PICK h : Summing(h, D(n), w)
    BY <1>3, Zenon
  <2> DEFINE m == n + 1
             E(f, s) == IF s = {} THEN 0 ELSE w[OneOf(s)] + f[s \ {OneOf(s)}]
             g == [s \in D(m) |-> E(h, s)]
  <2>3. ASSUME NEW s \in D(m), s # {} PROVE s \ {OneOf(s)} \in D(n) /\ s \ {OneOf(s)} \in D(m)
    <3>1. /\ Cardinality(s) \in Nat /\ Cardinality(s) <= n + 1
          /\ s \ {OneOf(s)} \in SUBSET S
          /\ Cardinality(s \ {OneOf(s)}) = Cardinality(s) - 1
      BY <2>3, WithoutOne
    <3> QED
      BY <2>1, <3>1
  <2> HIDE DEF D, m
  <2>4. ASSUME NEW s \in D(m), s # {} PROVE g[s \ {OneOf(s)}] = h[s \ {OneOf(s)}]
    <3> DEFINE t == s \ {OneOf(s)}
    <3>1. t \in D(n) /\ t \in D(m)
      BY <2>3, <2>4
    <3> HIDE DEF t
    <3>2. g[t] = E(h, t)
      BY <3>1
    <3>3. h[t] = E(h, t)
      BY <2>2, <3>1 DEF Summing
    <3> QED
      BY <3>2, <3>3 DEF t
  <2>5. g = [s \in D(m) |-> E(g, s)]
    <3>1. \A s \in D(m) : E(h, s) = E(g, s)
      <4> HIDE DEF g
      <4> QED
        BY <2>4, Zenon
    <3>2. g = [s \in D(m) |-> E(h, s)]
      OBVIOUS
    <3> HIDE DEF g, E
    <3> QED
      BY <3>1, <3>2
  <2>6. Summing(g, D(m), w)
    <3> HIDE DEF g
    <3> QED
      BY <2>5 DEF Summing
  <2> HIDE DEF g
  <2> QED
    BY <2>1, <2>6 DEF m
<1>4. \A k \in 0..N : k \in T
  <2> HIDE DEF T
  <2> QED
    BY <1>1, <1>2, <1>3, UpTo
<1>5. N \in T
  BY <1>1, <1>4
<1>6. D(N) = SUBSET S
  BY WithoutOne
<1> HIDE DEF D
<1> QED
  BY <1>5, <1>6

\* A sum over a finite set is where its summands are, if sums of two of them are.
LEMMA SumWithin ==
  ASSUME NEW V, 0 \in V, \A m, n \in V : m + n \in V,
         NEW S, IsFiniteSet(S), NEW w, \A x \in S : w[x] \in V,
         NEW h, Summing(h, SUBSET S, w)
  PROVE  h[S] \in V
<1> DEFINE N == Cardinality(S)
           T == {n \in 0..N : \A s \in SUBSET S : Cardinality(s) <= n => h[s] \in V}
<1>1. N \in Nat
  BY FS_CardinalityType
<1>2. \A s \in SUBSET S : h[s] = IF s = {} THEN 0 ELSE w[OneOf(s)] + h[s \ {OneOf(s)}]
  BY DEF Summing
<1>8. h[{}] = 0
  <2>1. {} \in SUBSET S
    OBVIOUS
  <2> QED
    BY <1>2, <2>1, Zenon
<1>3. 0 \in T
  <2>1. ASSUME NEW s \in SUBSET S, Cardinality(s) <= 0 PROVE h[s] \in V
    <3>1. Cardinality(s) \in Nat /\ (Cardinality(s) = 0 <=> s = {})
      BY WithoutOne
    <3>2. s = {}
      BY <2>1, <3>1
    <3> QED
      BY <1>8, <3>2
  <2> QED
    BY <1>1, <2>1
<1>4. ASSUME NEW n \in 0..(N - 1), n \in T PROVE n + 1 \in T
  <2>1. n \in Nat /\ n + 1 \in 0..N
    BY <1>1
  <2>2. ASSUME NEW s \in SUBSET S, Cardinality(s) <= n + 1 PROVE h[s] \in V
    <3>1. CASE s = {}
      BY <1>8, <3>1
    <3>2. CASE s # {}
      <4> DEFINE x == OneOf(s)
                 t == s \ {x}
      <4>1. Cardinality(s) \in Nat /\ x \in s /\ t \in SUBSET S /\ Cardinality(t) = Cardinality(s) - 1
        BY <3>2, WithoutOne
      <4>2. Cardinality(t) <= n
        BY <2>1, <2>2, <4>1
      <4>3. h[t] \in V
        BY <1>4, <4>1, <4>2
      <4>4. w[x] \in V
        BY <4>1
      <4>5. h[s] = w[x] + h[t]
        BY <1>2, <3>2
      <4> QED
        BY <4>3, <4>4, <4>5
    <3> QED
      BY <3>1, <3>2
  <2> QED
    BY <2>1, <2>2
<1>5. \A k \in 0..N : k \in T
  <2> HIDE DEF T
  <2> QED
    BY <1>1, <1>3, <1>4, UpTo
<1>6. N \in T
  BY <1>1, <1>5
<1>7. N <= N
  BY <1>1
<1> QED
  BY <1>6, <1>7

\* A sum of whole numbers over a finite set is one.
LEMMA SumType ==
  ASSUME NEW S, IsFiniteSet(S), NEW w, \A x \in S : w[x] \in Int,
         NEW h, Summing(h, SUBSET S, w)
  PROVE  h[S] \in Int
<1>1. 0 \in Int /\ \A m, n \in Int : m + n \in Int
  OBVIOUS
<1> QED
  BY <1>1, SumWithin, Zenon

\* A sum of natural numbers over a finite set is one.
LEMMA NaturalSum ==
  ASSUME NEW S, IsFiniteSet(S), NEW w, \A x \in S : w[x] \in Nat,
         NEW h, Summing(h, SUBSET S, w)
  PROVE  h[S] \in Nat
<1>1. 0 \in Nat /\ \A m, n \in Nat : m + n \in Nat
  OBVIOUS
<1> QED
  BY <1>1, SumWithin, Zenon

-----------------------------------------------------------------------------
(* Risk and the plan of a review (Planner).                                *)

\* The weight of the findings at these places.
WeightOf(S, listed) ==
  LET Weight(i) == listed[i].severity + 1 IN MapThenSumSet(Weight, S)

\* The complexity of these functions.
ComplexityOf(S) ==
  LET Complexity(f) == f.complexity \div 5 IN MapThenSumSet(Complexity, S)

\* The weights of findings sum to a number.
LEMMA WeightIsInt ==
  ASSUME NEW S, IsFiniteSet(S), NEW listed, \A i \in S : listed[i].severity \in Int
  PROVE  WeightOf(S, listed) \in Int
<1> DEFINE w == [i \in S |-> listed[i].severity + 1]
           E(h) == [s \in SUBSET S |->
                     IF s = {} THEN 0
                     ELSE (listed[CHOOSE x \in s : TRUE].severity + 1) + h[s \ {CHOOSE x \in s : TRUE}]]
           F(h) == [s \in SUBSET S |-> IF s = {} THEN 0 ELSE w[OneOf(s)] + h[s \ {OneOf(s)}]]
           g == CHOOSE h : h = E(h)
<1>1. \A i \in S : w[i] \in Int
  OBVIOUS
<1>2. ASSUME NEW h PROVE E(h) = F(h)
  <2>1. ASSUME NEW s \in SUBSET S, s # {}
        PROVE  listed[CHOOSE x \in s : TRUE].severity + 1 = w[OneOf(s)]
    <3>1. OneOf(s) \in S
      BY <2>1 DEF OneOf
    <3>2. w[OneOf(s)] = listed[OneOf(s)].severity + 1
      BY <3>1
    <3> HIDE DEF w
    <3> QED
      BY <3>2, Zenon DEF OneOf
  <2>2. ASSUME NEW s \in SUBSET S
        PROVE  (IF s = {} THEN 0
                ELSE (listed[CHOOSE x \in s : TRUE].severity + 1) + h[s \ {CHOOSE x \in s : TRUE}])
                = IF s = {} THEN 0 ELSE w[OneOf(s)] + h[s \ {OneOf(s)}]
    <3> DEFINE x == CHOOSE x \in s : TRUE
    <3>1. OneOf(s) = x
      BY DEF OneOf
    <3> HIDE DEF w, x
    <3>2. CASE s = {}
      BY <3>2
    <3>3. CASE s # {}
      BY <2>1, <3>1, <3>3 DEF x
    <3> QED
      BY <3>2, <3>3
  <2> HIDE DEF w
  <2> QED
    BY <2>2, Zenon
<1>3. WeightOf(S, listed) = g[S]
  BY DEF WeightOf, MapThenSumSet, MapThenFoldSet
<1>4. PICK h : Summing(h, SUBSET S, w)
  BY SomeSum, Zenon
<1> HIDE DEF w
<1>5. h = E(h)
  BY <1>2, <1>4, Zenon DEF Summing
<1>6. g = E(g)
  <2> HIDE DEF E
  <2> QED
    BY <1>5, Zenon
<1>7. Summing(g, SUBSET S, w)
  <2> HIDE DEF g, E
  <2> QED
    BY <1>2, <1>6, Zenon DEF Summing
<1> HIDE DEF g
<1> QED
  BY <1>1, <1>3, <1>7, SumType

\* The complexities of functions sum to a number.
LEMMA ComplexityIsInt ==
  ASSUME NEW S, IsFiniteSet(S), \A f \in S : f.complexity \in Int
  PROVE  ComplexityOf(S) \in Int
<1> DEFINE w == [f \in S |-> f.complexity \div 5]
           E(h) == [s \in SUBSET S |->
                     IF s = {} THEN 0
                     ELSE ((CHOOSE x \in s : TRUE).complexity \div 5) + h[s \ {CHOOSE x \in s : TRUE}]]
           F(h) == [s \in SUBSET S |-> IF s = {} THEN 0 ELSE w[OneOf(s)] + h[s \ {OneOf(s)}]]
           g == CHOOSE h : h = E(h)
<1>1. \A f \in S : w[f] \in Int
  OBVIOUS
<1>2. ASSUME NEW h PROVE E(h) = F(h)
  <2>1. ASSUME NEW s \in SUBSET S, s # {}
        PROVE  (CHOOSE x \in s : TRUE).complexity \div 5 = w[OneOf(s)]
    <3>1. OneOf(s) \in S
      BY <2>1 DEF OneOf
    <3>2. w[OneOf(s)] = OneOf(s).complexity \div 5
      BY <3>1
    <3> HIDE DEF w
    <3> QED
      BY <3>2, Zenon DEF OneOf
  <2>2. ASSUME NEW s \in SUBSET S
        PROVE  (IF s = {} THEN 0
                ELSE ((CHOOSE x \in s : TRUE).complexity \div 5) + h[s \ {CHOOSE x \in s : TRUE}])
                = IF s = {} THEN 0 ELSE w[OneOf(s)] + h[s \ {OneOf(s)}]
    <3> DEFINE x == CHOOSE x \in s : TRUE
    <3>1. OneOf(s) = x
      BY DEF OneOf
    <3> HIDE DEF w, x
    <3>2. CASE s = {}
      BY <3>2
    <3>3. CASE s # {}
      BY <2>1, <3>1, <3>3 DEF x
    <3> QED
      BY <3>2, <3>3
  <2> HIDE DEF w
  <2> QED
    BY <2>2, Zenon
<1>3. ComplexityOf(S) = g[S]
  BY DEF ComplexityOf, MapThenSumSet, MapThenFoldSet
<1>4. PICK h : Summing(h, SUBSET S, w)
  BY SomeSum, Zenon
<1> HIDE DEF w
<1>5. h = E(h)
  BY <1>2, <1>4, Zenon DEF Summing
<1>6. g = E(g)
  <2> HIDE DEF E
  <2> QED
    BY <1>5, Zenon
<1>7. Summing(g, SUBSET S, w)
  <2> HIDE DEF g, E
  <2> QED
    BY <1>2, <1>6, Zenon DEF Summing
<1> HIDE DEF g
<1> QED
  BY <1>1, <1>3, <1>7, SumType

\* What lizard measured.
Complex(functions) == IsFiniteSet(functions) /\ \A f \in functions : f.complexity \in Int

\* The risk of a chunk is a number.
LEMMA RiskIsInt ==
  ASSUME NEW c, NEW listed, IsList(listed), \A i \in 1..Len(listed) : listed[i].severity \in Int,
         NEW functions, Complex(functions)
  PROVE  Risk(c, listed, functions) \in Int
<1> DEFINE F == {f \in functions : f.file = c.file /\ f.complexity >= HighComplexity /\ Overlap(f, c)}
           I == InChunk(c, listed)
<1>1. I \in SUBSET (1..Len(listed)) /\ IsFiniteSet(1..Len(listed))
  <2>1. Len(listed) \in Nat /\ DOMAIN listed = 1..Len(listed)
    BY ListElements, Zenon
  <2>2. IsFiniteSet(1..Len(listed))
    BY <2>1, FS_Interval
  <2> QED
    BY <2>1, <2>2 DEF InChunk
<1>2. IsFiniteSet(I) /\ \A i \in I : listed[i].severity \in Int
  BY <1>1, FS_Subset
<1>3. IsFiniteSet(F) /\ \A f \in F : f.complexity \in Int
  <2>1. F \in SUBSET functions
    OBVIOUS
  <2> QED
    BY <2>1, FS_Subset DEF Complex
<1> HIDE DEF F, I
<1>4. WeightOf(I, listed) \in Int
  BY <1>2, WeightIsInt
<1>5. ComplexityOf(F) \in Int
  BY <1>3, ComplexityIsInt
<1>6. Risk(c, listed, functions) = WeightOf(I, listed) + ComplexityOf(F)
  BY Zenon DEF Risk, WeightOf, ComplexityOf, I, F
<1> QED
  BY <1>4, <1>5, <1>6

\* What the planner needs to know of a chunk.
ChunkOf(c) == c.file \in Int /\ c.index \in Int

\* The order by risk: chunks of these files, indexes, places and risks.
Sooner(f, m, i, g, n, j, r, s) ==
  \/ r > s
  \/ /\ r = s
     /\ \/ f < g \/ (f = g /\ m < n)
        \/ ~ (g < f \/ (g = f /\ n < m)) /\ i < j

\* The order of chunks by risk is strict, total and transitive.
LEMMA SoonerOrders ==
  ASSUME NEW f \in Int, NEW m \in Int, NEW i \in Int, NEW r \in Int,
         NEW g \in Int, NEW n \in Int, NEW j \in Int, NEW s \in Int,
         NEW h \in Int, NEW o \in Int, NEW k \in Int, NEW t \in Int
  PROVE  /\ ~ Sooner(f, m, i, f, m, i, r, r)
         /\ i # j => Sooner(f, m, i, g, n, j, r, s) \/ Sooner(g, n, j, f, m, i, s, r)
         /\ Sooner(f, m, i, g, n, j, r, s) /\ Sooner(g, n, j, h, o, k, s, t)
              => Sooner(f, m, i, h, o, k, r, t)
         /\ Sooner(f, m, i, g, n, j, r, s) => r >= s
BY DEF Sooner

\* The riskiest chunks come first, and all are there.
LEMMA ByRiskElements ==
  ASSUME NEW cs, IsList(cs), \A i \in 1..Len(cs) : ChunkOf(cs[i]),
         NEW listed, IsList(listed), \A i \in 1..Len(listed) : listed[i].severity \in Int,
         NEW functions, Complex(functions)
  PROVE  /\ IsList(ByRisk(cs, listed, functions))
         /\ Len(ByRisk(cs, listed, functions)) = Len(cs)
         /\ \A x \in Range(ByRisk(cs, listed, functions)) : x \in Range(cs)
         /\ \A x \in Range(cs) : x \in Range(ByRisk(cs, listed, functions))
         /\ \A m, n \in 1..Len(cs) : m < n =>
              Risk(ByRisk(cs, listed, functions)[m], listed, functions)
                >= Risk(ByRisk(cs, listed, functions)[n], listed, functions)
<1> DEFINE Earlier(c, d) == c.file < d.file \/ (c.file = d.file /\ c.index < d.index)
           Rate(c) == Risk(c, listed, functions)
           Rated(ds) == [i \in DOMAIN ds |-> [chunk |-> ds[i], risk |-> Rate(ds[i])]]
           Soon(rated, i, j) ==
             \/ rated[i].risk > rated[j].risk
             \/ /\ rated[i].risk = rated[j].risk
                /\ \/ Earlier(rated[i].chunk, rated[j].chunk)
                   \/ ~ Earlier(rated[j].chunk, rated[i].chunk) /\ i < j
           Sorted(rated) ==
             LET S(i, j) == Soon(rated, i, j)
                 places == Arranged(DOMAIN rated, S)
             IN  [n \in DOMAIN places |-> rated[places[n]].chunk]
           q == Rated(cs)
           I == 1..Len(cs)
           R == {p \in I \X I : Soon(q, p[1], p[2])}
           b == ByRisk(cs, listed, functions)
<1>1. Len(cs) \in Nat /\ DOMAIN cs = I /\ DOMAIN q = I
  <2>1. Len(cs) \in Nat /\ DOMAIN cs = I
    BY ListElements, Zenon
  <2> QED
    BY <2>1, Zenon
<1>0. \A x : {z \in {x} : z = z} = {x}
  OBVIOUS
<1>2. b = Sorted(q)
  <2>1. b = Of(Of(cs, Rated), Sorted)
    BY DEF ByRisk
  <2>2. Of(cs, Rated) = q
    <3> HIDE DEF Rated
    <3>1. {Rated(z) : z \in {z \in {cs} : z = z}} = {Rated(cs)}
      BY <1>0, Zenon
    <3> QED
      BY <3>1, Zenon DEF Of
  <2>3. Of(q, Sorted) = Sorted(q)
    <3> HIDE DEF Sorted, q
    <3>1. {Sorted(z) : z \in {z \in {q} : z = z}} = {Sorted(q)}
      BY <1>0, Zenon
    <3> QED
      BY <3>1, Zenon DEF Of
  <2> HIDE DEF Rated, Sorted, q, b
  <2> QED
    BY <2>1, <2>2, <2>3, Zenon
<1> HIDE DEF q
<1> DEFINE S(i, j) == Soon(q, i, j)
           a == Ranked(I, R)
<1>3. Arranged(DOMAIN q, S) = a
  <2> DEFINE A(J) == {p \in J \X J : S(p[1], p[2])}
             B(J) == Of(A(J), LAMBDA before : Ranked(J, before))
  <2>5. Arranged(DOMAIN q, S) = Of(DOMAIN q, B)
    BY DEF Arranged
  <2>6. Of(DOMAIN q, B) = B(DOMAIN q)
    <3> HIDE DEF B
    <3>1. {B(z) : z \in {z \in {DOMAIN q} : z = z}} = {B(DOMAIN q)}
      BY <1>0, Zenon
    <3> QED
      BY <3>1, Zenon DEF Of
  <2>7. B(DOMAIN q) = Ranked(DOMAIN q, A(DOMAIN q))
    <3> HIDE DEF A
    <3>1. {Ranked(DOMAIN q, z) : z \in {z \in {A(DOMAIN q)} : z = z}} = {Ranked(DOMAIN q, A(DOMAIN q))}
      BY <1>0, Zenon
    <3> QED
      BY <3>1, Zenon DEF Of
  <2>8. A(DOMAIN q) = R
    BY <1>1
  <2> HIDE DEF A, B, R, I
  <2> QED
    BY <1>1, <2>5, <2>6, <2>7, <2>8, Zenon
<1>4. b = [n \in DOMAIN a |-> q[a[n]].chunk]
  <2>1. Sorted(q) = [n \in DOMAIN Arranged(DOMAIN q, S) |-> q[Arranged(DOMAIN q, S)[n]].chunk]
    OBVIOUS
  <2> HIDE DEF Sorted, a, b, S
  <2> QED
    BY <1>2, <1>3, <2>1, Zenon
<1>5. \A i \in I : q[i].chunk = cs[i] /\ q[i].risk = Rate(cs[i])
  <2> HIDE DEF Rate
  <2> QED
    BY <1>1 DEF q
<1>6. \A i \in I : /\ cs[i].file \in Int /\ cs[i].index \in Int /\ q[i].risk \in Int
                   /\ q[i].chunk = cs[i] /\ i \in Int
  <2> TAKE i \in I
  <2>1. Rate(cs[i]) \in Int
    BY RiskIsInt, Zenon
  <2> HIDE DEF Rate
  <2> QED
    BY <1>1, <1>5, <2>1 DEF ChunkOf
<1> DEFINE T(i, j) == Sooner(cs[i].file, cs[i].index, i, cs[j].file, cs[j].index, j, q[i].risk, q[j].risk)
<1>7. \A i, j \in I : <<i, j>> \in R <=> T(i, j)
  BY <1>6 DEF Sooner
<1> HIDE DEF R, b
<1>8. OrderOn(R, I)
  <2>1. ASSUME NEW i \in I, NEW j \in I, NEW k \in I
        PROVE  /\ ~ T(i, i)
               /\ i # j => T(i, j) \/ T(j, i)
               /\ T(i, j) /\ T(j, k) => T(i, k)
    <3>1. PICK f, m, r, g, n, s, h, o, t :
            /\ f = cs[i].file /\ m = cs[i].index /\ r = q[i].risk
            /\ g = cs[j].file /\ n = cs[j].index /\ s = q[j].risk
            /\ h = cs[k].file /\ o = cs[k].index /\ t = q[k].risk
      OBVIOUS
    <3>2. /\ f \in Int /\ m \in Int /\ r \in Int /\ g \in Int /\ n \in Int /\ s \in Int
          /\ h \in Int /\ o \in Int /\ t \in Int /\ i \in Int /\ j \in Int /\ k \in Int
      BY <1>6, <3>1
    <3>3. /\ ~ Sooner(f, m, i, f, m, i, r, r)
          /\ i # j => Sooner(f, m, i, g, n, j, r, s) \/ Sooner(g, n, j, f, m, i, s, r)
          /\ Sooner(f, m, i, g, n, j, r, s) /\ Sooner(g, n, j, h, o, k, s, t)
               => Sooner(f, m, i, h, o, k, r, t)
      BY <3>2, SoonerOrders
    <3> QED
      BY <3>1, <3>3, Zenon
  <2> HIDE DEF T, I
  <2> QED
    BY <1>7, <2>1, Zenon DEF OrderOn
<1>9. IsFiniteSet(I) /\ I \in SUBSET (1..Len(cs)) /\ Cardinality(I) = Len(cs)
  <2>1. 1 \in Int /\ Len(cs) \in Int
    BY <1>1
  <2>2. IsFiniteSet(1..Len(cs))
    BY <2>1, FS_Interval, Zenon
  <2>3. Cardinality(1..Len(cs)) = Len(cs)
    <3>1. PICK n : n = Len(cs)
      OBVIOUS
    <3>2. n \in Nat
      BY <1>1, <3>1
    <3>3. Cardinality(1..n) = IF 1 > n THEN 0 ELSE n - 1 + 1
      BY <3>2, FS_Interval
    <3>4. Cardinality(1..n) = n
      BY <3>2, <3>3
    <3> QED
      BY <3>1, <3>4, Zenon
  <2> QED
    BY <2>2, <2>3
<1>10. Lists(a, I, R)
  BY <1>8, <1>9, RankedLists, Zenon
<1> HIDE DEF a
<1>11. /\ DOMAIN a = I
       /\ \A n \in I : a[n] \in I
       /\ \A m, n \in I : m < n <=> <<a[m], a[n]>> \in R
       /\ \A i \in I : \E n \in I : a[n] = i
  <2>1. a = [n \in 1..Cardinality(I) |-> a[n]]
    BY <1>10 DEF Lists
  <2>2. I = 1..Cardinality(I)
    BY <1>9
  <2>3. DOMAIN a = I
    BY <2>1, <2>2
  <2> QED
    BY <1>10, <2>2, <2>3, Zenon DEF Lists
<1>12. b = [n \in 1..Len(cs) |-> b[n]] /\ \A n \in I : b[n] = cs[a[n]]
  <2>1. \A n \in I : b[n] = q[a[n]].chunk
    BY <1>4, <1>11
  <2>2. DOMAIN b = I /\ b = [n \in DOMAIN b |-> b[n]]
    BY <1>4, <1>11
  <2>3. b = [n \in I |-> b[n]]
    BY <2>2
  <2> QED
    BY <2>1, <2>3, <1>6, <1>11
<1>13. IsList(b) /\ Len(b) = Len(cs)
  BY <1>1, <1>12, ListByShape, Zenon
<1>14. ASSUME NEW x \in Range(b) PROVE x \in Range(cs)
  <2>1. PICK n \in 1..Len(b) : b[n] = x
    BY <1>13, InRange, Zenon
  <2>2. n \in I /\ x = cs[a[n]] /\ a[n] \in I
    BY <1>11, <1>12, <1>13, <2>1
  <2> QED
    BY <2>2, InRange, Zenon
<1>15. ASSUME NEW x \in Range(cs) PROVE x \in Range(b)
  <2>1. PICK i \in I : cs[i] = x
    BY InRange, Zenon
  <2>2. PICK n \in I : a[n] = i
    BY <1>11, Zenon
  <2>3. b[n] = x
    BY <1>12, <2>1, <2>2
  <2>4. n \in 1..Len(b)
    BY <1>13
  <2> QED
    BY <1>13, <2>3, <2>4, InRange, Zenon
<1>16. ASSUME NEW m \in I, NEW n \in I, m < n
       PROVE  Rate(b[m]) >= Rate(b[n])
  <2>1. PICK i, j : i = a[m] /\ j = a[n]
    OBVIOUS
  <2>2. i \in I /\ j \in I /\ T(i, j)
    BY <1>7, <1>11, <1>16, <2>1, Zenon
  <2>3. q[i].risk >= q[j].risk
    BY <1>6, <2>2 DEF Sooner
  <2>4. b[m] = cs[i] /\ b[n] = cs[j]
    BY <1>12, <2>1
  <2> HIDE DEF Rate
  <2> QED
    BY <1>5, <2>2, <2>3, <2>4
<1> HIDE DEF I
<1> QED
  BY <1>13, <1>14, <1>15, <1>16, Zenon DEF b, I

\* The chunks that have some risk.
RiskyOf(s, listed, functions) == Kept(s, LAMBDA c : Risk(c, listed, functions) > 0)

\* The chunks that have some risk.
LEMMA KeptCandidates ==
  ASSUME NEW s, IsList(s), NEW listed, NEW functions
  PROVE  /\ IsList(RiskyOf(s, listed, functions))
         /\ \A y \in Range(RiskyOf(s, listed, functions)) :
              \E k \in 1..Len(s) : s[k] = y /\ Risk(y, listed, functions) > 0
         /\ \A k \in 1..Len(s) :
              Risk(s[k], listed, functions) > 0 => s[k] \in Range(RiskyOf(s, listed, functions))
         /\ Len(RiskyOf(s, listed, functions)) <= Len(s)
<1> DEFINE P(t) == {i \in DOMAIN t : Risk(t[i], listed, functions) > 0}
           B(t) == AtPlaces(t, Arranged(P(t), <))
           K == RiskyOf(s, listed, functions)
           I == P(s)
<1>1. \A x : {z \in {x} : z = z} = {x}
  OBVIOUS
<1>2. K = Of(s, B)
  BY DEF RiskyOf, Kept
<1>3. Of(s, B) = B(s)
  <2> HIDE DEF B
  <2>1. {B(z) : z \in {z \in {s} : z = z}} = {B(s)}
    BY <1>1, Zenon
  <2> QED
    BY <2>1, Zenon DEF Of
<1>4. /\ I \in SUBSET (1..Len(s))
      /\ \A i \in I : Risk(s[i], listed, functions) > 0
      /\ \A i \in 1..Len(s) : Risk(s[i], listed, functions) > 0 => i \in I
  BY ListElements
<1> HIDE DEF I, K
<1>5. B(s) = ElementsIn(s, I)
  BY ArrangedLess, Zenon DEF I, ElementsIn
<1>6. /\ IsList(K) /\ (\A x \in Range(K) : \E i \in I : s[i] = x) /\ \A i \in I : s[i] \in Range(K)
      /\ Len(K) <= Len(s)
  <2> HIDE DEF B
  <2>1. K = ElementsIn(s, I)
    BY <1>2, <1>3, <1>5, Zenon
  <2>2. I \in SUBSET (1..Len(s))
    BY <1>4, Zenon
  <2> QED
    BY <2>1, <2>2, KeptElements
<1>7. ASSUME NEW y \in Range(K)
      PROVE  \E k \in 1..Len(s) : s[k] = y /\ Risk(y, listed, functions) > 0
  <2>1. PICK i \in I : s[i] = y
    BY <1>6
  <2> QED
    BY <2>1, <1>4
<1>8. ASSUME NEW k \in 1..Len(s), Risk(s[k], listed, functions) > 0
      PROVE  s[k] \in Range(K)
  BY <1>4, <1>6, <1>8
<1>9. Len(RiskyOf(s, listed, functions)) <= Len(s)
  BY <1>6, Zenon DEF K
<1> QED
  BY <1>6, <1>7, <1>8, <1>9 DEF K

\* FirstN is the beginning of a list: as much as is asked for, or all of it.
LEMMA FirstElements ==
  ASSUME NEW s, IsList(s), NEW n \in Nat
  PROVE  /\ IsList(FirstN(s, n))
         /\ Len(FirstN(s, n)) \in Nat
         /\ Len(FirstN(s, n)) <= n /\ Len(FirstN(s, n)) <= Len(s)
         /\ Len(FirstN(s, n)) < n => Len(FirstN(s, n)) = Len(s)
         /\ \A i \in 1..Len(FirstN(s, n)) : FirstN(s, n)[i] = s[i]
<1> DEFINE m == Smaller(n, Len(s))
<1>1. Len(s) \in Nat
  BY ListElements, Zenon
<1>2. m \in Nat /\ m <= Len(s) /\ m <= n /\ (m < n => m = Len(s))
  BY <1>1 DEF Smaller
<1>3. FirstN(s, n) = SubSeq(s, 1, m)
  BY DEF FirstN
<1> HIDE DEF m
<1>4. /\ IsList(SubSeq(s, 1, m))
      /\ Len(SubSeq(s, 1, m)) = m
      /\ \A i \in 1..m : SubSeq(s, 1, m)[i] = s[i]
  BY <1>2, PrefixList
<1> QED
  BY <1>2, <1>3, <1>4

\* What plan_review promises of a plan.
Planned(review, style, pieces, listed, functions, level, max) ==
  /\ IsList(review) /\ IsList(style)
  /\ \A c \in Range(review) : c \in Range(pieces)
  /\ \A c \in Range(style) : c \in Range(pieces)
  /\ Len(review) + Len(style) <= max
  /\ \A c \in Range(review), d \in Range(pieces) \ Range(review) :
       Risk(c, listed, functions) >= Risk(d, listed, functions)
  /\ Range(style) # {} => \A c \in Range(pieces) : c \in Range(review)
  /\ Thorough(level) /\ Len(review) + Len(style) < max => \A c \in Range(pieces) : c \in Range(style)

\* PlanReview (plan_review) plans: within the budget, the riskiest chunks first, and style
\* only when every chunk is reviewed.
LEMMA PlannedChunks ==
  ASSUME NEW pieces, IsList(pieces), \A c \in Range(pieces) : ChunkOf(c),
         NEW listed, IsList(listed), \A f \in Range(listed) : f.severity \in Int,
         NEW functions, Complex(functions), NEW level, NEW max \in Nat
  PROVE  /\ Planned(PlanReview(pieces, listed, functions, level, max).review,
                    PlanReview(pieces, listed, functions, level, max).style,
                    pieces, listed, functions, level, max)
         /\ PlanReview(pieces, listed, functions, level, max).skipped \in Nat
<1> DEFINE cs == Candidates(pieces, listed, functions, level)
           Rate(c) == Risk(c, listed, functions)
           s == ByRisk(cs, listed, functions)
           review == FirstN(s, max)
           style == IF Thorough(level) THEN FirstN(s, max - Len(review)) ELSE <<>>
           plan == PlanReview(pieces, listed, functions, level, max)
<1>1. CASE level = "static"
  <2>1. plan.review = <<>> /\ plan.style = <<>> /\ plan.skipped = Len(pieces)
    BY <1>1 DEF PlanReview
  <2>2. ~ Thorough(level)
    BY <1>1 DEF Thorough
  <2>3. IsList(<<>>) /\ Range(<<>>) = {} /\ Len(<<>>) + Len(<<>>) <= max
    BY EmptyIsList
  <2> HIDE DEF plan
  <2>4. plan.skipped \in Nat
    BY <2>1, ListElements
  <2> QED
    BY <2>1, <2>2, <2>3, <2>4 DEF Planned, plan
<1>2. CASE level # "static"
  <2>1. plan.review = review /\ plan.style = style /\ plan.skipped = Len(pieces) - Len(review)
    BY <1>2 DEF PlanReview
  <2>2. \A i \in 1..Len(listed) : listed[i].severity \in Int
    BY InRange
  <2>3. \A c : Rate(c) \in Int
    BY <2>2, RiskIsInt, Zenon
  <2>4. /\ IsList(cs)
        /\ \A c \in Range(cs) : c \in Range(pieces)
        /\ \A c \in Range(pieces) : c \in Range(cs) \/ (~ Rate(c) > 0 /\ ~ Thorough(level))
        /\ Thorough(level) \/ \A c \in Range(cs) : Rate(c) > 0
        /\ Len(cs) <= Len(pieces)
    <3>1. CASE Thorough(level)
      <4>1. cs = pieces
        BY <3>1 DEF Candidates
      <4> HIDE DEF cs, Rate
      <4> QED
        BY <3>1, <4>1, ListElements
    <3>2. CASE ~ Thorough(level)
      <4>1. cs = RiskyOf(pieces, listed, functions)
        BY <3>2 DEF Candidates, RiskyOf
      <4>2. /\ IsList(RiskyOf(pieces, listed, functions))
            /\ \A y \in Range(RiskyOf(pieces, listed, functions)) :
                 \E k \in 1..Len(pieces) : pieces[k] = y /\ Risk(y, listed, functions) > 0
            /\ \A k \in 1..Len(pieces) : Risk(pieces[k], listed, functions) > 0
                 => pieces[k] \in Range(RiskyOf(pieces, listed, functions))
            /\ Len(RiskyOf(pieces, listed, functions)) <= Len(pieces)
        BY KeptCandidates, Zenon
      <4> HIDE DEF cs
      <4>3. /\ \A y \in Range(cs) : \E k \in 1..Len(pieces) : pieces[k] = y /\ Rate(y) > 0
            /\ \A k \in 1..Len(pieces) : Rate(pieces[k]) > 0 => pieces[k] \in Range(cs)
        BY <4>1, <4>2, Zenon
      <4> HIDE DEF Rate
      <4>4. ASSUME NEW c \in Range(cs) PROVE c \in Range(pieces) /\ Rate(c) > 0
        BY <4>3, InRange
      <4>5. ASSUME NEW c \in Range(pieces), c \notin Range(cs) PROVE ~ Rate(c) > 0
        <5>1. PICK k \in 1..Len(pieces) : pieces[k] = c
          BY InRange
        <5> QED
          BY <4>3, <4>5, <5>1
      <4>6. IsList(cs) /\ Len(cs) <= Len(pieces)
        BY <4>1, <4>2, Zenon
      <4> QED
        BY <3>2, <4>4, <4>5, <4>6, Zenon
    <3> QED
      BY <3>1, <3>2, Zenon
  <2> HIDE DEF cs
  <2>5. \A i \in 1..Len(cs) : ChunkOf(cs[i])
    BY <2>4, InRange
  <2>6. /\ IsList(s)
        /\ Len(s) = Len(cs)
        /\ \A x \in Range(s) : x \in Range(cs)
        /\ \A x \in Range(cs) : x \in Range(s)
        /\ \A m, n \in 1..Len(cs) : m < n => Rate(s[m]) >= Rate(s[n])
    BY <2>2, <2>4, <2>5, ByRiskElements, Zenon
  <2> HIDE DEF s, Rate
  <2>7. Len(s) \in Nat
    BY <2>6, ListElements, Zenon
  <2>8. /\ IsList(review) /\ Len(review) \in Nat
        /\ Len(review) <= max /\ Len(review) <= Len(s)
        /\ Len(review) < max => Len(review) = Len(s)
        /\ \A i \in 1..Len(review) : review[i] = s[i]
    BY <2>6, FirstElements, Zenon
  <2> HIDE DEF review
  <2> DEFINE rest == max - Len(review)
  <2>9. rest \in Nat
    BY <2>8
  <2>10. ASSUME Thorough(level)
         PROVE  /\ IsList(style) /\ Len(style) \in Nat
                /\ Len(style) <= rest /\ Len(style) <= Len(s)
                /\ Len(style) < rest => Len(style) = Len(s)
                /\ \A i \in 1..Len(style) : style[i] = s[i]
    <3>1. style = FirstN(s, rest)
      BY <2>10
    <3> HIDE DEF style, rest
    <3> QED
      BY <2>6, <2>9, <3>1, FirstElements
  <2>11. ASSUME ~ Thorough(level) PROVE IsList(style) /\ Len(style) = 0 /\ Range(style) = {}
    BY <2>11, EmptyIsList
  <2> HIDE DEF style
  <2>12. IsList(style) /\ Len(style) \in Nat /\ Len(review) + Len(style) <= max
    <3>1. CASE Thorough(level)
      BY <2>8, <2>10, <3>1
    <3>2. CASE ~ Thorough(level)
      BY <2>8, <2>11, <3>2
    <3> QED
      BY <3>1, <3>2
  <2>13. ASSUME NEW t, IsList(t), Len(t) \in Nat, Len(t) <= Len(s), \A i \in 1..Len(t) : t[i] = s[i]
         PROVE  /\ \A c \in Range(t) : c \in Range(pieces)
                /\ Len(t) = Len(s) => \A c \in Range(s) : c \in Range(t)
                /\ \A c \in Range(s) : c \notin Range(t) =>
                     \E n \in 1..Len(s) : s[n] = c /\ n > Len(t)
    <3>1. \A i \in 1..Len(t) : t[i] = s[i] /\ i \in 1..Len(s)
      BY <2>7, <2>13
    <3>2. ASSUME NEW c \in Range(t) PROVE c \in Range(pieces)
      <4>1. PICK i \in 1..Len(t) : t[i] = c
        BY <2>13, InRange
      <4>2. s[i] = c /\ s[i] \in Range(s)
        BY <2>6, <3>1, <4>1, InRange
      <4> QED
        BY <2>4, <2>6, <4>2
    <3>3. ASSUME NEW c \in Range(s), c \notin Range(t)
          PROVE  \E n \in 1..Len(s) : s[n] = c /\ n > Len(t)
      <4>1. PICK n \in 1..Len(s) : s[n] = c
        BY <2>6, InRange
      <4>2. n \notin 1..Len(t)
        <5>1. SUFFICES ASSUME n \in 1..Len(t) PROVE FALSE
          OBVIOUS
        <5>2. t[n] = c /\ t[n] \in Range(t)
          BY <2>13, <4>1, <5>1, InRange
        <5> QED
          BY <3>3, <5>2
      <4> QED
        BY <2>7, <2>13, <4>1, <4>2
    <3>4. ASSUME Len(t) = Len(s), NEW c \in Range(s) PROVE c \in Range(t)
      <4>1. SUFFICES ASSUME c \notin Range(t) PROVE FALSE
        OBVIOUS
      <4>2. PICK n \in 1..Len(s) : n > Len(t)
        BY <3>3, <3>4, <4>1
      <4> QED
        BY <2>7, <3>4, <4>2
    <3> QED
      BY <3>2, <3>3, <3>4
  <2>14. ASSUME NEW c \in Range(review), NEW d \in Range(pieces), d \notin Range(review)
         PROVE  Rate(c) >= Rate(d)
    <3>1. PICK m \in 1..Len(review) : review[m] = c
      BY <2>8, InRange
    <3>2. s[m] = c /\ m \in 1..Len(s) /\ c \in Range(s)
      BY <2>6, <2>7, <2>8, <3>1, InRange
    <3>3. CASE d \in Range(cs)
      <4>1. PICK n \in 1..Len(s) : s[n] = d /\ n > Len(review)
        BY <2>6, <2>8, <2>13, <2>14, <3>3
      <4>2. m < n
        BY <2>8, <3>1, <4>1
      <4> QED
        BY <2>6, <3>2, <4>1, <4>2
    <3>4. CASE d \notin Range(cs)
      <4>1. ~ Rate(d) > 0 /\ ~ Thorough(level)
        BY <2>4, <3>4
      <4>2. Rate(c) > 0
        BY <2>4, <2>6, <3>2, <4>1
      <4> QED
        BY <2>3, <4>1, <4>2
    <3> QED
      BY <3>3, <3>4
  <2>15. \A c \in Range(review) : c \in Range(pieces)
    BY <2>8, <2>13
  <2>16. \A c \in Range(style) : c \in Range(pieces)
    BY <2>10, <2>11, <2>13
  <2>17. ASSUME Thorough(level), NEW t, IsList(t), Len(t) \in Nat, Len(t) = Len(s),
                \A i \in 1..Len(t) : t[i] = s[i],
                NEW c \in Range(pieces)
         PROVE  c \in Range(t)
    <3>1. c \in Range(s) /\ Len(t) <= Len(s)
      BY <2>4, <2>6, <2>7, <2>17
    <3> QED
      BY <2>13, <2>17, <3>1
  <2>18. ASSUME Range(style) # {}, NEW c \in Range(pieces) PROVE c \in Range(review)
    <3>1. Thorough(level)
      BY <2>11, <2>18
    <3>2. Len(style) # 0
      <4>1. PICK y \in Range(style) : TRUE
        BY <2>18
      <4>2. PICK i \in 1..Len(style) : style[i] = y
        BY <2>12, InRange
      <4> QED
        BY <2>12, <4>2
    <3>3. Len(review) = Len(s)
      BY <2>8, <2>10, <2>12, <3>1, <3>2
    <3> QED
      BY <2>8, <2>17, <3>1, <3>3
  <2>19. ASSUME Thorough(level), Len(review) + Len(style) < max, NEW c \in Range(pieces)
         PROVE  c \in Range(style)
    <3>1. Len(style) = Len(s)
      BY <2>8, <2>10, <2>19
    <3> QED
      BY <2>10, <2>17, <2>19, <3>1
  <2> HIDE DEF plan, rest
  <2>20. Planned(review, style, pieces, listed, functions, level, max)
    BY <2>8, <2>12, <2>14, <2>15, <2>16, <2>18, <2>19, Zenon DEF Planned, Rate
  <2>21. plan.skipped \in Nat
    <3>1. Len(pieces) \in Nat
      BY ListElements, Zenon
    <3> QED
      BY <2>1, <2>4, <2>6, <2>7, <2>8, <3>1
  <2> QED
    BY <2>1, <2>20, <2>21, Zenon DEF plan
<1> QED
  BY <1>1, <1>2

-----------------------------------------------------------------------------
(* Results of all requests, and verification.                              *)

\* A request without an answer results in nothing.
LEMMA NothingReviewed ==
  ASSUME NEW i, NEW file
  PROVE  ReviewResult(NoReview, i, file)
<1>1. NoReview.findings = <<>> /\ NoReview.judgements = <<>> /\ NoReview.discarded = 0
  BY DEF NoReview
<1>2. IsList(<<>>) /\ Len(<<>>) = 0 /\ Range(<<>>) = {} /\ 1..0 = {}
  BY EmptyIsList
<1> QED
  BY <1>1, <1>2 DEF ReviewResult, DistinctIds, Judging

\* What all requests of a review result in.
ReviewResults(results, files) ==
  IsList(results) /\ \A i \in 1..Len(results) : \E file \in files : ReviewResult(results[i], i, file)

\* The results of all requests: new findings with distinct ids, about reviewed files.
LEMMA AllReviewed ==
  ASSUME NEW files, NEW results, ReviewResults(results, files)
  PROVE  /\ NewFindings(AiFindings(results))
         /\ \A x \in Range(AiFindings(results)) : x.file \in files
         /\ Judging(Judgements(results))
<1> DEFINE N == Len(results)
           fs == [i \in DOMAIN results |-> results[i].findings]
           js == [i \in DOMAIN results |-> results[i].judgements]
<1>1. N \in Nat /\ DOMAIN results = 1..N
  BY ListElements, Zenon DEF ReviewResults
<1>2. ASSUME NEW i \in 1..N
      PROVE  /\ IsList(results[i].findings) /\ DistinctIds(results[i].findings)
             /\ Judging(results[i].judgements)
             /\ \A x \in Range(results[i].findings) :
                  NewFinding(x) /\ x.file \in files /\ \E n : x.id = <<"ai", i, n>>
  <2>1. PICK file \in files : ReviewResult(results[i], i, file)
    BY DEF ReviewResults
  <2> QED
    BY <2>1 DEF ReviewResult
<1>3. fs = [i \in 1..N |-> fs[i]] /\ js = [i \in 1..N |-> js[i]]
  BY <1>1
<1>4. \A i \in 1..N : fs[i] = results[i].findings /\ js[i] = results[i].judgements
  BY <1>1
<1>5. AiFindings(results) = FlattenSeq(fs) /\ Judgements(results) = FlattenSeq(js)
  BY DEF AiFindings, Judgements
<1> HIDE DEF fs, js
<1>6. IsList(fs) /\ Len(fs) = N /\ IsList(js) /\ Len(js) = N
  BY <1>1, <1>3, ListByShape, Zenon
<1>7. \A i \in 1..Len(fs) : IsList(fs[i]) /\ DistinctIds(fs[i])
  BY <1>2, <1>4, <1>6
<1>8. \A i \in 1..Len(fs) : \A x \in Range(fs[i]) :
        NewFinding(x) /\ x.file \in files /\ \E n : x.id = <<"ai", i, n>>
  BY <1>2, <1>4, <1>6
<1>9. ASSUME NEW i \in 1..Len(fs), NEW j \in 1..Len(fs), i # j,
             NEW x \in Range(fs[i]), NEW y \in Range(fs[j])
      PROVE  x.id # y.id
  <2>1. PICK m : x.id = <<"ai", i, m>>
    BY <1>8
  <2>2. PICK n : y.id = <<"ai", j, n>>
    BY <1>8
  <2>3. <<"ai", i, m>> # <<"ai", j, n>>
    BY <1>9
  <2> QED
    BY <2>1, <2>2, <2>3
<1>10. /\ IsList(FlattenSeq(fs))
       /\ \A x : x \in Range(FlattenSeq(fs)) <=> \E i \in 1..Len(fs) : x \in Range(fs[i])
       /\ DistinctIds(FlattenSeq(fs))
  BY <1>6, <1>7, <1>9, Flattened, Zenon
<1>11. \A x \in Range(FlattenSeq(fs)) : NewFinding(x) /\ x.file \in files
  BY <1>8, <1>10
<1>12. /\ IsList(FlattenSeq(js))
       /\ \A x \in Range(FlattenSeq(js)) : \E i \in 1..Len(js) : x \in Range(js[i])
  <2>1. \A i \in 1..Len(js) : IsList(js[i])
    BY <1>2, <1>4, <1>6 DEF Judging
  <2> QED
    BY <1>6, <2>1, Flattened, Zenon
<1>13. \A k \in 1..Len(FlattenSeq(js)) : FlattenSeq(js)[k].adjusted \in Severities \cup {NoSeverity}
  <2> TAKE k \in 1..Len(FlattenSeq(js))
  <2>1. FlattenSeq(js)[k] \in Range(FlattenSeq(js))
    BY <1>12, InRange, Zenon
  <2>2. PICK i \in 1..Len(js) : FlattenSeq(js)[k] \in Range(js[i])
    BY <1>12, <2>1, Zenon
  <2>3. Judging(js[i])
    BY <1>2, <1>4, <1>6
  <2>4. PICK n \in 1..Len(js[i]) : js[i][n] = FlattenSeq(js)[k]
    BY <2>2, <2>3, InRange DEF Judging
  <2> QED
    BY <2>3, <2>4 DEF Judging
<1> QED
  BY <1>5, <1>10, <1>11, <1>12, <1>13 DEF NewFindings, Judging

\* What is known of a finding once verification is over.
Checked(y, from) ==
  /\ DOMAIN y = Fields /\ WellFormed(y)
  /\ y.verified \cap y.sources = {}
  /\ AiOnly(y) /\ y.status = "open" /\ y.severity >= from => y.verified # {} \/ y.note # "none"

\* A finding that follows a static one is not a model's alone, so it needs no check.
LEMMA FollowerIsATools ==
  ASSUME NEW f, StaticFinding(f), NEW x, Follows(x, f), NEW from
  PROVE  ~ AiOnly(x) /\ Checked(x, from)
<1>1. ~ AiOnly(x)
  <2>1. f.sources # {} /\ f.sources \subseteq Tools
    BY DEF StaticFinding
  <2> QED
    BY <2>1, ToolsAreNoModels DEF Follows, AiOnly
<1> QED
  BY <1>1 DEF Follows, Checked

\* A finding that could not be verified says so.
LEMMA UnverifiedIsChecked ==
  ASSUME NEW x, ByModels(x), NEW from
  PROVE  Checked(NotVerified(x), from) /\ NotVerified(x).id = x.id
BY DEF ByModels, Checked, NotVerified, Fields, WellFormed, IsFinding

\* What a second model says of a finding.
VerdictOf(answer) ==
  answer.corrected \in Severities \cup {NoSeverity} /\ answer.confidence \in 0..10

\* A finding with a verdict has been looked at by another model than those that found it.
LEMMA VerdictIsChecked ==
  ASSUME NEW x, ByModels(x), NEW answer, VerdictOf(answer), NEW p, p \notin x.sources, NEW from
  PROVE  Checked(ApplyVerdict(x, answer, p), from) /\ ApplyVerdict(x, answer, p).id = x.id
<1>1. CASE answer.verdict = "valid"
  <2> DEFINE sev == IF answer.corrected = NoSeverity THEN x.severity ELSE answer.corrected
             conf == Larger(x.confidence, answer.confidence)
             y == [x EXCEPT !.verified = x.verified \cup {p}, !.severity = sev, !.confidence = conf]
  <2>1. sev \in Int /\ sev \in Severities /\ conf \in 0..10
    BY SeverityTypes DEF ByModels, WellFormed, IsFinding, VerdictOf, Larger
  <2>2. ApplyVerdict(x, answer, p) = y
    BY <1>1 DEF ApplyVerdict
  <2> HIDE DEF sev, conf
  <2>3. /\ DOMAIN y = Fields /\ y.verified = {p} /\ y.sources = x.sources /\ y.severity = sev
        /\ y.file = x.file /\ y.first = x.first /\ y.rule = x.rule /\ y.id = x.id
        /\ y.last = x.last /\ y.category = x.category /\ y.status = x.status /\ y.confidence = conf
    BY DEF ByModels, Fields
  <2> HIDE DEF y
  <2> QED
    BY <2>1, <2>2, <2>3 DEF Checked, WellFormed, IsFinding, ByModels
<1>2. CASE answer.verdict = "invalid"
  <2>1. ApplyVerdict(x, answer, p) = [x EXCEPT !.status = "needs_review", !.note = "disagreed"]
    BY <1>2 DEF ApplyVerdict
  <2> QED
    BY <2>1 DEF Checked, WellFormed, IsFinding, ByModels, Fields, FindingStatuses
<1>3. CASE answer.verdict # "valid" /\ answer.verdict # "invalid"
  <2>1. ApplyVerdict(x, answer, p) = [x EXCEPT !.note = "noted"]
    BY <1>3 DEF ApplyVerdict
  <2> QED
    BY <2>1 DEF Checked, WellFormed, IsFinding, ByModels, Fields, FindingStatuses
<1> QED
  BY <1>1, <1>2, <1>3

\* The findings of the tools stand in this list.
Stands(listed, reported) ==
  /\ StaticFindings(reported)
  /\ IsList(listed) /\ DistinctIds(listed)
  /\ \A f \in Range(reported) : \E x \in Range(listed) : Follows(x, f)

\* What the verification of these findings has resulted in.
Verification(results, listed, from) ==
  /\ IsList(results)
  /\ \A i \in 1..Len(results) : \E x \in Range(listed) :
       AiOnly(x) /\ results[i].id = x.id /\ Checked(results[i], from)
  /\ \A x \in Range(listed) :
       ByModels(x) /\ AiOnly(x) /\ x.status = "open" /\ x.severity >= from =>
         \E i \in 1..Len(results) : results[i].id = x.id

\* What verification does with one finding: nothing, or it is marked under its id.
LEMMA UpdatedFinding ==
  ASSUME NEW listed, IsList(listed), DistinctIds(listed),
         NEW results, NEW from, Verification(results, listed, from),
         NEW x \in Range(listed)
  PROVE  \/ Updated(x, results) = x /\ ~ \E i \in 1..Len(results) : results[i].id = x.id
         \/ AiOnly(x) /\ Updated(x, results).id = x.id /\ Checked(Updated(x, results), from)
<1>1. DOMAIN results = 1..Len(results)
  BY ListElements, Zenon DEF Verification
<1>2. CASE ~ \E i \in 1..Len(results) : results[i].id = x.id
  <2>1. Updated(x, results) = x
    BY <1>1, <1>2, Zenon DEF Updated
  <2> QED
    BY <1>2, <2>1
<1>3. CASE \E i \in 1..Len(results) : results[i].id = x.id
  <2> DEFINE j == CHOOSE i \in 1..Len(results) : results[i].id = x.id
  <2>1. j \in 1..Len(results) /\ results[j].id = x.id
    BY <1>3, Zenon
  <2>2. Updated(x, results) = results[j]
    BY <1>1, <1>3, Zenon DEF Updated
  <2> HIDE DEF j
  <2>3. PICK y \in Range(listed) : AiOnly(y) /\ results[j].id = y.id /\ Checked(results[j], from)
    BY <2>1 DEF Verification
  <2>4. PICK m \in 1..Len(listed) : listed[m] = x
    BY InRange, Zenon
  <2>5. PICK n \in 1..Len(listed) : listed[n] = y
    BY InRange, Zenon
  <2>6. x = y
    <3>1. listed[m].id = listed[n].id
      BY <2>1, <2>3, <2>4, <2>5
    <3>2. m = n
      BY <3>1 DEF DistinctIds
    <3> QED
      BY <2>4, <2>5, <3>2
  <2> QED
    BY <2>1, <2>2, <2>3, <2>6
<1> QED
  BY <1>2, <1>3

\* Verification leaves every static finding as it is and marks what it checked.
LEMMA VerifiedFindings ==
  ASSUME NEW reported, NEW before, Stands(before, reported),
         \A x \in Range(before) : (\E f \in Range(reported) : Follows(x, f)) \/ ByModels(x),
         NEW results, NEW from, Verification(results, before, from),
         NEW after, after = [i \in DOMAIN before |-> Updated(before[i], results)]
  PROVE  Stands(after, reported) /\ \A y \in Range(after) : Checked(y, from)
<1> DEFINE N == Len(before)
<1>1. IsList(before) /\ DistinctIds(before) /\ N \in Nat /\ DOMAIN before = 1..N
  BY ListElements, Zenon DEF Stands
<1>2. after = [i \in 1..N |-> after[i]] /\ \A i \in 1..N : after[i] = Updated(before[i], results)
  BY <1>1
<1>3. IsList(after) /\ Len(after) = N
  BY <1>1, <1>2, ListByShape, Zenon
<1>4. ASSUME NEW x \in Range(before)
      PROVE  /\ Updated(x, results).id = x.id
             /\ Checked(Updated(x, results), from)
             /\ ~ AiOnly(x) => Updated(x, results) = x
  <2>1. \/ Updated(x, results) = x /\ ~ \E i \in 1..Len(results) : results[i].id = x.id
        \/ AiOnly(x) /\ Updated(x, results).id = x.id /\ Checked(Updated(x, results), from)
    BY <1>1, UpdatedFinding, Zenon
  <2>2. CASE Updated(x, results) = x /\ ~ \E i \in 1..Len(results) : results[i].id = x.id
    <3>1. CASE \E f \in Range(reported) : Follows(x, f)
      <4>1. PICK f \in Range(reported) : Follows(x, f)
        BY <3>1
      <4>2. StaticFinding(f)
        BY DEF Stands, StaticFindings
      <4>3. Checked(x, from)
        BY <4>1, <4>2, FollowerIsATools, Zenon
      <4> QED
        BY <2>2, <4>3
    <3>2. CASE ByModels(x)
      <4>1. ~ (AiOnly(x) /\ x.status = "open" /\ x.severity >= from)
        BY <2>2, <3>2 DEF Verification
      <4>2. Checked(x, from)
        BY <3>2, <4>1 DEF Checked, ByModels
      <4> QED
        BY <2>2, <4>2
    <3> QED
      BY <3>1, <3>2
  <2>3. CASE AiOnly(x) /\ Updated(x, results).id = x.id /\ Checked(Updated(x, results), from)
    BY <2>3, Zenon
  <2> QED
    BY <2>1, <2>2, <2>3, Zenon
<1>5. \A i \in 1..N : before[i] \in Range(before)
  BY <1>1, InRange, Zenon
<1>6. \A i \in 1..N : after[i].id = before[i].id /\ Checked(after[i], from)
  BY <1>2, <1>4, <1>5, Zenon
<1>7. DistinctIds(after)
  BY <1>1, <1>3, <1>6 DEF DistinctIds
<1>8. ASSUME NEW y \in Range(after) PROVE Checked(y, from)
  <2>1. PICK i \in 1..N : after[i] = y
    BY <1>3, InRange
  <2> QED
    BY <1>6, <2>1
<1>9. ASSUME NEW f \in Range(reported) PROVE \E y \in Range(after) : Follows(y, f)
  <2>1. PICK x \in Range(before) : Follows(x, f)
    BY DEF Stands
  <2>2. PICK i \in 1..N : before[i] = x
    BY <1>1, InRange
  <2>3. StaticFinding(f)
    BY DEF Stands, StaticFindings
  <2>4. ~ AiOnly(x)
    BY <2>1, <2>3, FollowerIsATools, Zenon
  <2>5. after[i] = x
    BY <1>2, <1>4, <2>2, <2>4
  <2>6. after[i] \in Range(after)
    BY <1>3, InRange
  <2> QED
    BY <2>1, <2>5, <2>6
<1> QED
  BY <1>3, <1>7, <1>8, <1>9 DEF Stands

-----------------------------------------------------------------------------
(* Ingestion: every file on disk has contents.                             *)

\* What ingestion knows on its way: the files on disk are among those with contents.
OnDisk(s) ==
  /\ DOMAIN s = {"files", "skipped", "rejected"}
  /\ IsList(s.files)
  /\ \A i \in 1..Len(s.files) : s.files[i].entry.file \in DOMAIN Contents

\* What is on disk after each member that is extracted.
Extracting(h, base, s) ==
  /\ h[0] = base
  /\ \A n \in 1..Len(s) : h[n] = Extract(h[n - 1], s[n])
  /\ h[Len(s)] = FoldedOver(Extract, base, s)

LEMMA ExtractTrace ==
  ASSUME NEW base, NEW s, Len(s) \in Nat
  PROVE  \E h : Extracting(h, base, s)
<1>0. PICK N : N = Len(s)
  BY Zenon
<1>10. N \in Nat
  BY <1>0
<1> DEFINE Step(x, n) == CHOOSE y \in {Extract(z, s[n]) : z \in {x}} : TRUE
           Rec(h, n) == h = [i \in 0..n |-> IF i = 0 THEN base ELSE Step(h[i - 1], i)]
           T == {n \in 0..N : \E h : Rec(h, n)}
<1>1. \A x, n : Step(x, n) = Extract(x, s[n])
  <2> TAKE x, n
  <2> DEFINE y == Extract(x, s[n])
  <2>1. {Extract(z, s[n]) : z \in {x}} = {y}
    BY <1>10
  <2> HIDE DEF y
  <2>2. (CHOOSE z \in {y} : TRUE) = y
    BY <1>10
  <2> QED
    BY <2>1, <2>2, Zenon DEF y
<1> HIDE DEF Step
<1>2. 0 \in T
  <2> DEFINE h == [i \in 0..0 |-> base]
  <2>1. Rec(h, 0)
    BY <1>10
  <2> HIDE DEF h, Rec
  <2> QED
    BY <1>10, <2>1
<1>3. ASSUME NEW n \in 0..(N - 1), n \in T PROVE n + 1 \in T
  <2>1. n \in Nat /\ n + 1 \in 0..N
    BY <1>10
  <2>2. PICK h : Rec(h, n)
    BY <1>3, Zenon
  <2> DEFINE g == [i \in 0..(n + 1) |-> IF i = 0 THEN base ELSE Step(h[i - 1], i)]
  <2>3. ASSUME NEW i \in 0..(n + 1), i # 0 PROVE g[i - 1] = h[i - 1]
    <3>1. i - 1 \in 0..n /\ i - 1 \in 0..(n + 1)
      BY <2>1, <2>3
    <3>2. g[i - 1] = IF i - 1 = 0 THEN base ELSE Step(h[i - 1 - 1], i - 1)
      BY <3>1, Zenon
    <3>3. h[i - 1] = IF i - 1 = 0 THEN base ELSE Step(h[i - 1 - 1], i - 1)
      BY <2>2, <3>1, Zenon
    <3> QED
      BY <3>2, <3>3, Zenon
  <2>4. \A i \in 0..(n + 1) : (IF i = 0 THEN base ELSE Step(h[i - 1], i))
                                = IF i = 0 THEN base ELSE Step(g[i - 1], i)
    <3> HIDE DEF g
    <3> QED
      BY <2>3, Zenon
  <2>5. Rec(g, n + 1)
    <3>1. g = [i \in 0..(n + 1) |-> IF i = 0 THEN base ELSE Step(h[i - 1], i)]
      BY <1>10
    <3> HIDE DEF g
    <3> QED
      BY <2>4, <3>1
  <2> HIDE DEF g, Rec
  <2> QED
    BY <2>1, <2>5, Zenon
<1>4. N \in T
  <2> HIDE DEF T
  <2>1. \A k \in 0..N : k \in T
    BY <1>2, <1>3, <1>10, UpTo
  <2> QED
    BY <1>10, <2>1
<1> DEFINE h == CHOOSE h : Rec(h, N)
<1>5. Rec(h, N)
  <2>1. \E g : Rec(g, N)
    BY <1>4, Zenon
  <2> HIDE DEF Rec
  <2> QED
    BY <2>1, Zenon
<1>6. FoldedOver(Extract, base, s) = h[N]
  BY <1>0, Zenon DEF FoldedOver, Step
<1> HIDE DEF h
<1>7. 0 \in 0..N /\ \A i \in 1..N : i \in 0..N /\ i # 0
  BY <1>10
<1>8. h[0] = base
  BY <1>5, <1>7
<1>9. ASSUME NEW n \in 1..N PROVE h[n] = Extract(h[n - 1], s[n])
  <2>1. h[n] = IF n = 0 THEN base ELSE Step(h[n - 1], n)
    BY <1>5, <1>7, Zenon
  <2> QED
    BY <1>1, <1>7, <2>1, Zenon
<1> QED
  BY <1>0, <1>6, <1>8, <1>9, Zenon DEF Extracting

\* What every extracted member keeps, extracting all of them keeps.
LEMMA ExtractStays ==
  ASSUME NEW base, OnDisk(base), NEW s, NEW N \in Nat, N = Len(s),
         \A x : \A n \in 1..N : OnDisk(x) => OnDisk(Extract(x, s[n]))
  PROVE  OnDisk(FoldedOver(Extract, base, s))
<1>1. Len(s) \in Nat
  OBVIOUS
<1>2. PICK h : Extracting(h, base, s)
  BY <1>1, ExtractTrace, Zenon
<1>3. /\ h[0] = base
      /\ \A n \in 1..N : h[n] = Extract(h[n - 1], s[n])
      /\ h[N] = FoldedOver(Extract, base, s)
  BY <1>2, Zenon DEF Extracting
<1> DEFINE T == {n \in 0..N : OnDisk(h[n])}
<1>4. 0 \in T
  BY <1>3
<1>5. ASSUME NEW n \in 0..(N - 1), n \in T PROVE n + 1 \in T
  <2>1. n + 1 \in 1..N /\ n + 1 \in 0..N /\ (n + 1) - 1 = n
    OBVIOUS
  <2>2. h[n + 1] = Extract(h[n], s[n + 1])
    BY <1>3, <2>1
  <2>3. OnDisk(h[n])
    BY <1>5
  <2> QED
    BY <2>1, <2>2, <2>3
<1>6. N \in T
  <2> HIDE DEF T
  <2>1. \A k \in 0..N : k \in T
    BY <1>4, <1>5, UpTo
  <2> QED
    BY <2>1
<1> QED
  BY <1>3, <1>6

\* What is on disk after each entry that is visited.
Visiting(h, base, s) ==
  /\ h[0] = base
  /\ \A n \in 1..Len(s) : h[n] = Visit(h[n - 1], s[n])
  /\ h[Len(s)] = FoldedOver(Visit, base, s)

LEMMA VisitTrace ==
  ASSUME NEW base, NEW s, Len(s) \in Nat
  PROVE  \E h : Visiting(h, base, s)
<1>0. PICK N : N = Len(s)
  BY Zenon
<1>10. N \in Nat
  BY <1>0
<1> DEFINE Step(x, n) == CHOOSE y \in {Visit(z, s[n]) : z \in {x}} : TRUE
           Rec(h, n) == h = [i \in 0..n |-> IF i = 0 THEN base ELSE Step(h[i - 1], i)]
           T == {n \in 0..N : \E h : Rec(h, n)}
<1>1. \A x, n : Step(x, n) = Visit(x, s[n])
  <2> TAKE x, n
  <2> DEFINE y == Visit(x, s[n])
  <2>1. {Visit(z, s[n]) : z \in {x}} = {y}
    BY <1>10
  <2> HIDE DEF y
  <2>2. (CHOOSE z \in {y} : TRUE) = y
    BY <1>10
  <2> QED
    BY <2>1, <2>2, Zenon DEF y
<1> HIDE DEF Step
<1>2. 0 \in T
  <2> DEFINE h == [i \in 0..0 |-> base]
  <2>1. Rec(h, 0)
    BY <1>10
  <2> HIDE DEF h, Rec
  <2> QED
    BY <1>10, <2>1
<1>3. ASSUME NEW n \in 0..(N - 1), n \in T PROVE n + 1 \in T
  <2>1. n \in Nat /\ n + 1 \in 0..N
    BY <1>10
  <2>2. PICK h : Rec(h, n)
    BY <1>3, Zenon
  <2> DEFINE g == [i \in 0..(n + 1) |-> IF i = 0 THEN base ELSE Step(h[i - 1], i)]
  <2>3. ASSUME NEW i \in 0..(n + 1), i # 0 PROVE g[i - 1] = h[i - 1]
    <3>1. i - 1 \in 0..n /\ i - 1 \in 0..(n + 1)
      BY <2>1, <2>3
    <3>2. g[i - 1] = IF i - 1 = 0 THEN base ELSE Step(h[i - 1 - 1], i - 1)
      BY <3>1, Zenon
    <3>3. h[i - 1] = IF i - 1 = 0 THEN base ELSE Step(h[i - 1 - 1], i - 1)
      BY <2>2, <3>1, Zenon
    <3> QED
      BY <3>2, <3>3, Zenon
  <2>4. \A i \in 0..(n + 1) : (IF i = 0 THEN base ELSE Step(h[i - 1], i))
                                = IF i = 0 THEN base ELSE Step(g[i - 1], i)
    <3> HIDE DEF g
    <3> QED
      BY <2>3, Zenon
  <2>5. Rec(g, n + 1)
    <3>1. g = [i \in 0..(n + 1) |-> IF i = 0 THEN base ELSE Step(h[i - 1], i)]
      BY <1>10
    <3> HIDE DEF g
    <3> QED
      BY <2>4, <3>1
  <2> HIDE DEF g, Rec
  <2> QED
    BY <2>1, <2>5, Zenon
<1>4. N \in T
  <2> HIDE DEF T
  <2>1. \A k \in 0..N : k \in T
    BY <1>2, <1>3, <1>10, UpTo
  <2> QED
    BY <1>10, <2>1
<1> DEFINE h == CHOOSE h : Rec(h, N)
<1>5. Rec(h, N)
  <2>1. \E g : Rec(g, N)
    BY <1>4, Zenon
  <2> HIDE DEF Rec
  <2> QED
    BY <2>1, Zenon
<1>6. FoldedOver(Visit, base, s) = h[N]
  BY <1>0, Zenon DEF FoldedOver, Step
<1> HIDE DEF h
<1>7. 0 \in 0..N /\ \A i \in 1..N : i \in 0..N /\ i # 0
  BY <1>10
<1>8. h[0] = base
  BY <1>5, <1>7
<1>9. ASSUME NEW n \in 1..N PROVE h[n] = Visit(h[n - 1], s[n])
  <2>1. h[n] = IF n = 0 THEN base ELSE Step(h[n - 1], n)
    BY <1>5, <1>7, Zenon
  <2> QED
    BY <1>1, <1>7, <2>1, Zenon
<1> QED
  BY <1>0, <1>6, <1>8, <1>9, Zenon DEF Visiting

\* What every visited entry keeps, visiting all of them keeps.
LEMMA VisitStays ==
  ASSUME NEW base, OnDisk(base), NEW s, NEW N \in Nat, N = Len(s),
         \A x : \A n \in 1..N : OnDisk(x) => OnDisk(Visit(x, s[n]))
  PROVE  OnDisk(FoldedOver(Visit, base, s))
<1>1. Len(s) \in Nat
  OBVIOUS
<1>2. PICK h : Visiting(h, base, s)
  BY <1>1, VisitTrace, Zenon
<1>3. /\ h[0] = base
      /\ \A n \in 1..N : h[n] = Visit(h[n - 1], s[n])
      /\ h[N] = FoldedOver(Visit, base, s)
  BY <1>2, Zenon DEF Visiting
<1> DEFINE T == {n \in 0..N : OnDisk(h[n])}
<1>4. 0 \in T
  BY <1>3
<1>5. ASSUME NEW n \in 0..(N - 1), n \in T PROVE n + 1 \in T
  <2>1. n + 1 \in 1..N /\ n + 1 \in 0..N /\ (n + 1) - 1 = n
    OBVIOUS
  <2>2. h[n + 1] = Visit(h[n], s[n + 1])
    BY <1>3, <2>1
  <2>3. OnDisk(h[n])
    BY <1>5
  <2> QED
    BY <2>1, <2>2, <2>3
<1>6. N \in T
  <2> HIDE DEF T
  <2>1. \A k \in 0..N : k \in T
    BY <1>4, <1>5, UpTo
  <2> QED
    BY <2>1
<1> QED
  BY <1>3, <1>6

\* Unwrapping often enough stays among the nodes.
LEMMA UnwrapStays ==
  ASSUME NEW base, base \in Nodes, NEW N \in Nat,
         \A x : x \in Nodes => Unwrap(x) \in Nodes
  PROVE  Repeated(Unwrap, base, N) \in Nodes
<1> DEFINE s == [i \in 1..N |-> i]
           Step(x, n) == CHOOSE y \in {Unwrap(z) : z \in {x}} : TRUE
           Rec(h, n) == h = [i \in 0..n |-> IF i = 0 THEN base ELSE Step(h[i - 1], i)]
           T == {n \in 0..N : \E h : Rec(h, n)}
<1>0. Len(s) = N
  OBVIOUS
<1> HIDE DEF s
<1>1. \A x, n : Step(x, n) = Unwrap(x)
  <2> TAKE x, n
  <2> DEFINE y == Unwrap(x)
  <2>1. {Unwrap(z) : z \in {x}} = {y}
    OBVIOUS
  <2> HIDE DEF y
  <2>2. (CHOOSE z \in {y} : TRUE) = y
    OBVIOUS
  <2> QED
    BY <2>1, <2>2, Zenon DEF y
<1> HIDE DEF Step
<1>2. 0 \in T
  <2> DEFINE h == [i \in 0..0 |-> base]
  <2>1. Rec(h, 0)
    OBVIOUS
  <2> HIDE DEF h, Rec
  <2> QED
    BY <2>1
<1>3. ASSUME NEW n \in 0..(N - 1), n \in T PROVE n + 1 \in T
  <2>1. n \in Nat /\ n + 1 \in 0..N
    OBVIOUS
  <2>2. PICK h : Rec(h, n)
    BY <1>3, Zenon
  <2> DEFINE g == [i \in 0..(n + 1) |-> IF i = 0 THEN base ELSE Step(h[i - 1], i)]
  <2>3. ASSUME NEW i \in 0..(n + 1), i # 0 PROVE g[i - 1] = h[i - 1]
    <3>1. i - 1 \in 0..n /\ i - 1 \in 0..(n + 1)
      BY <2>1, <2>3
    <3>2. g[i - 1] = IF i - 1 = 0 THEN base ELSE Step(h[i - 1 - 1], i - 1)
      BY <3>1, Zenon
    <3>3. h[i - 1] = IF i - 1 = 0 THEN base ELSE Step(h[i - 1 - 1], i - 1)
      BY <2>2, <3>1, Zenon
    <3> QED
      BY <3>2, <3>3, Zenon
  <2>4. \A i \in 0..(n + 1) : (IF i = 0 THEN base ELSE Step(h[i - 1], i))
                                = IF i = 0 THEN base ELSE Step(g[i - 1], i)
    <3> HIDE DEF g
    <3> QED
      BY <2>3, Zenon
  <2>5. Rec(g, n + 1)
    <3>1. g = [i \in 0..(n + 1) |-> IF i = 0 THEN base ELSE Step(h[i - 1], i)]
      OBVIOUS
    <3> HIDE DEF g
    <3> QED
      BY <2>4, <3>1
  <2> HIDE DEF g, Rec
  <2> QED
    BY <2>1, <2>5, Zenon
<1>4. N \in T
  <2> HIDE DEF T
  <2>1. \A k \in 0..N : k \in T
    BY <1>2, <1>3, UpTo
  <2> QED
    BY <2>1
<1> DEFINE h == CHOOSE h : Rec(h, N)
<1>5. Rec(h, N)
  <2>1. \E g : Rec(g, N)
    BY <1>4, Zenon
  <2> HIDE DEF Rec
  <2> QED
    BY <2>1, Zenon
<1>6. Repeated(Unwrap, base, N) = h[N]
  BY <1>0, Zenon DEF s, Repeated, FoldedOver, Step
<1> HIDE DEF h
<1>7. 0 \in 0..N /\ \A i \in 1..N : i \in 0..N /\ i # 0
  OBVIOUS
<1> DEFINE G == {n \in 0..N : h[n] \in Nodes}
<1>8. 0 \in G
  <2>1. h[0] = base
    BY <1>5, <1>7
  <2>2. h[0] \in Nodes
    BY <2>1, Zenon
  <2> QED
    BY <1>7, <2>2, Zenon
<1>9. ASSUME NEW k \in 0..(N - 1), k \in G PROVE k + 1 \in G
  <2>1. PICK i : i = k + 1
    OBVIOUS
  <2>2. i \in 1..N /\ i \in 0..N /\ i # 0 /\ i - 1 = k
    BY <2>1
  <2>3. h[i] = Step(h[k], i)
    <3>1. h[i] = IF i = 0 THEN base ELSE Step(h[i - 1], i)
      BY <1>5, <2>2, Zenon
    <3> QED
      BY <2>2, <3>1, Zenon
  <2>4. h[k] \in Nodes
    BY <1>9, Zenon
  <2>5. h[i] \in Nodes
    BY <1>1, <2>2, <2>3, <2>4, Zenon
  <2> QED
    BY <2>1, <2>2, <2>5, Zenon
<1>10. N \in G
  <2> HIDE DEF G
  <2>1. \A k \in 0..N : k \in G
    BY <1>8, <1>9, UpTo
  <2> QED
    BY <2>1
<1> QED
  BY <1>6, <1>10, Zenon

\* Descending often enough stays among the nodes.
LEMMA DescendStays ==
  ASSUME NEW base, base \in Nodes, NEW N \in Nat,
         \A x : x \in Nodes => Descend(x) \in Nodes
  PROVE  Repeated(Descend, base, N) \in Nodes
<1> DEFINE s == [i \in 1..N |-> i]
           Step(x, n) == CHOOSE y \in {Descend(z) : z \in {x}} : TRUE
           Rec(h, n) == h = [i \in 0..n |-> IF i = 0 THEN base ELSE Step(h[i - 1], i)]
           T == {n \in 0..N : \E h : Rec(h, n)}
<1>0. Len(s) = N
  OBVIOUS
<1> HIDE DEF s
<1>1. \A x, n : Step(x, n) = Descend(x)
  <2> TAKE x, n
  <2> DEFINE y == Descend(x)
  <2>1. {Descend(z) : z \in {x}} = {y}
    OBVIOUS
  <2> HIDE DEF y
  <2>2. (CHOOSE z \in {y} : TRUE) = y
    OBVIOUS
  <2> QED
    BY <2>1, <2>2, Zenon DEF y
<1> HIDE DEF Step
<1>2. 0 \in T
  <2> DEFINE h == [i \in 0..0 |-> base]
  <2>1. Rec(h, 0)
    OBVIOUS
  <2> HIDE DEF h, Rec
  <2> QED
    BY <2>1
<1>3. ASSUME NEW n \in 0..(N - 1), n \in T PROVE n + 1 \in T
  <2>1. n \in Nat /\ n + 1 \in 0..N
    OBVIOUS
  <2>2. PICK h : Rec(h, n)
    BY <1>3, Zenon
  <2> DEFINE g == [i \in 0..(n + 1) |-> IF i = 0 THEN base ELSE Step(h[i - 1], i)]
  <2>3. ASSUME NEW i \in 0..(n + 1), i # 0 PROVE g[i - 1] = h[i - 1]
    <3>1. i - 1 \in 0..n /\ i - 1 \in 0..(n + 1)
      BY <2>1, <2>3
    <3>2. g[i - 1] = IF i - 1 = 0 THEN base ELSE Step(h[i - 1 - 1], i - 1)
      BY <3>1, Zenon
    <3>3. h[i - 1] = IF i - 1 = 0 THEN base ELSE Step(h[i - 1 - 1], i - 1)
      BY <2>2, <3>1, Zenon
    <3> QED
      BY <3>2, <3>3, Zenon
  <2>4. \A i \in 0..(n + 1) : (IF i = 0 THEN base ELSE Step(h[i - 1], i))
                                = IF i = 0 THEN base ELSE Step(g[i - 1], i)
    <3> HIDE DEF g
    <3> QED
      BY <2>3, Zenon
  <2>5. Rec(g, n + 1)
    <3>1. g = [i \in 0..(n + 1) |-> IF i = 0 THEN base ELSE Step(h[i - 1], i)]
      OBVIOUS
    <3> HIDE DEF g
    <3> QED
      BY <2>4, <3>1
  <2> HIDE DEF g, Rec
  <2> QED
    BY <2>1, <2>5, Zenon
<1>4. N \in T
  <2> HIDE DEF T
  <2>1. \A k \in 0..N : k \in T
    BY <1>2, <1>3, UpTo
  <2> QED
    BY <2>1
<1> DEFINE h == CHOOSE h : Rec(h, N)
<1>5. Rec(h, N)
  <2>1. \E g : Rec(g, N)
    BY <1>4, Zenon
  <2> HIDE DEF Rec
  <2> QED
    BY <2>1, Zenon
<1>6. Repeated(Descend, base, N) = h[N]
  BY <1>0, Zenon DEF s, Repeated, FoldedOver, Step
<1> HIDE DEF h
<1>7. 0 \in 0..N /\ \A i \in 1..N : i \in 0..N /\ i # 0
  OBVIOUS
<1> DEFINE G == {n \in 0..N : h[n] \in Nodes}
<1>8. 0 \in G
  <2>1. h[0] = base
    BY <1>5, <1>7
  <2>2. h[0] \in Nodes
    BY <2>1, Zenon
  <2> QED
    BY <1>7, <2>2, Zenon
<1>9. ASSUME NEW k \in 0..(N - 1), k \in G PROVE k + 1 \in G
  <2>1. PICK i : i = k + 1
    OBVIOUS
  <2>2. i \in 1..N /\ i \in 0..N /\ i # 0 /\ i - 1 = k
    BY <2>1
  <2>3. h[i] = Step(h[k], i)
    <3>1. h[i] = IF i = 0 THEN base ELSE Step(h[i - 1], i)
      BY <1>5, <2>2, Zenon
    <3> QED
      BY <2>2, <3>1, Zenon
  <2>4. h[k] \in Nodes
    BY <1>9, Zenon
  <2>5. h[i] \in Nodes
    BY <1>1, <2>2, <2>3, <2>4, Zenon
  <2> QED
    BY <2>1, <2>2, <2>5, Zenon
<1>10. N \in G
  <2> HIDE DEF G
  <2>1. \A k \in 0..N : k \in G
    BY <1>8, <1>9, UpTo
  <2> QED
    BY <2>1
<1> QED
  BY <1>6, <1>10, Zenon

\* The values of a function on a finite set are finitely many.
LEMMA FiniteImage ==
  ASSUME NEW S, IsFiniteSet(S), NEW f
  PROVE  IsFiniteSet({f[x] : x \in S})
<1> DEFINE g == [x \in S |-> f[x]]
           T == {f[x] : x \in S}
<1>1. g \in Surjection(S, T)
  BY DEF Surjection
<1> HIDE DEF g, T
<1>2. IsFiniteSet(T)
  BY <1>1, FS_Surjection
<1> QED
  BY <1>2 DEF T

\* Before ingestion nothing is on disk.
LEMMA NothingOnDisk == OnDisk(Nothing)
BY EmptyIsList DEF OnDisk, Nothing

\* To skip an entry, or to reject the upload, writes no file.
LEMMA StateOnDisk ==
  ASSUME NEW s, OnDisk(s)
  PROVE  /\ \A path, reason : OnDisk(Skipping(s, path, reason))
         /\ \A reason : OnDisk([s EXCEPT !.rejected = reason])
<1>1. ASSUME NEW t, DOMAIN t = DOMAIN s, t.files = s.files PROVE OnDisk(t)
  BY <1>1 DEF OnDisk
<1>2. ASSUME NEW path, NEW reason PROVE OnDisk(Skipping(s, path, reason))
  <2>1. PICK a : a = Append(s.skipped, [path |-> path, reason |-> reason])
    BY Zenon
  <2>2. Skipping(s, path, reason) = [s EXCEPT !.skipped = a]
    BY <2>1 DEF Skipping
  <2>3. DOMAIN [s EXCEPT !.skipped = a] = DOMAIN s /\ [s EXCEPT !.skipped = a].files = s.files
    BY DEF OnDisk
  <2> QED
    BY <1>1, <2>2, <2>3, Zenon
<1>3. ASSUME NEW reason PROVE OnDisk([s EXCEPT !.rejected = reason])
  <2>1. DOMAIN [s EXCEPT !.rejected = reason] = DOMAIN s /\ [s EXCEPT !.rejected = reason].files = s.files
    BY DEF OnDisk
  <2> QED
    BY <1>1, <2>1, Zenon
<1> QED
  BY <1>2, <1>3

\* A file that is written has contents.
LEMMA WrittenOnDisk ==
  ASSUME NEW s, OnDisk(s), NEW entry, entry.file \in DOMAIN Contents
  PROVE  OnDisk(Writing(s, entry))
<1>1. PICK f : f = [path |-> PathOf(entry.name), entry |-> entry]
  BY Zenon
<1>2. f.entry.file \in DOMAIN Contents
  BY <1>1
<1>3. PICK a : a = Append(s.files, f)
  BY Zenon
<1>4. Writing(s, entry) = [s EXCEPT !.files = a]
  BY <1>1, <1>3 DEF Writing
<1>5. DOMAIN [s EXCEPT !.files = a] = DOMAIN s /\ [s EXCEPT !.files = a].files = a
  BY DEF OnDisk
<1>6. IsList(a) /\ \A x \in Range(a) : x \in Range(s.files) \/ x = f
  <2>1. IsList(s.files)
    BY DEF OnDisk
  <2>2. IsList(Append(s.files, f)) /\ Range(Append(s.files, f)) = Range(s.files) \cup {f}
    BY <2>1, AppendList, Zenon
  <2> QED
    BY <1>3, <2>2
<1>7. ASSUME NEW i \in 1..Len(a) PROVE a[i].entry.file \in DOMAIN Contents
  <2>1. a[i] \in Range(s.files) \/ a[i] = f
    BY <1>6, InRange
  <2>2. ASSUME a[i] \in Range(s.files) PROVE \E j \in 1..Len(s.files) : s.files[j] = a[i]
    BY <2>2, InRange, Zenon DEF OnDisk
  <2> QED
    BY <1>2, <2>1, <2>2 DEF OnDisk
<1>8. DOMAIN s = {"files", "skipped", "rejected"}
  BY DEF OnDisk
<1> QED
  BY <1>4, <1>5, <1>6, <1>7, <1>8, Zenon DEF OnDisk

\* A member of an archive is written, or skipped, or rejects the archive.
LEMMA ExtractedOnDisk ==
  ASSUME NEW s, OnDisk(s), NEW m, m.file \in DOMAIN Contents
  PROVE  OnDisk(Extract(s, m))
<1>1. Extract(s, m) \in {s, Skipping(s, PathOf(m.name), SkipForPath(PathOf(m.name))),
                         Skipping(s, PathOf(m.name), SkipForContent(m)),
                         [s EXCEPT !.rejected = "corrupt_archive"],
                         [s EXCEPT !.rejected = "duplicate_entry"],
                         [s EXCEPT !.rejected = "size_mismatch"], Writing(s, m)}
  BY Zenon DEF Extract
<1>2. /\ \A path, reason : OnDisk(Skipping(s, path, reason))
      /\ \A reason : OnDisk([s EXCEPT !.rejected = reason])
  BY StateOnDisk, Zenon
<1>3. OnDisk(Writing(s, m))
  BY WrittenOnDisk, Zenon
<1> QED
  BY <1>1, <1>2, <1>3, Zenon

\* An entry of a directory is written, or skipped, or rejects the directory.
LEMMA VisitedOnDisk ==
  ASSUME NEW s, OnDisk(s), NEW e, e.file \in DOMAIN Contents
  PROVE  OnDisk(Visit(s, e))
<1>1. Visit(s, e) \in {s, Skipping(s, PathOf(e.name), EntrySkip(e)),
                       Skipping(s, PathOf(e.name), "unreadable"),
                       [s EXCEPT !.rejected = "too_many_files"],
                       [s EXCEPT !.rejected = "uncompressed_too_large"],
                       [s EXCEPT !.rejected = "size_mismatch"], Writing(s, e)}
  BY Zenon DEF Visit
<1> QED
  BY <1>1, StateOnDisk, WrittenOnDisk

\* The members of an archive: its entries without folders.
LEMMA MembersKept ==
  ASSUME NEW s, IsList(s)
  PROVE  /\ IsList(Members(s))
         /\ \A y \in Range(Members(s)) :
              \E k \in 1..Len(s) : s[k] = y /\ ~ y.name.folder
         /\ \A k \in 1..Len(s) : ~ s[k].name.folder => s[k] \in Range(Members(s))
<1> DEFINE P(t) == {i \in DOMAIN t : ~ t[i].name.folder}
           B(t) == AtPlaces(t, Arranged(P(t), <))
           K == Members(s)
           I == P(s)
<1>1. \A x : {z \in {x} : z = z} = {x}
  OBVIOUS
<1>2. K = Of(s, B)
  BY DEF Members, Kept
<1>3. Of(s, B) = B(s)
  <2> HIDE DEF B
  <2>1. {B(z) : z \in {z \in {s} : z = z}} = {B(s)}
    BY <1>1, Zenon
  <2> QED
    BY <2>1, Zenon DEF Of
<1>4. /\ I \in SUBSET (1..Len(s))
      /\ \A i \in I : ~ s[i].name.folder
      /\ \A i \in 1..Len(s) : ~ s[i].name.folder => i \in I
  BY ListElements
<1> HIDE DEF I, K
<1>5. B(s) = ElementsIn(s, I)
  BY ArrangedLess, Zenon DEF I, ElementsIn
<1>6. /\ IsList(K) /\ (\A x \in Range(K) : \E i \in I : s[i] = x) /\ \A i \in I : s[i] \in Range(K)
  <2> HIDE DEF B
  <2>1. K = ElementsIn(s, I)
    BY <1>2, <1>3, <1>5, Zenon
  <2>2. I \in SUBSET (1..Len(s))
    BY <1>4, Zenon
  <2> QED
    BY <2>1, <2>2, KeptElements
<1>7. ASSUME NEW y \in Range(K)
      PROVE  \E k \in 1..Len(s) : s[k] = y /\ ~ y.name.folder
  <2>1. PICK i \in I : s[i] = y
    BY <1>6
  <2> QED
    BY <2>1, <1>4
<1>8. ASSUME NEW k \in 1..Len(s), ~ s[k].name.folder
      PROVE  s[k] \in Range(K)
  BY <1>4, <1>6, <1>8
<1> QED
  BY <1>6, <1>7, <1>8 DEF K

\* Ingestion, of an archive, a file or a directory, writes files that have contents.
LEMMA IngestedOnDisk ==
  ASSUME NEW s \in Scans
  PROVE  OnDisk(Ingested(s.upload))
<1> DEFINE u == s.upload
           es == u.entries
<1>1. /\ u.kind \in {"archive", "file", "directory"}
      /\ IsList(es)
      /\ u.kind = "file" => Len(es) = 1
      /\ \A e \in Range(es) : IsEntry(e) /\ e.file \in DOMAIN Contents
  BY UploadAssumption, Zenon
<1> HIDE DEF u
<1>2. \A i \in 1..Len(es) : "file" \in DOMAIN es[i] /\ es[i].file \in DOMAIN Contents
  <2>1. \A i \in 1..Len(es) : IsEntry(es[i]) /\ es[i].file \in DOMAIN Contents
    BY <1>1, InRange, Zenon
  <2>2. \A e : IsEntry(e) => "file" \in DOMAIN e
    BY DEF IsEntry
  <2> QED
    BY <2>1, <2>2, Zenon
<1> HIDE DEF es
<1>3. ASSUME NEW reason PROVE OnDisk(Rejected(reason))
  BY NothingOnDisk, StateOnDisk, Zenon DEF Rejected
<1>4. CASE u.kind = "archive"
  <2> DEFINE members == Members(es)
             extracted == FoldedOver(Extract, Nothing, members)
  <2>1. IsList(members) /\ \A y \in Range(members) : \E k \in 1..Len(es) : es[k] = y
    BY <1>1, MembersKept, Zenon
  <2> HIDE DEF members
  <2>2. \A i \in 1..Len(members) : members[i].file \in DOMAIN Contents
    BY <1>2, <2>1, InRange, Zenon
  <2>3. Len(members) \in Nat
    BY <2>1, ListElements, Zenon
  <2>4. OnDisk(extracted)
    <3>1. \A x : \A n \in 1..Len(members) : OnDisk(x) => OnDisk(Extract(x, members[n]))
      BY <2>2, ExtractedOnDisk, Zenon
    <3> QED
      BY <2>3, <3>1, NothingOnDisk, ExtractStays, Zenon
  <2>5. \/ \E reason : Ingested(u) = Rejected(reason)
        \/ Ingested(u) = extracted
    <3>1. Ingested(u) = ExtractArchive(u)
      BY <1>4, Zenon DEF Ingested
    <3>2. \/ ExtractArchive(u) = Rejected(ArchiveProblem(u))
          \/ ExtractArchive(u) = Rejected(extracted.rejected)
          \/ ExtractArchive(u) = extracted
      BY Zenon DEF ExtractArchive, members, es
    <3> QED
      BY <3>1, <3>2, Zenon
  <2> HIDE DEF extracted
  <2> QED
    BY <1>3, <2>4, <2>5, Zenon DEF u
<1>5. CASE u.kind = "file"
  <2>1. PICK e : e = es[1]
    BY Zenon
  <2>2. "file" \in DOMAIN e /\ e.file \in DOMAIN Contents
    <3>1. 1 \in 1..Len(es)
      BY <1>1, <1>5
    <3> QED
      BY <1>2, <2>1, <3>1, Zenon
  <2>3. \A name : [e EXCEPT !.name = name].file = e.file
    BY <2>2
  <2>4. Ingested(u) = IngestFile(e)
    BY <1>5, <2>1, Zenon DEF Ingested, es
  <2>5. \/ \E reason : IngestFile(e) = Rejected(reason)
        \/ \E path, reason : IngestFile(e) = Skipping(Nothing, path, reason)
        \/ \E name : IngestFile(e) = Writing(Nothing, [e EXCEPT !.name = name])
    BY Zenon DEF IngestFile
  <2>6. \A path, reason : OnDisk(Skipping(Nothing, path, reason))
    BY NothingOnDisk, StateOnDisk, Zenon
  <2>7. ASSUME NEW name PROVE OnDisk(Writing(Nothing, [e EXCEPT !.name = name]))
    <3>1. PICK f : f = [e EXCEPT !.name = name]
      BY Zenon
    <3>2. f.file \in DOMAIN Contents
      BY <2>2, <2>3, <3>1, Zenon
    <3>3. OnDisk(Writing(Nothing, f))
      BY <3>2, NothingOnDisk, WrittenOnDisk, Zenon
    <3> QED
      BY <3>1, <3>3, Zenon
  <2> QED
    BY <1>3, <2>4, <2>5, <2>6, <2>7, Zenon DEF u
<1>6. CASE u.kind = "directory"
  <2>1. Ingested(u) = FoldedOver(Visit, Nothing, es)
    BY <1>6, Zenon DEF Ingested, IngestDirectory, es
  <2>2. Len(es) \in Nat
    BY <1>1, ListElements, Zenon
  <2>3. \A x : \A n \in 1..Len(es) : OnDisk(x) => OnDisk(Visit(x, es[n]))
    BY <1>2, VisitedOnDisk, Zenon
  <2>4. OnDisk(FoldedOver(Visit, Nothing, es))
    BY <2>2, <2>3, NothingOnDisk, VisitStays, Zenon
  <2> QED
    BY <2>1, <2>4, Zenon DEF u
<1> QED
  BY <1>1, <1>4, <1>5, <1>6, Zenon

\* The reviewed files are a list of numbers of files that have contents, each once.
LEMMA ReviewedFiles ==
  ASSUME NEW dir, OnDisk(dir)
  PROVE  /\ IsList(ReviewedIn(dir))
         /\ \A i \in 1..Len(ReviewedIn(dir)) : ReviewedIn(dir)[i] \in DOMAIN Contents
         /\ \A i, j \in 1..Len(ReviewedIn(dir)) : ReviewedIn(dir)[i] = ReviewedIn(dir)[j] => i = j
<1> DEFINE named == {f \in Range(dir.files) : Language(f) # NoLanguage}
           I == {f.entry.file : f \in named}
           R == {p \in I \X I : p[1] < p[2]}
           a == Ranked(I, R)
<1>1. ReviewedIn(dir) = a
  <2> DEFINE A(J) == {p \in J \X J : p[1] < p[2]}
             B(J) == Of(A(J), LAMBDA before : Ranked(J, before))
  <2>1. ReviewedIn(dir) = Of(I, B)
    BY DEF ReviewedIn, Arranged
  <2>2. \A x : {z \in {x} : z = z} = {x}
    OBVIOUS
  <2> HIDE DEF I
  <2>3. Of(I, B) = B(I)
    <3> HIDE DEF B
    <3>1. {B(z) : z \in {z \in {I} : z = z}} = {B(I)}
      BY <2>2, Zenon
    <3> QED
      BY <3>1, Zenon DEF Of
  <2>4. B(I) = Ranked(I, A(I))
    <3> HIDE DEF A
    <3>1. {Ranked(I, z) : z \in {z \in {A(I)} : z = z}} = {Ranked(I, A(I))}
      BY <2>2, Zenon
    <3> QED
      BY <3>1, Zenon DEF Of
  <2> QED
    BY <2>1, <2>3, <2>4, Zenon
<1>2. \A i \in I : i \in DOMAIN Contents
  <2> TAKE i \in I
  <2>1. PICK f \in Range(dir.files) : f.entry.file = i
    BY Zenon
  <2>2. PICK k \in 1..Len(dir.files) : dir.files[k] = f
    BY <2>1, InRange, Zenon DEF OnDisk
  <2> QED
    BY <2>1, <2>2, Zenon DEF OnDisk
<1>3. IsFiniteSet(I)
  <2>1. dir.files \in Seq(Range(dir.files))
    BY DEF OnDisk, IsList
  <2>2. \A x \in Range(dir.files) : \E i \in 1..Len(dir.files) : dir.files[i] = x
    BY InRange, Zenon DEF OnDisk
  <2>3. IsFiniteSet(Range(dir.files))
    BY <2>1, <2>2, Zenon DEF IsFiniteSet
  <2>4. IsFiniteSet(named)
    BY <2>3, FS_Subset
  <2> HIDE DEF named
  <2> DEFINE g == [f \in named |-> f.entry.file]
  <2>5. I = {g[f] : f \in named}
    OBVIOUS
  <2> HIDE DEF g, I
  <2>6. IsFiniteSet({g[f] : f \in named})
    BY <2>4, FiniteImage, Zenon
  <2> QED
    BY <2>5, <2>6, Zenon
<1> HIDE DEF I
<1>4. OrderOn(R, I)
  <2>1. \A i \in I : i \in Int
    BY <1>2, ContentsAssumption
  <2>2. \A i, j \in I : <<i, j>> \in R <=> i < j
    OBVIOUS
  <2> HIDE DEF R
  <2>3. \A i \in I : ~ (<<i, i>> \in R)
    BY <2>1, <2>2
  <2>4. \A i, j \in I : i # j => <<i, j>> \in R \/ <<j, i>> \in R
    BY <2>1, <2>2
  <2>5. \A i, j, l \in I : <<i, j>> \in R /\ <<j, l>> \in R => <<i, l>> \in R
    <3>1. \A i, j, l \in I : i < j /\ j < l => i < l
      BY <2>1
    <3> QED
      BY <2>2, <3>1, Zenon
  <2> QED
    BY <2>3, <2>4, <2>5, Zenon DEF OrderOn
<1> HIDE DEF R
<1>5. Lists(a, I, R)
  BY <1>3, <1>4, RankedLists, Zenon
<1> HIDE DEF a
<1> DEFINE N == Cardinality(I)
<1>6. N \in Nat
  BY <1>3, FS_CardinalityType, Zenon
<1>7. a = [n \in 1..N |-> a[n]] /\ \A n \in 1..N : a[n] \in I
  BY <1>5, Zenon DEF Lists
<1>9. \A m, n \in 1..N : a[m] = a[n] => m = n
  BY <1>5, Zenon DEF Lists
<1> HIDE DEF N
<1>8. IsList(a) /\ Len(a) = N
  BY <1>6, <1>7, ListByShape, Zenon
<1> QED
  BY <1>1, <1>2, <1>7, <1>8, <1>9, Zenon

-----------------------------------------------------------------------------
(* The parts of preprocessing, and its loops, round by round.              *)

\* All but the last element, and the last.
LEMMA FrontList ==
  ASSUME NEW s, IsList(s), s # <<>>
  PROVE  /\ Len(s) \in Nat /\ Len(s) > 0
         /\ IsList(Front(s)) /\ Len(Front(s)) = Len(s) - 1
         /\ \A x \in Range(Front(s)) : x \in Range(s)
         /\ Last(s) \in Range(s)
<1> DEFINE m == Len(s) - 1
           f == SubSeq(s, 1, m)
<1>1. s \in Seq(Range(s))
  BY DEF IsList
<1>2. Len(s) \in Nat /\ Len(s) > 0
  BY <1>1
<1>3. m \in Nat /\ m <= Len(s) /\ Len(s) \in 1..Len(s) /\ \A i \in 1..m : i \in 1..Len(s)
  BY <1>2
<1>4. Front(s) = f
  BY DEF Front
<1> HIDE DEF m
<1>5. IsList(f) /\ Len(f) = m /\ \A i \in 1..m : f[i] = s[i]
  BY <1>3, PrefixList
<1> HIDE DEF f
<1>6. ASSUME NEW x \in Range(f) PROVE x \in Range(s)
  <2>1. PICK i \in 1..Len(f) : f[i] = x
    BY <1>5, InRange
  <2> QED
    BY <1>3, <1>5, <2>1, InRange
<1>7. Last(s) \in Range(s)
  BY <1>3, InRange DEF Last
<1> QED
  BY <1>2, <1>4, <1>5, <1>6, <1>7 DEF m

\* A node of a syntax tree: its lines, and the lists of nodes below it.
LEMMA NodeParts ==
  ASSUME NEW node \in Nodes
  PROVE  /\ node.first \in Int /\ node.last \in Int
         /\ IsList(node.wraps) /\ \A i \in 1..Len(node.wraps) : node.wraps[i] \in Nodes
         /\ IsList(node.body) /\ \A i \in 1..Len(node.body) : node.body[i] \in Nodes
         /\ IsList(node.children) /\ \A i \in 1..Len(node.children) : node.children[i] \in Nodes
<1>1. /\ node.first \in Int /\ node.last \in Int
      /\ \A below \in {node.wraps, node.body, node.children} :
           IsList(below) /\ Range(below) \subseteq Nodes
  <2>1. /\ node.first \in Nat \ {0} /\ node.last \in Nat
        /\ \A below \in {node.wraps, node.body, node.children} :
             IsList(below) /\ Range(below) \subseteq Nodes
    BY TreeAssumption, Zenon
  <2>2. node.first \in Int /\ node.last \in Int
    BY <2>1
  <2> QED
    BY <2>1, <2>2, Zenon
<1>2. ASSUME NEW s, IsList(s), Range(s) \subseteq Nodes
      PROVE  \A i \in 1..Len(s) : s[i] \in Nodes
  BY <1>2, InRange
<1> QED
  BY <1>1, <1>2, Zenon

\* A list that is not empty has a first element.
LEMMA FirstElement ==
  ASSUME NEW s, IsList(s), s # <<>>
  PROVE  1 \in 1..Len(s)
BY DEF IsList

\* Below a wrapper there is a node.
LEMMA UnwrapNode == \A node \in Nodes : Unwrap(node) \in Nodes
<1> TAKE node \in Nodes
<1>1. CASE node.wraps = <<>>
  BY <1>1 DEF Unwrap
<1>2. CASE node.wraps # <<>>
  <2>1. 1 \in 1..Len(node.wraps)
    BY <1>2, NodeParts, FirstElement, Zenon
  <2>2. node.wraps[1] \in Nodes
    BY <2>1, NodeParts, Zenon
  <2> QED
    BY <1>2, <2>2, Zenon DEF Unwrap
<1> QED
  BY <1>1, <1>2

\* Below all wrappers there is a node.
LEMMA UnwrappedNode ==
  ASSUME NEW node, node \in Nodes
  PROVE  Unwrapped(node) \in Nodes
<1>1. MaxSplitDepth \in Nat
  BY ChunkingAssumption
<1>2. \A x : x \in Nodes => Unwrap(x) \in Nodes
  BY UnwrapNode, Zenon
<1>3. Repeated(Unwrap, node, MaxSplitDepth) \in Nodes
  BY <1>1, <1>2, UnwrapStays, Zenon
<1> QED
  BY <1>3, Zenon DEF Unwrapped

\* Descending into an only child ends at a node.
LEMMA DescendNode == \A node \in Nodes : Descend(node) \in Nodes
<1> TAKE node \in Nodes
<1>1. CASE ~ GoesOn(node)
  BY <1>1 DEF Descend
<1>2. CASE GoesOn(node)
  <2>1. PICK d : d = Unwrapped(node)
    BY Zenon
  <2>2. d \in Nodes
    BY <2>1, UnwrappedNode, Zenon
  <2>3. Len(d.children) = 1
    BY <1>2, <2>1, Zenon DEF GoesOn
  <2>4. 1 \in 1..Len(d.children)
    BY <2>3
  <2>5. d.children[1] \in Nodes
    BY <2>2, <2>4, NodeParts, Zenon
  <2> QED
    BY <1>2, <2>1, <2>5, Zenon DEF Descend
<1> QED
  BY <1>1, <1>2

\* What the loop of the boundaries knows at its end.
BoundsOf(region, base, s) == FoldedOver(LAMBDA x, node : WithNode(x, node, region), base, s)

\* A group with a line that is not blank, and the groups that have one.
SomeLine(g, blank) ==
  \E n \in Lines(g[1].first, Last(g).last).first..Lines(g[1].first, Last(g).last).last : n \notin blank
NotBlank(s, blank) == Kept(s, LAMBDA g : SomeLine(g, blank))

\* The groups that have a line that is not blank.
LEMMA GroupsKept ==
  ASSUME NEW s, IsList(s), NEW blank
  PROVE  /\ IsList(NotBlank(s, blank))
         /\ \A y \in Range(NotBlank(s, blank)) :
              \E k \in 1..Len(s) : s[k] = y /\ SomeLine(y, blank)
         /\ \A k \in 1..Len(s) : SomeLine(s[k], blank) => s[k] \in Range(NotBlank(s, blank))
<1> DEFINE P(t) == {i \in DOMAIN t : SomeLine(t[i], blank)}
           B(t) == AtPlaces(t, Arranged(P(t), <))
           K == NotBlank(s, blank)
           I == P(s)
<1>1. \A x : {z \in {x} : z = z} = {x}
  OBVIOUS
<1>2. K = Of(s, B)
  BY DEF NotBlank, Kept
<1>3. Of(s, B) = B(s)
  <2> HIDE DEF B
  <2>1. {B(z) : z \in {z \in {s} : z = z}} = {B(s)}
    BY <1>1, Zenon
  <2> QED
    BY <2>1, Zenon DEF Of
<1>4. /\ I \in SUBSET (1..Len(s))
      /\ \A i \in I : SomeLine(s[i], blank)
      /\ \A i \in 1..Len(s) : SomeLine(s[i], blank) => i \in I
  BY ListElements
<1> HIDE DEF I, K
<1>5. B(s) = ElementsIn(s, I)
  BY ArrangedLess, Zenon DEF I, ElementsIn
<1>6. /\ IsList(K) /\ (\A x \in Range(K) : \E i \in I : s[i] = x) /\ \A i \in I : s[i] \in Range(K)
  <2> HIDE DEF B
  <2>1. K = ElementsIn(s, I)
    BY <1>2, <1>3, <1>5, Zenon
  <2>2. I \in SUBSET (1..Len(s))
    BY <1>4, Zenon
  <2> QED
    BY <2>1, <2>2, KeptElements
<1>7. ASSUME NEW y \in Range(K)
      PROVE  \E k \in 1..Len(s) : s[k] = y /\ SomeLine(y, blank)
  <2>1. PICK i \in I : s[i] = y
    BY <1>6
  <2> QED
    BY <2>1, <1>4
<1>8. ASSUME NEW k \in 1..Len(s), SomeLine(s[k], blank)
      PROVE  s[k] \in Range(K)
  BY <1>4, <1>6, <1>8
<1> QED
  BY <1>6, <1>7, <1>8 DEF K

\* What the loop of the boundaries knows after each node.
Bounding(h, region, base, s) ==
  /\ h[0] = base
  /\ \A n \in 1..Len(s) : h[n] = WithNode(h[n - 1], s[n], region)
  /\ h[Len(s)] = BoundsOf(region, base, s)

\* The loop computes them, one after the other.
LEMMA BoundsTrace ==
  ASSUME NEW region, NEW base, NEW s, Len(s) \in Nat
  PROVE  \E h : Bounding(h, region, base, s)
<1>0. PICK N : N = Len(s)
  BY Zenon
<1>10. N \in Nat
  BY <1>0
<1> DEFINE Step(x, n) == CHOOSE y \in {WithNode(z, s[n], region) : z \in {x}} : TRUE
           Rec(h, n) == h = [i \in 0..n |-> IF i = 0 THEN base ELSE Step(h[i - 1], i)]
           T == {n \in 0..N : \E h : Rec(h, n)}
<1>1. \A x, n : Step(x, n) = WithNode(x, s[n], region)
  <2> TAKE x, n
  <2> DEFINE y == WithNode(x, s[n], region)
  <2>1. {WithNode(z, s[n], region) : z \in {x}} = {y}
    BY <1>10
  <2> HIDE DEF y
  <2>2. (CHOOSE z \in {y} : TRUE) = y
    BY <1>10
  <2> QED
    BY <2>1, <2>2, Zenon DEF y
<1> HIDE DEF Step
<1>2. 0 \in T
  <2> DEFINE h == [i \in 0..0 |-> base]
  <2>1. Rec(h, 0)
    BY <1>10
  <2> HIDE DEF h, Rec
  <2> QED
    BY <1>10, <2>1
<1>3. ASSUME NEW n \in 0..(N - 1), n \in T PROVE n + 1 \in T
  <2>1. n \in Nat /\ n + 1 \in 0..N
    BY <1>10
  <2>2. PICK h : Rec(h, n)
    BY <1>3, Zenon
  <2> DEFINE g == [i \in 0..(n + 1) |-> IF i = 0 THEN base ELSE Step(h[i - 1], i)]
  <2>3. ASSUME NEW i \in 0..(n + 1), i # 0 PROVE g[i - 1] = h[i - 1]
    <3>1. i - 1 \in 0..n /\ i - 1 \in 0..(n + 1)
      BY <2>1, <2>3
    <3>2. g[i - 1] = IF i - 1 = 0 THEN base ELSE Step(h[i - 1 - 1], i - 1)
      BY <3>1, Zenon
    <3>3. h[i - 1] = IF i - 1 = 0 THEN base ELSE Step(h[i - 1 - 1], i - 1)
      BY <2>2, <3>1, Zenon
    <3> QED
      BY <3>2, <3>3, Zenon
  <2>4. \A i \in 0..(n + 1) : (IF i = 0 THEN base ELSE Step(h[i - 1], i))
                                = IF i = 0 THEN base ELSE Step(g[i - 1], i)
    <3> HIDE DEF g
    <3> QED
      BY <2>3, Zenon
  <2>5. Rec(g, n + 1)
    <3>1. g = [i \in 0..(n + 1) |-> IF i = 0 THEN base ELSE Step(h[i - 1], i)]
      BY <1>10
    <3> HIDE DEF g
    <3> QED
      BY <2>4, <3>1
  <2> HIDE DEF g, Rec
  <2> QED
    BY <2>1, <2>5, Zenon
<1>4. N \in T
  <2> HIDE DEF T
  <2>1. \A k \in 0..N : k \in T
    BY <1>2, <1>3, <1>10, UpTo
  <2> QED
    BY <1>10, <2>1
<1> DEFINE h == CHOOSE h : Rec(h, N)
<1>5. Rec(h, N)
  <2>1. \E g : Rec(g, N)
    BY <1>4, Zenon
  <2> HIDE DEF Rec
  <2> QED
    BY <2>1, Zenon
<1>6. BoundsOf(region, base, s) = h[N]
  BY <1>0, Zenon DEF BoundsOf, FoldedOver, Step
<1> HIDE DEF h
<1>7. 0 \in 0..N /\ \A i \in 1..N : i \in 0..N /\ i # 0
  BY <1>10
<1>8. h[0] = base
  BY <1>5, <1>7
<1>9. ASSUME NEW n \in 1..N PROVE h[n] = WithNode(h[n - 1], s[n], region)
  <2>1. h[n] = IF n = 0 THEN base ELSE Step(h[n - 1], n)
    BY <1>5, <1>7, Zenon
  <2> QED
    BY <1>1, <1>7, <2>1, Zenon
<1> QED
  BY <1>0, <1>6, <1>8, <1>9, Zenon DEF Bounding

\* The pieces after each round of splitting.
Splitting(h, base, N) ==
  /\ h[0] = base
  /\ \A n \in 1..N : h[n] = SplitAll(h[n - 1])
  /\ h[N] = Repeated(SplitAll, base, N)

\* So do the rounds of splitting.
LEMMA SplitTrace ==
  ASSUME NEW base, NEW N \in Nat
  PROVE  \E h : Splitting(h, base, N)
<1>10. N \in Nat
  OBVIOUS
<1> DEFINE s == [i \in 1..N |-> i]
           Step(x, n) == CHOOSE y \in {SplitAll(z) : z \in {x}} : TRUE
           Rec(h, n) == h = [i \in 0..n |-> IF i = 0 THEN base ELSE Step(h[i - 1], i)]
           T == {n \in 0..N : \E h : Rec(h, n)}
<1>0. N = Len(s)
  OBVIOUS
<1> HIDE DEF s
<1>1. \A x, n : Step(x, n) = SplitAll(x)
  <2> TAKE x, n
  <2> DEFINE y == SplitAll(x)
  <2>1. {SplitAll(z) : z \in {x}} = {y}
    BY <1>10
  <2> HIDE DEF y
  <2>2. (CHOOSE z \in {y} : TRUE) = y
    BY <1>10
  <2> QED
    BY <2>1, <2>2, Zenon DEF y
<1> HIDE DEF Step
<1>2. 0 \in T
  <2> DEFINE h == [i \in 0..0 |-> base]
  <2>1. Rec(h, 0)
    BY <1>10
  <2> HIDE DEF h, Rec
  <2> QED
    BY <1>10, <2>1
<1>3. ASSUME NEW n \in 0..(N - 1), n \in T PROVE n + 1 \in T
  <2>1. n \in Nat /\ n + 1 \in 0..N
    BY <1>10
  <2>2. PICK h : Rec(h, n)
    BY <1>3, Zenon
  <2> DEFINE g == [i \in 0..(n + 1) |-> IF i = 0 THEN base ELSE Step(h[i - 1], i)]
  <2>3. ASSUME NEW i \in 0..(n + 1), i # 0 PROVE g[i - 1] = h[i - 1]
    <3>1. i - 1 \in 0..n /\ i - 1 \in 0..(n + 1)
      BY <2>1, <2>3
    <3>2. g[i - 1] = IF i - 1 = 0 THEN base ELSE Step(h[i - 1 - 1], i - 1)
      BY <3>1, Zenon
    <3>3. h[i - 1] = IF i - 1 = 0 THEN base ELSE Step(h[i - 1 - 1], i - 1)
      BY <2>2, <3>1, Zenon
    <3> QED
      BY <3>2, <3>3, Zenon
  <2>4. \A i \in 0..(n + 1) : (IF i = 0 THEN base ELSE Step(h[i - 1], i))
                                = IF i = 0 THEN base ELSE Step(g[i - 1], i)
    <3> HIDE DEF g
    <3> QED
      BY <2>3, Zenon
  <2>5. Rec(g, n + 1)
    <3>1. g = [i \in 0..(n + 1) |-> IF i = 0 THEN base ELSE Step(h[i - 1], i)]
      BY <1>10
    <3> HIDE DEF g
    <3> QED
      BY <2>4, <3>1
  <2> HIDE DEF g, Rec
  <2> QED
    BY <2>1, <2>5, Zenon
<1>4. N \in T
  <2> HIDE DEF T
  <2>1. \A k \in 0..N : k \in T
    BY <1>2, <1>3, <1>10, UpTo
  <2> QED
    BY <1>10, <2>1
<1> DEFINE h == CHOOSE h : Rec(h, N)
<1>5. Rec(h, N)
  <2>1. \E g : Rec(g, N)
    BY <1>4, Zenon
  <2> HIDE DEF Rec
  <2> QED
    BY <2>1, Zenon
<1>6. Repeated(SplitAll, base, N) = h[N]
  BY <1>0, Zenon DEF s, Repeated, FoldedOver, Step
<1> HIDE DEF h
<1>7. 0 \in 0..N /\ \A i \in 1..N : i \in 0..N /\ i # 0
  BY <1>10
<1>8. h[0] = base
  BY <1>5, <1>7
<1>9. ASSUME NEW n \in 1..N PROVE h[n] = SplitAll(h[n - 1])
  <2>1. h[n] = IF n = 0 THEN base ELSE Step(h[n - 1], n)
    BY <1>5, <1>7, Zenon
  <2> QED
    BY <1>1, <1>7, <2>1, Zenon
<1> QED
  BY <1>0, <1>6, <1>8, <1>9, Zenon DEF Splitting

\* The groups after each segment that is packed.
Packing(h, base, s) ==
  /\ h[0] = base
  /\ \A n \in 1..Len(s) : h[n] = Packed(h[n - 1], s[n])
  /\ h[Len(s)] = FoldedOver(Packed, base, s)

\* So does the loop of pack_segments.
LEMMA PackTrace ==
  ASSUME NEW base, NEW s, Len(s) \in Nat
  PROVE  \E h : Packing(h, base, s)
<1>0. PICK N : N = Len(s)
  BY Zenon
<1>10. N \in Nat
  BY <1>0
<1> DEFINE Step(x, n) == CHOOSE y \in {Packed(z, s[n]) : z \in {x}} : TRUE
           Rec(h, n) == h = [i \in 0..n |-> IF i = 0 THEN base ELSE Step(h[i - 1], i)]
           T == {n \in 0..N : \E h : Rec(h, n)}
<1>1. \A x, n : Step(x, n) = Packed(x, s[n])
  <2> TAKE x, n
  <2> DEFINE y == Packed(x, s[n])
  <2>1. {Packed(z, s[n]) : z \in {x}} = {y}
    BY <1>10
  <2> HIDE DEF y
  <2>2. (CHOOSE z \in {y} : TRUE) = y
    BY <1>10
  <2> QED
    BY <2>1, <2>2, Zenon DEF y
<1> HIDE DEF Step
<1>2. 0 \in T
  <2> DEFINE h == [i \in 0..0 |-> base]
  <2>1. Rec(h, 0)
    BY <1>10
  <2> HIDE DEF h, Rec
  <2> QED
    BY <1>10, <2>1
<1>3. ASSUME NEW n \in 0..(N - 1), n \in T PROVE n + 1 \in T
  <2>1. n \in Nat /\ n + 1 \in 0..N
    BY <1>10
  <2>2. PICK h : Rec(h, n)
    BY <1>3, Zenon
  <2> DEFINE g == [i \in 0..(n + 1) |-> IF i = 0 THEN base ELSE Step(h[i - 1], i)]
  <2>3. ASSUME NEW i \in 0..(n + 1), i # 0 PROVE g[i - 1] = h[i - 1]
    <3>1. i - 1 \in 0..n /\ i - 1 \in 0..(n + 1)
      BY <2>1, <2>3
    <3>2. g[i - 1] = IF i - 1 = 0 THEN base ELSE Step(h[i - 1 - 1], i - 1)
      BY <3>1, Zenon
    <3>3. h[i - 1] = IF i - 1 = 0 THEN base ELSE Step(h[i - 1 - 1], i - 1)
      BY <2>2, <3>1, Zenon
    <3> QED
      BY <3>2, <3>3, Zenon
  <2>4. \A i \in 0..(n + 1) : (IF i = 0 THEN base ELSE Step(h[i - 1], i))
                                = IF i = 0 THEN base ELSE Step(g[i - 1], i)
    <3> HIDE DEF g
    <3> QED
      BY <2>3, Zenon
  <2>5. Rec(g, n + 1)
    <3>1. g = [i \in 0..(n + 1) |-> IF i = 0 THEN base ELSE Step(h[i - 1], i)]
      BY <1>10
    <3> HIDE DEF g
    <3> QED
      BY <2>4, <3>1
  <2> HIDE DEF g, Rec
  <2> QED
    BY <2>1, <2>5, Zenon
<1>4. N \in T
  <2> HIDE DEF T
  <2>1. \A k \in 0..N : k \in T
    BY <1>2, <1>3, <1>10, UpTo
  <2> QED
    BY <1>10, <2>1
<1> DEFINE h == CHOOSE h : Rec(h, N)
<1>5. Rec(h, N)
  <2>1. \E g : Rec(g, N)
    BY <1>4, Zenon
  <2> HIDE DEF Rec
  <2> QED
    BY <2>1, Zenon
<1>6. FoldedOver(Packed, base, s) = h[N]
  BY <1>0, Zenon DEF FoldedOver, Step
<1> HIDE DEF h
<1>7. 0 \in 0..N /\ \A i \in 1..N : i \in 0..N /\ i # 0
  BY <1>10
<1>8. h[0] = base
  BY <1>5, <1>7
<1>9. ASSUME NEW n \in 1..N PROVE h[n] = Packed(h[n - 1], s[n])
  <2>1. h[n] = IF n = 0 THEN base ELSE Step(h[n - 1], n)
    BY <1>5, <1>7, Zenon
  <2> QED
    BY <1>1, <1>7, <2>1, Zenon
<1> QED
  BY <1>0, <1>6, <1>8, <1>9, Zenon DEF Packing

\* A range that joins the last one or stands behind it, and all of them.
JoinedTo(merged, r) ==
  IF merged = <<>> \/ r.first > Last(merged).last + 1 THEN Append(merged, r)
  ELSE Append(Front(merged), Lines(Last(merged).first, Larger(Last(merged).last, r.last)))
AllJoined(base, s) == FoldedOver(JoinedTo, base, s)

\* What is merged after each range.
Joining(h, base, s) ==
  /\ h[0] = base
  /\ \A n \in 1..Len(s) : h[n] = JoinedTo(h[n - 1], s[n])
  /\ h[Len(s)] = AllJoined(base, s)

\* So does the loop of merge_ranges.
LEMMA JoinTrace ==
  ASSUME NEW base, NEW s, Len(s) \in Nat
  PROVE  \E h : Joining(h, base, s)
<1>0. PICK N : N = Len(s)
  BY Zenon
<1>10. N \in Nat
  BY <1>0
<1> DEFINE Step(x, n) == CHOOSE y \in {JoinedTo(z, s[n]) : z \in {x}} : TRUE
           Rec(h, n) == h = [i \in 0..n |-> IF i = 0 THEN base ELSE Step(h[i - 1], i)]
           T == {n \in 0..N : \E h : Rec(h, n)}
<1>1. \A x, n : Step(x, n) = JoinedTo(x, s[n])
  <2> TAKE x, n
  <2> DEFINE y == JoinedTo(x, s[n])
  <2>1. {JoinedTo(z, s[n]) : z \in {x}} = {y}
    BY <1>10
  <2> HIDE DEF y
  <2>2. (CHOOSE z \in {y} : TRUE) = y
    BY <1>10
  <2> QED
    BY <2>1, <2>2, Zenon DEF y
<1> HIDE DEF Step
<1>2. 0 \in T
  <2> DEFINE h == [i \in 0..0 |-> base]
  <2>1. Rec(h, 0)
    BY <1>10
  <2> HIDE DEF h, Rec
  <2> QED
    BY <1>10, <2>1
<1>3. ASSUME NEW n \in 0..(N - 1), n \in T PROVE n + 1 \in T
  <2>1. n \in Nat /\ n + 1 \in 0..N
    BY <1>10
  <2>2. PICK h : Rec(h, n)
    BY <1>3, Zenon
  <2> DEFINE g == [i \in 0..(n + 1) |-> IF i = 0 THEN base ELSE Step(h[i - 1], i)]
  <2>3. ASSUME NEW i \in 0..(n + 1), i # 0 PROVE g[i - 1] = h[i - 1]
    <3>1. i - 1 \in 0..n /\ i - 1 \in 0..(n + 1)
      BY <2>1, <2>3
    <3>2. g[i - 1] = IF i - 1 = 0 THEN base ELSE Step(h[i - 1 - 1], i - 1)
      BY <3>1, Zenon
    <3>3. h[i - 1] = IF i - 1 = 0 THEN base ELSE Step(h[i - 1 - 1], i - 1)
      BY <2>2, <3>1, Zenon
    <3> QED
      BY <3>2, <3>3, Zenon
  <2>4. \A i \in 0..(n + 1) : (IF i = 0 THEN base ELSE Step(h[i - 1], i))
                                = IF i = 0 THEN base ELSE Step(g[i - 1], i)
    <3> HIDE DEF g
    <3> QED
      BY <2>3, Zenon
  <2>5. Rec(g, n + 1)
    <3>1. g = [i \in 0..(n + 1) |-> IF i = 0 THEN base ELSE Step(h[i - 1], i)]
      BY <1>10
    <3> HIDE DEF g
    <3> QED
      BY <2>4, <3>1
  <2> HIDE DEF g, Rec
  <2> QED
    BY <2>1, <2>5, Zenon
<1>4. N \in T
  <2> HIDE DEF T
  <2>1. \A k \in 0..N : k \in T
    BY <1>2, <1>3, <1>10, UpTo
  <2> QED
    BY <1>10, <2>1
<1> DEFINE h == CHOOSE h : Rec(h, N)
<1>5. Rec(h, N)
  <2>1. \E g : Rec(g, N)
    BY <1>4, Zenon
  <2> HIDE DEF Rec
  <2> QED
    BY <2>1, Zenon
<1>6. AllJoined(base, s) = h[N]
  BY <1>0, Zenon DEF AllJoined, FoldedOver, Step
<1> HIDE DEF h
<1>7. 0 \in 0..N /\ \A i \in 1..N : i \in 0..N /\ i # 0
  BY <1>10
<1>8. h[0] = base
  BY <1>5, <1>7
<1>9. ASSUME NEW n \in 1..N PROVE h[n] = JoinedTo(h[n - 1], s[n])
  <2>1. h[n] = IF n = 0 THEN base ELSE Step(h[n - 1], n)
    BY <1>5, <1>7, Zenon
  <2> QED
    BY <1>1, <1>7, <2>1, Zenon
<1> QED
  BY <1>0, <1>6, <1>8, <1>9, Zenon DEF Joining

\* The steps of select_context: parts without what has been selected, and a part that is
\* selected as far as there is room.
WithoutRange(parts, r) == FlattenSeq([i \in DOMAIN parts |-> Outside(parts[i], r)])
Remaining(base, s) == FoldedOver(WithoutRange, base, s)
TakenPart(s, part) ==
  IF s.room = 0 THEN s
  ELSE LET last == Smaller(part.last, part.first + s.room - 1)
       IN  [selected |-> Append(s.selected, Lines(part.first, last)),
            room |-> s.room - (last - part.first + 1)]
AllTaken(base, s) == FoldedOver(TakenPart, base, s)
TriedRange(s, c) == AllTaken(s, Remaining(<<c>>, s.selected))
AllTried(base, s) == FoldedOver(TriedRange, base, s)

\* What is left of a range after each of those taken.
Leaving(h, base, s) ==
  /\ h[0] = base
  /\ \A n \in 1..Len(s) : h[n] = WithoutRange(h[n - 1], s[n])
  /\ h[Len(s)] = Remaining(base, s)

\* The inner loop of select_context over what has been selected.
LEMMA RemainTrace ==
  ASSUME NEW base, NEW s, Len(s) \in Nat
  PROVE  \E h : Leaving(h, base, s)
<1>0. PICK N : N = Len(s)
  BY Zenon
<1>10. N \in Nat
  BY <1>0
<1> DEFINE Step(x, n) == CHOOSE y \in {WithoutRange(z, s[n]) : z \in {x}} : TRUE
           Rec(h, n) == h = [i \in 0..n |-> IF i = 0 THEN base ELSE Step(h[i - 1], i)]
           T == {n \in 0..N : \E h : Rec(h, n)}
<1>1. \A x, n : Step(x, n) = WithoutRange(x, s[n])
  <2> TAKE x, n
  <2> DEFINE y == WithoutRange(x, s[n])
  <2>1. {WithoutRange(z, s[n]) : z \in {x}} = {y}
    BY <1>10
  <2> HIDE DEF y
  <2>2. (CHOOSE z \in {y} : TRUE) = y
    BY <1>10
  <2> QED
    BY <2>1, <2>2, Zenon DEF y
<1> HIDE DEF Step
<1>2. 0 \in T
  <2> DEFINE h == [i \in 0..0 |-> base]
  <2>1. Rec(h, 0)
    BY <1>10
  <2> HIDE DEF h, Rec
  <2> QED
    BY <1>10, <2>1
<1>3. ASSUME NEW n \in 0..(N - 1), n \in T PROVE n + 1 \in T
  <2>1. n \in Nat /\ n + 1 \in 0..N
    BY <1>10
  <2>2. PICK h : Rec(h, n)
    BY <1>3, Zenon
  <2> DEFINE g == [i \in 0..(n + 1) |-> IF i = 0 THEN base ELSE Step(h[i - 1], i)]
  <2>3. ASSUME NEW i \in 0..(n + 1), i # 0 PROVE g[i - 1] = h[i - 1]
    <3>1. i - 1 \in 0..n /\ i - 1 \in 0..(n + 1)
      BY <2>1, <2>3
    <3>2. g[i - 1] = IF i - 1 = 0 THEN base ELSE Step(h[i - 1 - 1], i - 1)
      BY <3>1, Zenon
    <3>3. h[i - 1] = IF i - 1 = 0 THEN base ELSE Step(h[i - 1 - 1], i - 1)
      BY <2>2, <3>1, Zenon
    <3> QED
      BY <3>2, <3>3, Zenon
  <2>4. \A i \in 0..(n + 1) : (IF i = 0 THEN base ELSE Step(h[i - 1], i))
                                = IF i = 0 THEN base ELSE Step(g[i - 1], i)
    <3> HIDE DEF g
    <3> QED
      BY <2>3, Zenon
  <2>5. Rec(g, n + 1)
    <3>1. g = [i \in 0..(n + 1) |-> IF i = 0 THEN base ELSE Step(h[i - 1], i)]
      BY <1>10
    <3> HIDE DEF g
    <3> QED
      BY <2>4, <3>1
  <2> HIDE DEF g, Rec
  <2> QED
    BY <2>1, <2>5, Zenon
<1>4. N \in T
  <2> HIDE DEF T
  <2>1. \A k \in 0..N : k \in T
    BY <1>2, <1>3, <1>10, UpTo
  <2> QED
    BY <1>10, <2>1
<1> DEFINE h == CHOOSE h : Rec(h, N)
<1>5. Rec(h, N)
  <2>1. \E g : Rec(g, N)
    BY <1>4, Zenon
  <2> HIDE DEF Rec
  <2> QED
    BY <2>1, Zenon
<1>6. Remaining(base, s) = h[N]
  BY <1>0, Zenon DEF Remaining, FoldedOver, Step
<1> HIDE DEF h
<1>7. 0 \in 0..N /\ \A i \in 1..N : i \in 0..N /\ i # 0
  BY <1>10
<1>8. h[0] = base
  BY <1>5, <1>7
<1>9. ASSUME NEW n \in 1..N PROVE h[n] = WithoutRange(h[n - 1], s[n])
  <2>1. h[n] = IF n = 0 THEN base ELSE Step(h[n - 1], n)
    BY <1>5, <1>7, Zenon
  <2> QED
    BY <1>1, <1>7, <2>1, Zenon
<1> QED
  BY <1>0, <1>6, <1>8, <1>9, Zenon DEF Leaving

\* What is selected after each part.
Taking(h, base, s) ==
  /\ h[0] = base
  /\ \A n \in 1..Len(s) : h[n] = TakenPart(h[n - 1], s[n])
  /\ h[Len(s)] = AllTaken(base, s)

\* Its loop over the parts that are left.
LEMMA TakeTrace ==
  ASSUME NEW base, NEW s, Len(s) \in Nat
  PROVE  \E h : Taking(h, base, s)
<1>0. PICK N : N = Len(s)
  BY Zenon
<1>10. N \in Nat
  BY <1>0
<1> DEFINE Step(x, n) == CHOOSE y \in {TakenPart(z, s[n]) : z \in {x}} : TRUE
           Rec(h, n) == h = [i \in 0..n |-> IF i = 0 THEN base ELSE Step(h[i - 1], i)]
           T == {n \in 0..N : \E h : Rec(h, n)}
<1>1. \A x, n : Step(x, n) = TakenPart(x, s[n])
  <2> TAKE x, n
  <2> DEFINE y == TakenPart(x, s[n])
  <2>1. {TakenPart(z, s[n]) : z \in {x}} = {y}
    BY <1>10
  <2> HIDE DEF y
  <2>2. (CHOOSE z \in {y} : TRUE) = y
    BY <1>10
  <2> QED
    BY <2>1, <2>2, Zenon DEF y
<1> HIDE DEF Step
<1>2. 0 \in T
  <2> DEFINE h == [i \in 0..0 |-> base]
  <2>1. Rec(h, 0)
    BY <1>10
  <2> HIDE DEF h, Rec
  <2> QED
    BY <1>10, <2>1
<1>3. ASSUME NEW n \in 0..(N - 1), n \in T PROVE n + 1 \in T
  <2>1. n \in Nat /\ n + 1 \in 0..N
    BY <1>10
  <2>2. PICK h : Rec(h, n)
    BY <1>3, Zenon
  <2> DEFINE g == [i \in 0..(n + 1) |-> IF i = 0 THEN base ELSE Step(h[i - 1], i)]
  <2>3. ASSUME NEW i \in 0..(n + 1), i # 0 PROVE g[i - 1] = h[i - 1]
    <3>1. i - 1 \in 0..n /\ i - 1 \in 0..(n + 1)
      BY <2>1, <2>3
    <3>2. g[i - 1] = IF i - 1 = 0 THEN base ELSE Step(h[i - 1 - 1], i - 1)
      BY <3>1, Zenon
    <3>3. h[i - 1] = IF i - 1 = 0 THEN base ELSE Step(h[i - 1 - 1], i - 1)
      BY <2>2, <3>1, Zenon
    <3> QED
      BY <3>2, <3>3, Zenon
  <2>4. \A i \in 0..(n + 1) : (IF i = 0 THEN base ELSE Step(h[i - 1], i))
                                = IF i = 0 THEN base ELSE Step(g[i - 1], i)
    <3> HIDE DEF g
    <3> QED
      BY <2>3, Zenon
  <2>5. Rec(g, n + 1)
    <3>1. g = [i \in 0..(n + 1) |-> IF i = 0 THEN base ELSE Step(h[i - 1], i)]
      BY <1>10
    <3> HIDE DEF g
    <3> QED
      BY <2>4, <3>1
  <2> HIDE DEF g, Rec
  <2> QED
    BY <2>1, <2>5, Zenon
<1>4. N \in T
  <2> HIDE DEF T
  <2>1. \A k \in 0..N : k \in T
    BY <1>2, <1>3, <1>10, UpTo
  <2> QED
    BY <1>10, <2>1
<1> DEFINE h == CHOOSE h : Rec(h, N)
<1>5. Rec(h, N)
  <2>1. \E g : Rec(g, N)
    BY <1>4, Zenon
  <2> HIDE DEF Rec
  <2> QED
    BY <2>1, Zenon
<1>6. AllTaken(base, s) = h[N]
  BY <1>0, Zenon DEF AllTaken, FoldedOver, Step
<1> HIDE DEF h
<1>7. 0 \in 0..N /\ \A i \in 1..N : i \in 0..N /\ i # 0
  BY <1>10
<1>8. h[0] = base
  BY <1>5, <1>7
<1>9. ASSUME NEW n \in 1..N PROVE h[n] = TakenPart(h[n - 1], s[n])
  <2>1. h[n] = IF n = 0 THEN base ELSE Step(h[n - 1], n)
    BY <1>5, <1>7, Zenon
  <2> QED
    BY <1>1, <1>7, <2>1, Zenon
<1> QED
  BY <1>0, <1>6, <1>8, <1>9, Zenon DEF Taking

\* What is selected after each candidate.
Trying(h, base, s) ==
  /\ h[0] = base
  /\ \A n \in 1..Len(s) : h[n] = TriedRange(h[n - 1], s[n])
  /\ h[Len(s)] = AllTried(base, s)

\* Its outer loop, over the candidates.
LEMMA TryTrace ==
  ASSUME NEW base, NEW s, Len(s) \in Nat
  PROVE  \E h : Trying(h, base, s)
<1>0. PICK N : N = Len(s)
  BY Zenon
<1>10. N \in Nat
  BY <1>0
<1> DEFINE Step(x, n) == CHOOSE y \in {TriedRange(z, s[n]) : z \in {x}} : TRUE
           Rec(h, n) == h = [i \in 0..n |-> IF i = 0 THEN base ELSE Step(h[i - 1], i)]
           T == {n \in 0..N : \E h : Rec(h, n)}
<1>1. \A x, n : Step(x, n) = TriedRange(x, s[n])
  <2> TAKE x, n
  <2> DEFINE y == TriedRange(x, s[n])
  <2>1. {TriedRange(z, s[n]) : z \in {x}} = {y}
    BY <1>10
  <2> HIDE DEF y
  <2>2. (CHOOSE z \in {y} : TRUE) = y
    BY <1>10
  <2> QED
    BY <2>1, <2>2, Zenon DEF y
<1> HIDE DEF Step
<1>2. 0 \in T
  <2> DEFINE h == [i \in 0..0 |-> base]
  <2>1. Rec(h, 0)
    BY <1>10
  <2> HIDE DEF h, Rec
  <2> QED
    BY <1>10, <2>1
<1>3. ASSUME NEW n \in 0..(N - 1), n \in T PROVE n + 1 \in T
  <2>1. n \in Nat /\ n + 1 \in 0..N
    BY <1>10
  <2>2. PICK h : Rec(h, n)
    BY <1>3, Zenon
  <2> DEFINE g == [i \in 0..(n + 1) |-> IF i = 0 THEN base ELSE Step(h[i - 1], i)]
  <2>3. ASSUME NEW i \in 0..(n + 1), i # 0 PROVE g[i - 1] = h[i - 1]
    <3>1. i - 1 \in 0..n /\ i - 1 \in 0..(n + 1)
      BY <2>1, <2>3
    <3>2. g[i - 1] = IF i - 1 = 0 THEN base ELSE Step(h[i - 1 - 1], i - 1)
      BY <3>1, Zenon
    <3>3. h[i - 1] = IF i - 1 = 0 THEN base ELSE Step(h[i - 1 - 1], i - 1)
      BY <2>2, <3>1, Zenon
    <3> QED
      BY <3>2, <3>3, Zenon
  <2>4. \A i \in 0..(n + 1) : (IF i = 0 THEN base ELSE Step(h[i - 1], i))
                                = IF i = 0 THEN base ELSE Step(g[i - 1], i)
    <3> HIDE DEF g
    <3> QED
      BY <2>3, Zenon
  <2>5. Rec(g, n + 1)
    <3>1. g = [i \in 0..(n + 1) |-> IF i = 0 THEN base ELSE Step(h[i - 1], i)]
      BY <1>10
    <3> HIDE DEF g
    <3> QED
      BY <2>4, <3>1
  <2> HIDE DEF g, Rec
  <2> QED
    BY <2>1, <2>5, Zenon
<1>4. N \in T
  <2> HIDE DEF T
  <2>1. \A k \in 0..N : k \in T
    BY <1>2, <1>3, <1>10, UpTo
  <2> QED
    BY <1>10, <2>1
<1> DEFINE h == CHOOSE h : Rec(h, N)
<1>5. Rec(h, N)
  <2>1. \E g : Rec(g, N)
    BY <1>4, Zenon
  <2> HIDE DEF Rec
  <2> QED
    BY <2>1, Zenon
<1>6. AllTried(base, s) = h[N]
  BY <1>0, Zenon DEF AllTried, FoldedOver, Step
<1> HIDE DEF h
<1>7. 0 \in 0..N /\ \A i \in 1..N : i \in 0..N /\ i # 0
  BY <1>10
<1>8. h[0] = base
  BY <1>5, <1>7
<1>9. ASSUME NEW n \in 1..N PROVE h[n] = TriedRange(h[n - 1], s[n])
  <2>1. h[n] = IF n = 0 THEN base ELSE Step(h[n - 1], n)
    BY <1>5, <1>7, Zenon
  <2> QED
    BY <1>1, <1>7, <2>1, Zenon
<1> QED
  BY <1>0, <1>6, <1>8, <1>9, Zenon DEF Trying

\* What the walk for errors knows after each round.
Walking(h, base, N) ==
  /\ h[0] = base
  /\ \A n \in 1..N : h[n] = Walked(h[n - 1])
  /\ h[N] = Repeated(Walked, base, N)

\* The rounds compute them, one after the other.
LEMMA WalkTrace ==
  ASSUME NEW base, NEW N \in Nat
  PROVE  \E h : Walking(h, base, N)
<1>10. N \in Nat
  OBVIOUS
<1> DEFINE s == [i \in 1..N |-> i]
           Step(x, n) == CHOOSE y \in {Walked(z) : z \in {x}} : TRUE
           Rec(h, n) == h = [i \in 0..n |-> IF i = 0 THEN base ELSE Step(h[i - 1], i)]
           T == {n \in 0..N : \E h : Rec(h, n)}
<1>0. N = Len(s)
  OBVIOUS
<1> HIDE DEF s
<1>1. \A x, n : Step(x, n) = Walked(x)
  <2> TAKE x, n
  <2> DEFINE y == Walked(x)
  <2>1. {Walked(z) : z \in {x}} = {y}
    BY <1>10
  <2> HIDE DEF y
  <2>2. (CHOOSE z \in {y} : TRUE) = y
    BY <1>10
  <2> QED
    BY <2>1, <2>2, Zenon DEF y
<1> HIDE DEF Step
<1>2. 0 \in T
  <2> DEFINE h == [i \in 0..0 |-> base]
  <2>1. Rec(h, 0)
    BY <1>10
  <2> HIDE DEF h, Rec
  <2> QED
    BY <1>10, <2>1
<1>3. ASSUME NEW n \in 0..(N - 1), n \in T PROVE n + 1 \in T
  <2>1. n \in Nat /\ n + 1 \in 0..N
    BY <1>10
  <2>2. PICK h : Rec(h, n)
    BY <1>3, Zenon
  <2> DEFINE g == [i \in 0..(n + 1) |-> IF i = 0 THEN base ELSE Step(h[i - 1], i)]
  <2>3. ASSUME NEW i \in 0..(n + 1), i # 0 PROVE g[i - 1] = h[i - 1]
    <3>1. i - 1 \in 0..n /\ i - 1 \in 0..(n + 1)
      BY <2>1, <2>3
    <3>2. g[i - 1] = IF i - 1 = 0 THEN base ELSE Step(h[i - 1 - 1], i - 1)
      BY <3>1, Zenon
    <3>3. h[i - 1] = IF i - 1 = 0 THEN base ELSE Step(h[i - 1 - 1], i - 1)
      BY <2>2, <3>1, Zenon
    <3> QED
      BY <3>2, <3>3, Zenon
  <2>4. \A i \in 0..(n + 1) : (IF i = 0 THEN base ELSE Step(h[i - 1], i))
                                = IF i = 0 THEN base ELSE Step(g[i - 1], i)
    <3> HIDE DEF g
    <3> QED
      BY <2>3, Zenon
  <2>5. Rec(g, n + 1)
    <3>1. g = [i \in 0..(n + 1) |-> IF i = 0 THEN base ELSE Step(h[i - 1], i)]
      BY <1>10
    <3> HIDE DEF g
    <3> QED
      BY <2>4, <3>1
  <2> HIDE DEF g, Rec
  <2> QED
    BY <2>1, <2>5, Zenon
<1>4. N \in T
  <2> HIDE DEF T
  <2>1. \A k \in 0..N : k \in T
    BY <1>2, <1>3, <1>10, UpTo
  <2> QED
    BY <1>10, <2>1
<1> DEFINE h == CHOOSE h : Rec(h, N)
<1>5. Rec(h, N)
  <2>1. \E g : Rec(g, N)
    BY <1>4, Zenon
  <2> HIDE DEF Rec
  <2> QED
    BY <2>1, Zenon
<1>6. Repeated(Walked, base, N) = h[N]
  BY <1>0, Zenon DEF s, Repeated, FoldedOver, Step
<1> HIDE DEF h
<1>7. 0 \in 0..N /\ \A i \in 1..N : i \in 0..N /\ i # 0
  BY <1>10
<1>8. h[0] = base
  BY <1>5, <1>7
<1>9. ASSUME NEW n \in 1..N PROVE h[n] = Walked(h[n - 1])
  <2>1. h[n] = IF n = 0 THEN base ELSE Step(h[n - 1], n)
    BY <1>5, <1>7, Zenon
  <2> QED
    BY <1>1, <1>7, <2>1, Zenon
<1> QED
  BY <1>0, <1>6, <1>8, <1>9, Zenon DEF Walking

\* MergeRanges and SelectContext are made of these.
SoonerOf(ranges, i, j) ==
  ranges[i].first < ranges[j].first \/ (ranges[i].first = ranges[j].first /\ i < j)
SoonerPairs(ranges, I) == {p \in I \X I : SoonerOf(ranges, p[1], p[2])}

\* merge_ranges sorts the ranges and joins them.
LEMMA MergeRangesIs ==
  ASSUME NEW ranges
  PROVE  MergeRanges(ranges) =
           AllJoined(<<>>, AtPlaces(ranges, Ranked(DOMAIN ranges, SoonerPairs(ranges, DOMAIN ranges))))
<1> DEFINE Earlier(i, j) == SoonerOf(ranges, i, j)
           A(J) == {p \in J \X J : Earlier(p[1], p[2])}
           B(J) == Of(A(J), LAMBDA before : Ranked(J, before))
           I == DOMAIN ranges
<1>1. MergeRanges(ranges) = AllJoined(<<>>, AtPlaces(ranges, Arranged(I, Earlier)))
  BY DEF MergeRanges, AllJoined, JoinedTo, FoldedOver, SoonerOf
<1>2. Arranged(I, Earlier) = Of(I, B)
  BY DEF Arranged
<1>3. \A x : {z \in {x} : z = z} = {x}
  OBVIOUS
<1>4. Of(I, B) = B(I)
  <2> HIDE DEF B
  <2>1. {B(z) : z \in {z \in {I} : z = z}} = {B(I)}
    BY <1>3, Zenon
  <2> QED
    BY <2>1, Zenon DEF Of
<1>5. B(I) = Ranked(I, A(I))
  <2> HIDE DEF A
  <2>1. {Ranked(I, z) : z \in {z \in {A(I)} : z = z}} = {Ranked(I, A(I))}
    BY <1>3, Zenon
  <2> QED
    BY <2>1, Zenon DEF Of
<1>6. A(I) = SoonerPairs(ranges, I)
  BY DEF SoonerPairs
<1> QED
  BY <1>1, <1>2, <1>4, <1>5, <1>6, Zenon

\* The ranges from which the context of a body may be taken.
AboveBody(r, body) == Kept(Outside(r, body), LAMBDA p : p.last < body.first)
Contexts(body, merged, headers) ==
  FlattenSeq([i \in DOMAIN merged |-> AboveBody(merged[i], body)]
               \o [i \in DOMAIN headers |-> AboveBody(headers[i], body)])

\* select_context tries the candidates and merges what it selects.
LEMMA SelectContextIs ==
  ASSUME NEW body, NEW signatures, NEW headers
  PROVE  SelectContext(body, signatures, headers) =
           MergeRanges(AllTried([selected |-> <<>>, room |-> MaxContextLines],
                                Contexts(body, MergeRanges(signatures), headers)).selected)
BY DEF SelectContext, Contexts, AboveBody, AllTried, TriedRange, AllTaken, TakenPart, Remaining,
       WithoutRange, FoldedOver

-----------------------------------------------------------------------------
(* Lists in which every element stands to every later one as R says.       *)

Apart(s, R) == \A i, j \in 1..Len(s) : i < j => <<s[i], s[j]>> \in R

\* Two such lists, one after the other.
LEMMA ConcatApart ==
  ASSUME NEW s, IsList(s), NEW t, IsList(t), NEW R, Apart(s, R), Apart(t, R),
         \A x \in Range(s), y \in Range(t) : <<x, y>> \in R
  PROVE  Apart(s \o t, R)
<1> DEFINE a == s \o t
           m == Len(s)
           n == Len(t)
<1>1. /\ m \in Nat /\ n \in Nat /\ Len(a) = m + n
      /\ \A i \in 1..m : a[i] = s[i] /\ s[i] \in Range(s)
      /\ \A i \in 1..n : a[m + i] = t[i] /\ t[i] \in Range(t)
  <2>1. /\ m \in Nat /\ \A i \in 1..m : s[i] \in Range(s)
    BY ListElements, Zenon
  <2>2. /\ n \in Nat /\ \A i \in 1..n : t[i] \in Range(t)
    BY ListElements, Zenon
  <2>3. /\ Len(a) = Len(s) + Len(t)
        /\ \A i \in 1..Len(s) : a[i] = s[i]
        /\ \A i \in 1..Len(t) : a[Len(s) + i] = t[i]
    BY ConcatList
  <2> HIDE DEF a, m, n
  <2>4. Len(a) = m + n
    BY <2>3 DEF m, n
  <2>5. \A i \in 1..m : a[i] = s[i]
    BY <2>3 DEF m
  <2>6. \A i \in 1..n : a[m + i] = t[i]
    BY <2>3 DEF m, n
  <2> QED
    BY <2>1, <2>2, <2>4, <2>5, <2>6, Zenon
<1>2. /\ \A i, j \in 1..m : i < j => <<s[i], s[j]>> \in R
      /\ \A i, j \in 1..n : i < j => <<t[i], t[j]>> \in R
  BY Zenon DEF Apart
<1> HIDE DEF a, m, n
<1>3. ASSUME NEW i \in 1..Len(a), NEW j \in 1..Len(a), i < j PROVE <<a[i], a[j]>> \in R
  <2>1. CASE j <= m
    <3>1. i \in 1..m /\ j \in 1..m
      BY <1>1, <1>3, <2>1
    <3> QED
      BY <1>1, <1>2, <1>3, <3>1
  <2>2. CASE i <= m /\ ~ (j <= m)
    <3>1. i \in 1..m /\ j - m \in 1..n /\ m + (j - m) = j
      BY <1>1, <1>3, <2>2
    <3>2. a[m + (j - m)] = t[j - m] /\ t[j - m] \in Range(t)
      BY <1>1, <3>1, Zenon
    <3>3. a[i] = s[i] /\ s[i] \in Range(s)
      BY <1>1, <3>1
    <3>4. a[j] = t[j - m]
      BY <3>1, <3>2
    <3> QED
      BY <3>2, <3>3, <3>4, Zenon
  <2>3. CASE ~ (i <= m)
    <3>1. i - m \in 1..n /\ m + (i - m) = i /\ j - m \in 1..n /\ m + (j - m) = j /\ i - m < j - m
      BY <1>1, <1>3, <2>3
    <3>2. a[m + (i - m)] = t[i - m] /\ a[m + (j - m)] = t[j - m]
      BY <1>1, <3>1, Zenon
    <3>3. a[i] = t[i - m] /\ a[j] = t[j - m]
      BY <3>1, <3>2
    <3>4. <<t[i - m], t[j - m]>> \in R
      BY <1>2, <3>1, Zenon
    <3> QED
      BY <3>3, <3>4, Zenon
  <2> QED
    BY <2>1, <2>2, <2>3
<1> QED
  BY <1>3, Zenon DEF Apart, a

\* One element more.
LEMMA AppendApart ==
  ASSUME NEW s, IsList(s), NEW x, NEW R, Apart(s, R), \A y \in Range(s) : <<y, x>> \in R
  PROVE  Apart(Append(s, x), R)
<1> DEFINE a == Append(s, x)
           m == Len(s)
<1>1. m \in Nat /\ \A i \in 1..m : s[i] \in Range(s)
  BY ListElements, Zenon
<1>2. Len(a) = m + 1 /\ (\A i \in 1..m : a[i] = s[i]) /\ a[m + 1] = x
  BY AppendList
<1> HIDE DEF a, m
<1>3. ASSUME NEW i \in 1..Len(a), NEW j \in 1..Len(a), i < j PROVE <<a[i], a[j]>> \in R
  <2>1. i \in 1..m /\ (j \in 1..m \/ j = m + 1)
    BY <1>1, <1>2, <1>3
  <2>2. a[i] = s[i] /\ s[i] \in Range(s)
    BY <1>1, <1>2, <2>1
  <2>3. CASE j \in 1..m
    <3>1. a[j] = s[j]
      BY <1>2, <2>3
    <3>2. <<s[i], s[j]>> \in R
      BY <1>3, <2>1, <2>3, Zenon DEF Apart, m
    <3> QED
      BY <2>2, <3>1, <3>2, Zenon
  <2>4. CASE j = m + 1
    <3>1. a[j] = x
      BY <1>2, <2>4
    <3> QED
      BY <2>2, <3>1, Zenon
  <2> QED
    BY <2>1, <2>3, <2>4, Zenon
<1> QED
  BY <1>3, Zenon DEF Apart, a

\* One element fewer.
LEMMA FrontApart ==
  ASSUME NEW s, IsList(s), s # <<>>, NEW R, Apart(s, R)
  PROVE  /\ Apart(Front(s), R)
         /\ \A x \in Range(Front(s)) : <<x, Last(s)>> \in R
<1> DEFINE m == Len(s) - 1
<1>1. s \in Seq(Range(s)) /\ Len(s) \in Nat /\ Len(s) > 0
  BY DEF IsList
<1>2. PICK f : f = Front(s)
  BY Zenon
<1>3. m \in Nat /\ m <= Len(s) /\ Len(s) \in 1..Len(s) /\ \A i \in 1..m : i \in 1..Len(s) /\ i < Len(s)
  BY <1>1
<1>4. f = SubSeq(s, 1, m)
  BY <1>2 DEF Front
<1> HIDE DEF m
<1>5. IsList(f) /\ Len(f) = m /\ \A i \in 1..m : f[i] = s[i]
  BY <1>3, <1>4, PrefixList
<1>6. \A i, j \in 1..Len(s) : i < j => <<s[i], s[j]>> \in R
  BY Zenon DEF Apart
<1>7. \A i, j \in 1..Len(f) : i < j => <<f[i], f[j]>> \in R
  BY <1>3, <1>5, <1>6
<1>8. ASSUME NEW x \in Range(f) PROVE <<x, Last(s)>> \in R
  <2>1. PICK i \in 1..m : f[i] = x
    BY <1>5, InRange
  <2>2. <<s[i], s[Len(s)]>> \in R
    BY <1>3, <1>6, <2>1, Zenon
  <2>3. s[i] = x
    BY <1>5, <2>1
  <2> QED
    BY <2>2, <2>3, Zenon DEF Last
<1> QED
  BY <1>2, <1>7, <1>8, Zenon DEF Apart

\* All of many lists.
LEMMA FlattenApart ==
  ASSUME NEW seqs, IsList(seqs), \A i \in 1..Len(seqs) : IsList(seqs[i]), NEW R,
         \A i \in 1..Len(seqs) : Apart(seqs[i], R),
         \A i, j \in 1..Len(seqs) : i < j =>
           \A x \in Range(seqs[i]), y \in Range(seqs[j]) : <<x, y>> \in R
  PROVE  Apart(FlattenSeq(seqs), R)
<1> DEFINE N == Len(seqs)
<1>1. N \in Nat
  BY ListElements, Zenon
<1>2. CASE N = 0
  <2>1. seqs = <<>>
    BY <1>2 DEF IsList
  <2>2. FlattenSeq(seqs) = seqs
    BY <1>2, Zenon DEF FlattenSeq
  <2>3. Apart(<<>>, R)
    BY DEF Apart
  <2> QED
    BY <2>1, <2>2, <2>3, Zenon
<1>3. CASE N # 0
  <2>1. PICK h : /\ h[1] = seqs[1]
                 /\ \A i \in 2..N : h[i] = h[i - 1] \o seqs[i]
                 /\ FlattenSeq(seqs) = h[N]
    BY <1>3, FlattenTrace, Zenon
  <2> DEFINE Good(k) ==
               /\ IsList(h[k])
               /\ \A x \in Range(h[k]) : \E i \in 1..k : x \in Range(seqs[i])
               /\ Apart(h[k], R)
             T == {k \in 0..(N - 1) : Good(k + 1)}
  <2>2. 0 \in T
    <3>1. 1 \in 1..N /\ 0 \in 0..(N - 1) /\ \A i : i \in 1..(0 + 1) <=> i = 1
      BY <1>1, <1>3
    <3>2. Good(1)
      BY <2>1, <3>1
    <3> HIDE DEF Good
    <3> QED
      BY <3>1, <3>2
  <2>3. ASSUME NEW k \in 0..(N - 1 - 1), k \in T PROVE k + 1 \in T
    <3> DEFINE m == k + 1
    <3>1. /\ m \in 1..N /\ m + 1 \in 2..N /\ m + 1 \in 1..N /\ m \in 0..(N - 1) /\ m + 1 - 1 = m
          /\ \A i : i \in 1..(m + 1) <=> i \in 1..m \/ i = m + 1
          /\ \A i \in 1..m : i \in 1..N /\ i < m + 1
      BY <1>1, <1>3
    <3>2. Good(m)
      <4> HIDE DEF Good
      <4> QED
        BY <2>3
    <3> HIDE DEF m
    <3>3. h[m + 1] = h[m] \o seqs[m + 1]
      <4> DEFINE p == m + 1
      <4>1. p \in 2..N /\ p - 1 = m
        BY <3>1
      <4> HIDE DEF p
      <4>2. h[p] = h[p - 1] \o seqs[p]
        BY <2>1, <4>1, Zenon
      <4> QED
        BY <4>1, <4>2, Zenon DEF p
    <3>4. IsList(seqs[m + 1]) /\ IsList(h[m]) /\ Apart(seqs[m + 1], R) /\ Apart(h[m], R)
      BY <3>1, <3>2, Zenon
    <3>5. IsList(h[m + 1]) /\ Range(h[m + 1]) = Range(h[m]) \cup Range(seqs[m + 1])
      BY <3>3, <3>4, ConcatRange, Zenon
    <3>6. ASSUME NEW x \in Range(h[m + 1]) PROVE \E i \in 1..(m + 1) : x \in Range(seqs[i])
      BY <3>1, <3>2, <3>5, Zenon
    <3>7. ASSUME NEW x \in Range(h[m]), NEW y \in Range(seqs[m + 1]) PROVE <<x, y>> \in R
      <4>1. PICK i \in 1..m : x \in Range(seqs[i])
        BY <3>2, Zenon
      <4>2. i \in 1..N /\ m + 1 \in 1..N /\ i < m + 1
        BY <3>1, Zenon
      <4> QED
        BY <4>1, <4>2, Zenon
    <3>8. Apart(h[m + 1], R)
      BY <3>3, <3>4, <3>7, ConcatApart, Zenon
    <3>9. Good(m + 1)
      BY <3>5, <3>6, <3>8, Zenon
    <3> HIDE DEF Good
    <3>10. m \in T
      BY <3>1, <3>9
    <3> QED
      BY <3>10 DEF m
  <2>4. Good(N)
    <3> HIDE DEF Good
    <3>1. N - 1 \in Nat /\ N - 1 \in 0..(N - 1) /\ N - 1 + 1 = N
      BY <1>1, <1>3
    <3>2. N - 1 \in T
      <4> HIDE DEF T
      <4>1. \A k \in 0..(N - 1) : k \in T
        BY <2>2, <2>3, <3>1, UpTo
      <4> QED
        BY <3>1, <4>1
    <3>3. Good(N - 1 + 1)
      BY <3>2
    <3> QED
      BY <3>1, <3>3
  <2> QED
    BY <2>1, <2>4, Zenon
<1> QED
  BY <1>2, <1>3, Zenon

\* Those that pass a test.
LEMMA KeptApart ==
  ASSUME NEW s, IsList(s), NEW I \in SUBSET (1..Len(s)), NEW k, k = ElementsIn(s, I),
         NEW R, Apart(s, R)
  PROVE  Apart(k, R)
<1> DEFINE S == {p \in I \X I : p[1] < p[2]}
           a == Ranked(I, S)
<1>1. IsFiniteSet(I) /\ Len(s) \in Nat
  <2>1. Len(s) \in Nat
    BY ListElements, Zenon
  <2> QED
    BY <2>1, FewPlaces, Zenon
<1>2. \A i, j \in I : <<i, j>> \in S <=> i < j
  OBVIOUS
<1>3. \A i \in I : i \in Int
  BY <1>1
<1> HIDE DEF S
<1>4. OrderOn(S, I)
  <2>1. \A i \in I : ~ (<<i, i>> \in S)
    BY <1>2, <1>3
  <2>2. \A i, j \in I : i # j => <<i, j>> \in S \/ <<j, i>> \in S
    BY <1>2, <1>3
  <2>3. \A i, j, l \in I : <<i, j>> \in S /\ <<j, l>> \in S => <<i, l>> \in S
    <3>1. \A i, j, l \in I : i < j /\ j < l => i < l
      BY <1>3
    <3> QED
      BY <1>2, <3>1, Zenon
  <2> QED
    BY <2>1, <2>2, <2>3, Zenon DEF OrderOn
<1>5. Lists(a, I, S)
  BY <1>1, <1>4, RankedLists, Zenon
<1>6. k = AtPlaces(s, a)
  BY Zenon DEF ElementsIn, S
<1> HIDE DEF a
<1>7. /\ Len(k) = Cardinality(I)
      /\ \A n \in 1..Cardinality(I) : a[n] \in I /\ k[n] = s[a[n]]
  BY <1>5, <1>6, ElementsAtPlaces
<1>8. \A m, n \in 1..Cardinality(I) : m < n => <<a[m], a[n]>> \in S
  BY <1>5, Zenon DEF Lists
<1>9. ASSUME NEW m \in 1..Len(k), NEW n \in 1..Len(k), m < n PROVE <<k[m], k[n]>> \in R
  <2>1. a[m] \in I /\ a[n] \in I /\ k[m] = s[a[m]] /\ k[n] = s[a[n]] /\ <<a[m], a[n]>> \in S
    BY <1>7, <1>8, <1>9, Zenon
  <2>2. a[m] < a[n]
    BY <1>2, <2>1, Zenon
  <2>3. a[m] \in 1..Len(s) /\ a[n] \in 1..Len(s)
    BY <2>1
  <2>4. <<s[a[m]], s[a[n]]>> \in R
    BY <2>2, <2>3, Zenon DEF Apart
  <2> QED
    BY <2>1, <2>4, Zenon
<1> QED
  BY <1>9, Zenon DEF Apart

-----------------------------------------------------------------------------
(* Ranges of lines (Lists).                                                *)

\* A range of lines, which has a line at least; and a list of ranges.
Ranged(r) == r.first \in Int /\ r.last \in Int /\ r.first <= r.last
AllRanges(s) == IsList(s) /\ \A r \in Range(s) : Ranged(r)

\* A line is in a range, or in one of a list.
Within(n, r) == r.first <= n /\ n <= r.last
Covered(n, s) == \E r \in Range(s) : Within(n, r)
SameLines(s, t) == \A n \in Int : Covered(n, s) <=> Covered(n, t)

\* A range made of two numbers.
LEMMA LinesRange ==
  ASSUME NEW m, NEW n
  PROVE  /\ Lines(m, n).first = m /\ Lines(m, n).last = n
         /\ m \in Int /\ n \in Int /\ m <= n => Ranged(Lines(m, n))
BY DEF Lines, Ranged

\* The elements of a list are those of its front, and the last.
LEMMA FrontAndLast ==
  ASSUME NEW s, IsList(s), s # <<>>
  PROVE  /\ IsList(Front(s))
         /\ Range(s) = Range(Front(s)) \cup {Last(s)}
<1> DEFINE m == Len(s) - 1
<1>1. s \in Seq(Range(s)) /\ Len(s) \in Nat /\ Len(s) > 0
  BY DEF IsList
<1>2. PICK f : f = Front(s)
  BY Zenon
<1>3. m \in Nat /\ m <= Len(s) /\ Len(s) \in 1..Len(s)
      /\ \A i \in 1..Len(s) : i \in 1..m \/ i = Len(s)
  BY <1>1
<1>4. f = SubSeq(s, 1, m)
  BY <1>2 DEF Front
<1> HIDE DEF m
<1>5. IsList(f) /\ Len(f) = m /\ \A i \in 1..m : f[i] = s[i]
  BY <1>3, <1>4, PrefixList
<1>6. (\A x \in Range(f) : x \in Range(s)) /\ Last(s) \in Range(s)
  BY <1>2, FrontList, Zenon
<1>7. ASSUME NEW x \in Range(s) PROVE x \in Range(f) \/ x = Last(s)
  <2>1. PICK i \in 1..Len(s) : s[i] = x
    BY InRange, Zenon
  <2>2. CASE i \in 1..m
    <3>1. f[i] = x
      BY <1>5, <2>1, <2>2, Zenon
    <3>2. f[i] \in Range(f)
      BY <1>5, <2>2, InRange, Zenon
    <3> QED
      BY <3>1, <3>2, Zenon
  <2>3. CASE i = Len(s)
    BY <2>1, <2>3, Zenon DEF Last
  <2> QED
    BY <1>3, <2>2, <2>3, Zenon
<1> QED
  BY <1>2, <1>5, <1>6, <1>7

\* A list that another element ends.
LEMMA AppendEnds ==
  ASSUME NEW s, IsList(s), NEW x
  PROVE  Append(s, x) # <<>> /\ Last(Append(s, x)) = x
<1>1. PICK a : a = Append(s, x)
  BY Zenon
<1>2. Len(s) \in Nat
  BY ListElements, Zenon
<1>3. IsList(a) /\ Len(a) = Len(s) + 1 /\ a[Len(s) + 1] = x
  BY <1>1, AppendList
<1>4. a # <<>> /\ a[Len(a)] = x
  BY <1>2, <1>3, EmptyIsList
<1> QED
  BY <1>1, <1>4, Zenon DEF Last

\* A range that begins no sooner than the last one joins it or stands behind it.
LEMMA JoinedLines ==
  ASSUME NEW merged, AllRanges(merged), NEW r, Ranged(r),
         merged # <<>> => Last(merged).first <= r.first
  PROVE  /\ AllRanges(JoinedTo(merged, r))
         /\ \A n \in Int : Covered(n, JoinedTo(merged, r)) <=> Covered(n, merged) \/ Within(n, r)
         /\ JoinedTo(merged, r) # <<>> /\ Last(JoinedTo(merged, r)).first <= r.first
<1>1. PICK j : j = JoinedTo(merged, r)
  BY Zenon
<1>2. IsList(merged) /\ \A x \in Range(merged) : Ranged(x)
  BY DEF AllRanges
<1>3. CASE merged = <<>> \/ r.first > Last(merged).last + 1
  <2>1. j = Append(merged, r)
    BY <1>1, <1>3, Zenon DEF JoinedTo
  <2>2. IsList(j) /\ Range(j) = Range(merged) \cup {r}
    BY <1>2, <2>1, AppendList, Zenon
  <2>3. j # <<>> /\ Last(j) = r
    BY <1>2, <2>1, AppendEnds, Zenon
  <2>4. AllRanges(j)
    BY <1>2, <2>2 DEF AllRanges
  <2>5. \A n \in Int : Covered(n, j) <=> Covered(n, merged) \/ Within(n, r)
    BY <2>2 DEF Covered
  <2>6. r.first <= r.first
    BY DEF Ranged
  <2> QED
    BY <1>1, <2>3, <2>4, <2>5, <2>6, Zenon
<1>4. CASE ~ (merged = <<>> \/ r.first > Last(merged).last + 1)
  <2>1. PICK f, l : f = Front(merged) /\ l = Last(merged)
    BY Zenon
  <2>2. IsList(f) /\ Range(merged) = Range(f) \cup {l}
    BY <1>2, <1>4, <2>1, FrontAndLast
  <2>3. Ranged(l) /\ \A x \in Range(f) : Ranged(x)
    BY <1>2, <2>2
  <2>4. l.first <= r.first /\ ~ (r.first > l.last + 1)
    BY <1>4, <2>1, Zenon
  <2>5. PICK m : m = Larger(l.last, r.last)
    BY Zenon
  <2>6. m \in Int /\ l.last <= m /\ r.last <= m /\ m \in {l.last, r.last}
    BY <2>3, <2>5 DEF Larger, Ranged
  <2>7. PICK p : p = Lines(l.first, m)
    BY Zenon
  <2>8. p.first = l.first /\ p.last = m
    BY <2>7, LinesRange, Zenon
  <2>9. Ranged(p)
    BY <2>3, <2>6, <2>8 DEF Ranged
  <2>10. j = Append(f, p)
    BY <1>1, <1>4, <2>1, <2>5, <2>7, Zenon DEF JoinedTo
  <2>11. IsList(j) /\ Range(j) = Range(f) \cup {p}
    BY <2>2, <2>10, AppendList, Zenon
  <2>12. j # <<>> /\ Last(j) = p
    BY <2>2, <2>10, AppendEnds, Zenon
  <2>13. AllRanges(j)
    BY <2>3, <2>9, <2>11 DEF AllRanges
  <2>14. ASSUME NEW n \in Int PROVE Within(n, p) <=> Within(n, l) \/ Within(n, r)
    BY <2>3, <2>4, <2>6, <2>8 DEF Within, Ranged
  <2>15. \A n \in Int : Covered(n, j) <=> Covered(n, merged) \/ Within(n, r)
    BY <2>2, <2>11, <2>14 DEF Covered
  <2> QED
    BY <1>1, <2>4, <2>8, <2>12, <2>13, <2>15, Zenon
<1> QED
  BY <1>3, <1>4, Zenon

\* Sorted by their first lines, the same ranges.
LEMMA SortedRanges ==
  ASSUME NEW s, AllRanges(s)
  PROVE  \E t : /\ MergeRanges(s) = AllJoined(<<>>, t)
                /\ IsList(t) /\ Range(t) = Range(s)
                /\ \A m, n \in 1..Len(t) : m < n => t[m].first <= t[n].first
<1> DEFINE I == 1..Len(s)
           R == SoonerPairs(s, I)
           a == Ranked(I, R)
           t == AtPlaces(s, a)
<1>1. IsList(s) /\ Len(s) \in Nat /\ DOMAIN s = I
  BY ListElements, Zenon DEF AllRanges
<1>2. \A i \in I : s[i] \in Range(s)
  BY <1>1, InRange, Zenon
<1>3. \A i \in I : i \in Int /\ s[i].first \in Int
  BY <1>1, <1>2 DEF AllRanges, Ranged
<1>4. MergeRanges(s) = AllJoined(<<>>, t)
  BY <1>1, MergeRangesIs, Zenon
<1>5. \A i, j \in I : <<i, j>> \in R <=> SoonerOf(s, i, j)
  BY DEF SoonerPairs
<1> HIDE DEF R
<1>6. OrderOn(R, I)
  <2>1. \A i \in I : ~ SoonerOf(s, i, i)
    BY <1>3 DEF SoonerOf
  <2>2. \A i, j \in I : i # j => SoonerOf(s, i, j) \/ SoonerOf(s, j, i)
    BY <1>3 DEF SoonerOf
  <2>3. \A i, j, k \in I : SoonerOf(s, i, j) /\ SoonerOf(s, j, k) => SoonerOf(s, i, k)
    BY <1>3 DEF SoonerOf
  <2> QED
    BY <1>5, <2>1, <2>2, <2>3, Zenon DEF OrderOn
<1>7. IsFiniteSet(I) /\ I \in SUBSET (1..Len(s))
  BY <1>1, FewPlaces
<1>8. Lists(a, I, R)
  BY <1>6, <1>7, RankedLists, Zenon
<1> HIDE DEF a
<1>9. /\ IsList(t) /\ Len(t) = Cardinality(I)
      /\ \A n \in 1..Cardinality(I) : a[n] \in I /\ t[n] = s[a[n]]
  <2>1. IsList(t) /\ Len(t) = Cardinality(I)
    BY <1>1, <1>7, <1>8, ElementsAtPlaces, Zenon
  <2>2. \A n \in 1..Cardinality(I) : AtPlaces(s, a)[n] = s[a[n]]
    BY <1>1, <1>7, <1>8, ElementsAtPlaces
  <2>3. \A n \in 1..Cardinality(I) : a[n] \in I
    BY <1>8, Zenon DEF Lists
  <2> QED
    BY <2>1, <2>2, <2>3, Zenon
<1>10. /\ \A x \in Range(t) : \E i \in I : s[i] = x
       /\ \A i \in I : s[i] \in Range(t)
  BY <1>1, <1>7, <1>8, RangeAtPlaces, Zenon
<1> HIDE DEF t
<1>11. Range(t) = Range(s)
  <2>1. \A x \in Range(s) : \E i \in I : s[i] = x
    BY <1>1, InRange, Zenon
  <2> QED
    BY <1>2, <1>10, <2>1
<1>12. ASSUME NEW m \in 1..Len(t), NEW n \in 1..Len(t), m < n PROVE t[m].first <= t[n].first
  <2>1. a[m] \in I /\ a[n] \in I /\ t[m] = s[a[m]] /\ t[n] = s[a[n]]
    BY <1>9, Zenon
  <2>2. <<a[m], a[n]>> \in R
    BY <1>8, <1>9, <1>12, Zenon DEF Lists
  <2>3. SoonerOf(s, a[m], a[n])
    BY <1>5, <2>1, <2>2, Zenon
  <2>4. s[a[m]].first \in Int /\ s[a[n]].first \in Int
    BY <1>3, <2>1, Zenon
  <2>5. s[a[m]].first <= s[a[n]].first
    BY <2>3, <2>4 DEF SoonerOf
  <2> QED
    BY <2>1, <2>5, Zenon
<1> QED
  BY <1>4, <1>9, <1>11, <1>12, Zenon

\* Merging ranges keeps their lines.
LEMMA MergedLines ==
  ASSUME NEW s, AllRanges(s)
  PROVE  AllRanges(MergeRanges(s)) /\ SameLines(MergeRanges(s), s)
<1>1. PICK t : /\ MergeRanges(s) = AllJoined(<<>>, t)
               /\ IsList(t) /\ Range(t) = Range(s)
               /\ \A m, n \in 1..Len(t) : m < n => t[m].first <= t[n].first
  BY SortedRanges, Zenon
<1> DEFINE N == Len(t)
<1>2. N \in Nat
  BY <1>1, ListElements, Zenon
<1>3. PICK h : Joining(h, <<>>, t)
  BY <1>2, JoinTrace, Zenon
<1>4. /\ h[0] = <<>>
      /\ \A n \in 1..N : h[n] = JoinedTo(h[n - 1], t[n])
      /\ h[N] = MergeRanges(s)
  BY <1>1, <1>3, Zenon DEF Joining
<1>5. \A i \in 1..N : Ranged(t[i])
  BY <1>1, InRange, Zenon DEF AllRanges
<1>6. \A m, n \in 1..N : m < n => t[m].first <= t[n].first
  BY <1>1
<1> DEFINE Good(k) ==
             /\ AllRanges(h[k])
             /\ h[k] # <<>> => k \in 1..N /\ Last(h[k]).first <= t[k].first
             /\ \A n \in Int : Covered(n, h[k]) <=> \E i \in 1..k : Within(n, t[i])
           T == {k \in 0..N : Good(k)}
<1> HIDE DEF N
<1>7. 0 \in T
  <2>1. AllRanges(<<>>) /\ \A n \in Int : ~ Covered(n, <<>>)
    BY EmptyIsList DEF AllRanges, Covered
  <2>2. \A i : i \notin 1..0
    OBVIOUS
  <2>3. Good(0)
    BY <1>4, <2>1, <2>2
  <2> HIDE DEF Good
  <2> QED
    BY <1>2, <2>3
<1>8. ASSUME NEW k \in 0..(N - 1), k \in T PROVE k + 1 \in T
  <2>1. PICK m : m = k + 1
    OBVIOUS
  <2>2. m \in 1..N /\ m \in 0..N /\ m - 1 = k /\ \A i : i \in 1..m <=> i \in 1..k \/ i = m
    BY <1>2, <2>1
  <2>3. Good(k)
    BY <1>8
  <2>4. PICK g : g = h[k]
    BY Zenon
  <2>5. h[m] = JoinedTo(g, t[m])
    BY <1>4, <2>2, <2>4
  <2>6. AllRanges(g) /\ Ranged(t[m])
    BY <1>5, <2>2, <2>3, <2>4, Zenon
  <2>7. ASSUME g # <<>> PROVE Last(g).first <= t[m].first
    <3>1. k \in 1..N /\ Last(g).first <= t[k].first
      BY <2>3, <2>4, <2>7, Zenon
    <3>2. t[k].first <= t[m].first
      BY <1>6, <2>1, <2>2, <3>1
    <3>3. Ranged(Last(g)) /\ Ranged(t[k])
      <4>1. Last(g) \in Range(g)
        BY <2>6, <2>7, FrontList, Zenon DEF AllRanges
      <4> QED
        BY <1>5, <2>6, <3>1, <4>1, Zenon DEF AllRanges
    <3> QED
      BY <2>6, <3>1, <3>2, <3>3 DEF Ranged
  <2>8. PICK j : j = JoinedTo(g, t[m])
    BY Zenon
  <2>9. /\ AllRanges(j)
        /\ \A n \in Int : Covered(n, j) <=> Covered(n, g) \/ Within(n, t[m])
        /\ j # <<>> /\ Last(j).first <= t[m].first
    BY <2>6, <2>7, <2>8, JoinedLines, Zenon
  <2>10. \A n \in Int : Covered(n, j) <=> \E i \in 1..m : Within(n, t[i])
    <3>1. \A n \in Int : Covered(n, g) <=> \E i \in 1..k : Within(n, t[i])
      BY <2>3, <2>4, Zenon
    <3> QED
      BY <2>2, <2>9, <3>1, Zenon
  <2>11. Good(m)
    BY <2>2, <2>5, <2>8, <2>9, <2>10, Zenon
  <2> HIDE DEF Good
  <2> QED
    BY <2>1, <2>2, <2>11
<1>9. Good(N)
  <2> HIDE DEF Good
  <2>1. N \in T
    <3> HIDE DEF T
    <3>1. \A k \in 0..N : k \in T
      BY <1>2, <1>7, <1>8, UpTo
    <3> QED
      BY <1>2, <3>1
  <2> QED
    BY <2>1
<1>10. ASSUME NEW n \in Int PROVE Covered(n, s) <=> \E i \in 1..N : Within(n, t[i])
  <2>1. /\ \A x \in Range(t) : \E i \in 1..N : t[i] = x
        /\ \A i \in 1..N : t[i] \in Range(t)
    BY <1>1, InRange, Zenon DEF N
  <2> QED
    BY <1>1, <2>1, Zenon DEF Covered
<1> QED
  BY <1>4, <1>9, <1>10, Zenon DEF SameLines

-----------------------------------------------------------------------------
(* Counts and the score of a report (Report).                              *)

\* There are as many ids as findings.
LEMMA DistinctCount ==
  ASSUME NEW s, IsList(s), DistinctIds(s)
  PROVE  Cardinality({x.id : x \in Range(s)}) = Len(s)
<1> DEFINE N == Len(s)
           T == {x.id : x \in Range(s)}
           f == [i \in 1..N |-> s[i].id]
<1>1. N \in Nat
  BY ListElements, Zenon
<1>2. f \in Bijection(1..N, T)
  <2>1. \A i \in 1..N : s[i] \in Range(s)
    BY InRange, Zenon
  <2>2. f \in [1..N -> T]
    BY <2>1
  <2>3. \A i, j \in 1..N : f[i] = f[j] => i = j
    BY DEF DistinctIds
  <2>4. ASSUME NEW y \in T PROVE \E i \in 1..N : f[i] = y
    <3>1. PICK x \in Range(s) : x.id = y
      OBVIOUS
    <3>2. PICK i \in 1..N : s[i] = x
      BY InRange, Zenon
    <3> QED
      BY <3>1, <3>2
  <2> HIDE DEF f, T
  <2>5. f \in Injection(1..N, T)
    BY <2>2, <2>3, Zenon DEF Injection, IsInjective
  <2>6. f \in Surjection(1..N, T)
    BY <2>2, <2>4, Zenon DEF Surjection
  <2> QED
    BY <2>5, <2>6, Zenon DEF Bijection
<1> HIDE DEF f, T
<1>3. IsFiniteSet(1..N) /\ Cardinality(1..N) = N
  <2> HIDE DEF N
  <2> QED
    BY <1>1, FS_Interval
<1>4. Cardinality(T) = Cardinality(1..N)
  BY <1>2, <1>3, FS_Bijection, Zenon DEF ExistsBijection
<1> QED
  BY <1>3, <1>4 DEF T

\* What the results of a review say that they leave out.
DiscardedOf(results) == MapThenSumSet(LAMBDA i : results[i].discarded, DOMAIN results)

\* It is a number.
LEMMA DiscardedIsNat ==
  ASSUME NEW results, NEW files, ReviewResults(results, files)
  PROVE  DiscardedOf(results) \in Nat
<1> DEFINE S == DOMAIN results
           w == [i \in S |-> results[i].discarded]
           E(h) == [s \in SUBSET S |->
                     IF s = {} THEN 0
                     ELSE results[CHOOSE x \in s : TRUE].discarded + h[s \ {CHOOSE x \in s : TRUE}]]
           F(h) == [s \in SUBSET S |-> IF s = {} THEN 0 ELSE w[OneOf(s)] + h[s \ {OneOf(s)}]]
           g == CHOOSE h : h = E(h)
<1>0. S = 1..Len(results) /\ Len(results) \in Nat
  BY ListElements, Zenon DEF ReviewResults
<1>1. \A i \in S : w[i] \in Nat
  BY <1>0 DEF ReviewResults, ReviewResult
<1>9. IsFiniteSet(S)
  BY <1>0, FS_Interval
<1>2. ASSUME NEW h PROVE E(h) = F(h)
  <2>1. ASSUME NEW s \in SUBSET S, s # {}
        PROVE  results[CHOOSE x \in s : TRUE].discarded = w[OneOf(s)]
    <3>1. OneOf(s) \in S
      BY <2>1 DEF OneOf
    <3>2. w[OneOf(s)] = results[OneOf(s)].discarded
      BY <3>1
    <3> HIDE DEF w
    <3> QED
      BY <3>2, Zenon DEF OneOf
  <2>2. ASSUME NEW s \in SUBSET S
        PROVE  (IF s = {} THEN 0
                ELSE results[CHOOSE x \in s : TRUE].discarded + h[s \ {CHOOSE x \in s : TRUE}])
                = IF s = {} THEN 0 ELSE w[OneOf(s)] + h[s \ {OneOf(s)}]
    <3> DEFINE x == CHOOSE x \in s : TRUE
    <3>1. OneOf(s) = x
      BY DEF OneOf
    <3> HIDE DEF w, x
    <3>2. CASE s = {}
      BY <3>2
    <3>3. CASE s # {}
      BY <2>1, <3>1, <3>3 DEF x
    <3> QED
      BY <3>2, <3>3
  <2> HIDE DEF w
  <2> QED
    BY <2>2, Zenon
<1>3. DiscardedOf(results) = g[S]
  BY DEF DiscardedOf, MapThenSumSet, MapThenFoldSet
<1>4. PICK h : Summing(h, SUBSET S, w)
  BY <1>9, SomeSum, Zenon
<1> HIDE DEF w
<1>5. h = E(h)
  BY <1>2, <1>4, Zenon DEF Summing
<1>6. g = E(g)
  <2> HIDE DEF E
  <2> QED
    BY <1>5, Zenon
<1>7. Summing(g, SUBSET S, w)
  <2> HIDE DEF g, E
  <2> QED
    BY <1>2, <1>6, Zenon DEF Summing
<1> HIDE DEF g
<1>8. g[S] \in Nat
  <2> HIDE DEF S
  <2> QED
    BY <1>1, <1>7, <1>9, NaturalSum
<1> QED
  BY <1>3, <1>8

\* A sum of function values (SumOver) is one of those that recursion on sets gives.
LEMMA SumOverSums ==
  ASSUME NEW S, IsFiniteSet(S), NEW w
  PROVE  \E h : Summing(h, SUBSET S, w) /\ SumOver(S, w) = h[S]
<1> DEFINE E(h) == [s \in SUBSET S |->
                     IF s = {} THEN 0 ELSE w[CHOOSE x \in s : TRUE] + h[s \ {CHOOSE x \in s : TRUE}]]
           g == CHOOSE h : h = E(h)
<1>1. ASSUME NEW h PROVE h = E(h) <=> Summing(h, SUBSET S, w)
  BY DEF Summing, OneOf
<1>2. SumOver(S, w) = g[S]
  BY DEF SumOver, MapThenSumSet, MapThenFoldSet
<1>3. PICK h : h = E(h)
  <2> HIDE DEF E
  <2> QED
    BY <1>1, SomeSum, Zenon
<1>4. g = E(g)
  <2> HIDE DEF E
  <2> QED
    BY <1>3, Zenon
<1> HIDE DEF g, E
<1> QED
  BY <1>1, <1>2, <1>4, Zenon

\* The members of D whose kind is among these.
OfKinds(D, kind, T) == {i \in D : kind[i] \in T}

\* w counts the members of D of each kind in S.
ByKind(D, S, kind, w) ==
  /\ \A i \in D : kind[i] \in S
  /\ \A x \in S : w[x] = Cardinality({i \in D : kind[i] = x})

\* A finite set is counted by counting the members of each kind.
LEMMA CountedByKind ==
  ASSUME NEW D, IsFiniteSet(D), NEW S, IsFiniteSet(S), NEW kind, NEW w, ByKind(D, S, kind, w)
  PROVE  SumOver(S, w) = Cardinality(D)
<1>1. PICK h : Summing(h, SUBSET S, w) /\ SumOver(S, w) = h[S]
  BY SumOverSums, Zenon
<1> DEFINE N == Cardinality(S)
           Counted(s) == h[s] = Cardinality(OfKinds(D, kind, s))
           T == {n \in 0..N : \A s \in SUBSET S : Cardinality(s) <= n => Counted(s)}
<1>2. N \in Nat
  BY FS_CardinalityType
<1>3. \A s \in SUBSET S : h[s] = IF s = {} THEN 0 ELSE w[OneOf(s)] + h[s \ {OneOf(s)}]
  BY <1>1 DEF Summing
<1>4. Counted({})
  <2>1. h[{}] = 0
    <3>1. {} \in SUBSET S
      OBVIOUS
    <3> QED
      BY <1>3, <3>1, Zenon
  <2>2. OfKinds(D, kind, {}) = {}
    BY DEF OfKinds
  <2> QED
    BY <2>1, <2>2, FS_EmptySet
<1>5. 0 \in T
  <2>1. ASSUME NEW s \in SUBSET S, Cardinality(s) <= 0 PROVE Counted(s)
    <3>1. Cardinality(s) \in Nat /\ (Cardinality(s) = 0 <=> s = {})
      BY WithoutOne
    <3>2. s = {}
      BY <2>1, <3>1
    <3> HIDE DEF Counted
    <3> QED
      BY <1>4, <3>2
  <2> HIDE DEF Counted
  <2> QED
    BY <1>2, <2>1
<1>6. ASSUME NEW s \in SUBSET S, s # {}, Counted(s \ {OneOf(s)}) PROVE Counted(s)
  <2> DEFINE x == OneOf(s)
             A == OfKinds(D, kind, s \ {x})
             B == {i \in D : kind[i] = x}
  <2>1. x \in s
    BY <1>6, WithoutOne
  <2>2. OfKinds(D, kind, s) = A \cup B /\ A \cap B = {}
    <3> HIDE DEF x
    <3> QED
      BY <2>1 DEF OfKinds
  <2>3. A \in SUBSET D /\ B \in SUBSET D
    BY DEF OfKinds
  <2>4. h[s] = w[x] + h[s \ {x}]
    BY <1>3, <1>6
  <2>5. w[x] = Cardinality(B) /\ h[s \ {x}] = Cardinality(A)
    BY <1>6, <2>1 DEF ByKind
  <2> HIDE DEF A, B, x
  <2>6. IsFiniteSet(A) /\ IsFiniteSet(B)
    BY <2>3, FS_Subset
  <2>7. Cardinality(A \cup B) = Cardinality(A) + Cardinality(B) - Cardinality(A \cap B)
    BY <2>6, FS_Union
  <2>8. Cardinality(A) \in Nat /\ Cardinality(B) \in Nat /\ Cardinality(A \cap B) = 0
    BY <2>2, <2>6, FS_CardinalityType, FS_EmptySet
  <2> QED
    BY <2>2, <2>4, <2>5, <2>7, <2>8
<1>7. ASSUME NEW n \in 0..(N - 1), n \in T PROVE n + 1 \in T
  <2>1. n \in Nat /\ n + 1 \in 0..N
    BY <1>2
  <2>2. ASSUME NEW s \in SUBSET S, Cardinality(s) <= n + 1 PROVE Counted(s)
    <3>1. CASE s = {}
      <4> HIDE DEF Counted
      <4> QED
        BY <1>4, <3>1
    <3>2. CASE s # {}
      <4> DEFINE t == s \ {OneOf(s)}
      <4>1. Cardinality(s) \in Nat /\ t \in SUBSET S /\ Cardinality(t) = Cardinality(s) - 1
        BY <3>2, WithoutOne
      <4>2. Cardinality(t) <= n
        BY <2>1, <2>2, <4>1
      <4>3. Counted(t)
        <5> HIDE DEF Counted, t
        <5> QED
          BY <1>7, <4>1, <4>2
      <4> HIDE DEF Counted
      <4> QED
        BY <1>6, <3>2, <4>3
    <3> QED
      BY <3>1, <3>2
  <2> HIDE DEF Counted
  <2> QED
    BY <2>1, <2>2
<1>8. \A k \in 0..N : k \in T
  <2> HIDE DEF T
  <2> QED
    BY <1>2, <1>5, <1>7, UpTo
<1>9. Counted(S)
  <2>1. N \in T /\ N <= N
    BY <1>2, <1>8
  <2> HIDE DEF Counted
  <2> QED
    BY <2>1
<1>10. OfKinds(D, kind, S) = D
  BY DEF OfKinds, ByKind
<1> QED
  BY <1>1, <1>9, <1>10

\* The weights of the findings at these places.
WeightsOf(S, listed) == MapThenSumSet(LAMBDA i : SeverityWeight[listed[i].severity], S)

\* The lines of code of these files.
LinesOf(S) == MapThenSumSet(LAMBDA f : IF f.source = 0 THEN f.lines ELSE f.source, S)

\* The weights of findings sum to a number.
LEMMA WeightsAreInt ==
  ASSUME NEW S, IsFiniteSet(S), NEW listed, \A i \in S : listed[i].severity \in Severities
  PROVE  WeightsOf(S, listed) \in Int /\ (S = {} => WeightsOf(S, listed) = 0)
<1> DEFINE w == [i \in S |-> SeverityWeight[listed[i].severity]]
           E(h) == [s \in SUBSET S |->
                     IF s = {} THEN 0
                     ELSE SeverityWeight[listed[CHOOSE x \in s : TRUE].severity] + h[s \ {CHOOSE x \in s : TRUE}]]
           F(h) == [s \in SUBSET S |-> IF s = {} THEN 0 ELSE w[OneOf(s)] + h[s \ {OneOf(s)}]]
           g == CHOOSE h : h = E(h)
<1>1. \A i \in S : w[i] \in Int
  <2>1. \A x \in Severities : SeverityWeight[x] \in Int
    BY DEF SeverityWeight, Severities, Critical, High, Medium, Low, Info
  <2> QED
    BY <2>1
<1>2. ASSUME NEW h PROVE E(h) = F(h)
  <2>1. ASSUME NEW s \in SUBSET S, s # {}
        PROVE  SeverityWeight[listed[CHOOSE x \in s : TRUE].severity] = w[OneOf(s)]
    <3>1. OneOf(s) \in S
      BY <2>1 DEF OneOf
    <3>2. w[OneOf(s)] = SeverityWeight[listed[OneOf(s)].severity]
      BY <3>1
    <3> HIDE DEF w
    <3> QED
      BY <3>2, Zenon DEF OneOf
  <2>2. ASSUME NEW s \in SUBSET S
        PROVE  (IF s = {} THEN 0
                ELSE SeverityWeight[listed[CHOOSE x \in s : TRUE].severity] + h[s \ {CHOOSE x \in s : TRUE}])
                = IF s = {} THEN 0 ELSE w[OneOf(s)] + h[s \ {OneOf(s)}]
    <3> DEFINE x == CHOOSE x \in s : TRUE
    <3>1. OneOf(s) = x
      BY DEF OneOf
    <3> HIDE DEF w, x
    <3>2. CASE s = {}
      BY <3>2
    <3>3. CASE s # {}
      BY <2>1, <3>1, <3>3 DEF x
    <3> QED
      BY <3>2, <3>3
  <2> HIDE DEF w
  <2> QED
    BY <2>2, Zenon
<1>3. WeightsOf(S, listed) = g[S]
  BY DEF WeightsOf, MapThenSumSet, MapThenFoldSet
<1>4. PICK h : Summing(h, SUBSET S, w)
  BY SomeSum, Zenon
<1> HIDE DEF w
<1>5. h = E(h)
  BY <1>2, <1>4, Zenon DEF Summing
<1>6. g = E(g)
  <2> HIDE DEF E
  <2> QED
    BY <1>5, Zenon
<1>7. Summing(g, SUBSET S, w)
  <2> HIDE DEF g, E
  <2> QED
    BY <1>2, <1>6, Zenon DEF Summing
<1> HIDE DEF g
<1>8. S = {} => g[S] = 0
  BY <1>7 DEF Summing
<1> QED
  BY <1>1, <1>3, <1>7, <1>8, SumType

\* A file of the report, with the lines it has and those that were measured.
Measuring(files) == IsFiniteSet(files) /\ \A f \in files : f.lines \in Int /\ f.source \in Int

\* The lines of code of files sum to a number.
LEMMA LinesAreInt ==
  ASSUME NEW S, Measuring(S)
  PROVE  LinesOf(S) \in Int
<1> DEFINE Code(f) == IF f.source = 0 THEN f.lines ELSE f.source
           w == [f \in S |-> Code(f)]
           E(h) == [s \in SUBSET S |->
                     IF s = {} THEN 0
                     ELSE Code(CHOOSE x \in s : TRUE) + h[s \ {CHOOSE x \in s : TRUE}]]
           F(h) == [s \in SUBSET S |-> IF s = {} THEN 0 ELSE w[OneOf(s)] + h[s \ {OneOf(s)}]]
           g == CHOOSE h : h = E(h)
<1>1. IsFiniteSet(S) /\ \A f \in S : w[f] \in Int
  BY DEF Measuring
<1>2. ASSUME NEW h PROVE E(h) = F(h)
  <2>1. ASSUME NEW s \in SUBSET S, s # {}
        PROVE  Code(CHOOSE x \in s : TRUE) = w[OneOf(s)]
    <3>1. OneOf(s) \in S
      BY <2>1 DEF OneOf
    <3>2. w[OneOf(s)] = Code(OneOf(s))
      BY <3>1
    <3> HIDE DEF w, Code
    <3> QED
      BY <3>2, Zenon DEF OneOf
  <2>2. ASSUME NEW s \in SUBSET S
        PROVE  (IF s = {} THEN 0
                ELSE Code(CHOOSE x \in s : TRUE) + h[s \ {CHOOSE x \in s : TRUE}])
                = IF s = {} THEN 0 ELSE w[OneOf(s)] + h[s \ {OneOf(s)}]
    <3> DEFINE x == CHOOSE x \in s : TRUE
    <3>1. OneOf(s) = x
      BY DEF OneOf
    <3>4. s # {} => Code(x) = w[OneOf(s)]
      BY <2>1
    <3> HIDE DEF w, x, Code
    <3>2. CASE s = {}
      BY <3>2
    <3>3. CASE s # {}
      BY <3>1, <3>3, <3>4 DEF x
    <3> QED
      BY <3>2, <3>3
  <2> HIDE DEF w, Code
  <2> QED
    BY <2>2, Zenon
<1>3. LinesOf(S) = g[S]
  BY DEF LinesOf, MapThenSumSet, MapThenFoldSet
<1>4. PICK h : Summing(h, SUBSET S, w)
  BY <1>1, SomeSum, Zenon
<1> HIDE DEF w
<1>5. h = E(h)
  BY <1>2, <1>4, Zenon DEF Summing
<1>6. g = E(g)
  <2> HIDE DEF E
  <2> QED
    BY <1>5, Zenon
<1>7. Summing(g, SUBSET S, w)
  <2> HIDE DEF g, E
  <2> QED
    BY <1>2, <1>6, Zenon DEF Summing
<1> HIDE DEF g
<1> QED
  BY <1>1, <1>3, <1>7, SumType

\* A rounded part of a whole: at most the number of parts.
LEMMA RoundedShare ==
  ASSUME NEW d \in Nat, d # 0, NEW x \in 0..(100 * d)
  PROVE  Round(x, d) \in 0..100 /\ Round(100 * d, d) = 100
<1> DEFINE q == x \div d
           r == x % d
<1>1. q \in Int /\ r \in 0..(d - 1) /\ x = d * q + r
  OBVIOUS
<1>2. 100 * d \in Nat
  OBVIOUS
<1> HIDE DEF q, r
<1>3. q >= 0
  <2>1. ASSUME q <= -1 PROVE FALSE
    <3>1. d * q <= -d
      BY <1>1, <2>1
    <3> QED
      BY <1>1, <3>1
  <2> QED
    BY <1>1, <2>1
<1>4. q <= 100
  <2>1. ASSUME q >= 101 PROVE FALSE
    <3>1. d * q >= d * 101
      BY <1>1, <2>1
    <3> QED
      BY <1>1, <3>1
  <2> QED
    BY <1>1, <2>1
<1>5. q = 100 => r = 0
  <2>1. q = 100 => d * q = 100 * d
    OBVIOUS
  <2> QED
    BY <1>1, <2>1
<1>6. Round(x, d) = IF 2 * r < d \/ (2 * r = d /\ q % 2 = 0) THEN q ELSE q + 1
  BY DEF Round, q, r
<1>7. Round(x, d) \in 0..100
  BY <1>1, <1>3, <1>4, <1>5, <1>6
<1>8. (100 * d) \div d = 100 /\ (100 * d) % d = 0
  OBVIOUS
<1>9. Round(100 * d, d) = 100
  BY <1>8 DEF Round
<1> QED
  BY <1>7, <1>9

\* What a report is made of.
Measurable(project) == Measuring(project.files) /\ Complex(project.functions)

\* A list of findings.
FindingList(fs) == IsList(fs) /\ \A i \in 1..Len(fs) : WellFormed(fs[i])

\* What a list of findings reports are some of its places.
LEMMA ReportedPlaces ==
  ASSUME NEW fs, FindingList(fs), NEW min
  PROVE  /\ DOMAIN fs = 1..Len(fs) /\ Len(fs) \in Nat
         /\ ReportedIn(fs, min) \in SUBSET (1..Len(fs)) /\ IsFiniteSet(ReportedIn(fs, min))
<1>1. DOMAIN fs = 1..Len(fs) /\ Len(fs) \in Nat
  BY ListElements, Zenon DEF FindingList
<1>2. ReportedIn(fs, min) \in SUBSET (1..Len(fs))
  BY <1>1 DEF ReportedIn, Where
<1>3. IsFiniteSet(ReportedIn(fs, min))
  BY <1>1, <1>2, FewPlaces
<1> QED
  BY <1>1, <1>2, <1>3

\* The score (quality_score) is between 0 and 100, and 100 when nothing is wrong.
LEMMA ScoreIsAShare ==
  ASSUME NEW fs, FindingList(fs), NEW project, Measurable(project)
  PROVE  /\ QualityScore(fs, project) \in 0..100
         /\ ReportedIn(fs, project.min) = {} /\ project.functions = {} => QualityScore(fs, project) = 100
<1> DEFINE lines == Larger(1000, LinesOf(project.files))
           reported == ReportedIn(fs, project.min)
           weights == WeightsOf(reported, fs)
           M == Measured(project.functions)
           C == ComplexPlaces(project.functions)
           places == Larger(1, Cardinality(M))
           den == lines * places
           num == 100 * den - weights * 1000 * places - ComplexityWeight * Cardinality(C) * lines
<1>1. QualityScore(fs, project) = Round(Clamp(num, 0, 100 * den), den)
  BY Zenon DEF QualityScore, SourceLines, LinesOf, WeightsOf, Sum
<1>2. lines \in Nat /\ lines >= 1000
  <2>1. LinesOf(project.files) \in Int
    BY LinesAreInt DEF Measurable
  <2> QED
    BY <2>1 DEF Larger
<1>3. weights \in Int /\ (reported = {} => weights = 0)
  <2>1. reported \in SUBSET (1..Len(fs)) /\ IsFiniteSet(reported)
    BY ReportedPlaces, Zenon
  <2>2. \A i \in reported : fs[i].severity \in Severities
    BY <2>1 DEF FindingList, WellFormed, IsFinding
  <2> HIDE DEF reported
  <2> QED
    BY <2>1, <2>2, WeightsAreInt
<1>4. IsFiniteSet(M) /\ IsFiniteSet(C)
  <2> DEFINE F == project.functions
             f == [x \in F |-> <<x.file, x.first>>]
             G == {x \in F : x.complexity >= ComplexFunction}
  <2>1. IsFiniteSet(F) /\ IsFiniteSet(G)
    BY FS_Subset DEF Measurable, Complex
  <2>2. M = {f[x] : x \in F} /\ C = {f[x] : x \in G}
    BY DEF Measured, ComplexPlaces
  <2> HIDE DEF F, G, M, C, f
  <2> QED
    BY <2>1, <2>2, FiniteImage, Zenon
<1>5. Cardinality(M) \in Nat /\ Cardinality(C) \in Nat
  BY <1>4, FS_CardinalityType
<1>6. places \in Nat /\ places >= 1
  BY <1>5 DEF Larger
<1>7. project.functions = {} => M = {} /\ C = {}
  BY DEF Measured, ComplexPlaces
<1>8. project.functions = {} => Cardinality(C) = 0
  BY <1>7, FS_EmptySet
<1>9. den \in Nat /\ den # 0
  <2> HIDE DEF lines, places
  <2> QED
    BY <1>2, <1>6
<1>10. num \in Int
  <2> HIDE DEF lines, places, den, weights, C
  <2> QED
    BY <1>2, <1>3, <1>5, <1>6, <1>9 DEF ComplexityWeight
<1>11. reported = {} /\ project.functions = {} => num = 100 * den
  <2>1. SUFFICES ASSUME reported = {}, project.functions = {} PROVE num = 100 * den
    OBVIOUS
  <2>2. weights = 0 /\ Cardinality(C) = 0
    BY <1>3, <1>8, <2>1
  <2> HIDE DEF lines, places, den, weights, C
  <2>3. weights * 1000 * places = 0 /\ ComplexityWeight * Cardinality(C) * lines = 0
    BY <1>2, <1>6, <2>2 DEF ComplexityWeight
  <2> QED
    BY <1>9, <2>3
<1> HIDE DEF num, den, reported
<1>12. Clamp(num, 0, 100 * den) \in 0..(100 * den)
  BY <1>9, <1>10 DEF Clamp
<1>13. Round(Clamp(num, 0, 100 * den), den) \in 0..100 /\ Round(100 * den, den) = 100
  BY <1>9, <1>12, RoundedShare
<1>14. num = 100 * den => Clamp(num, 0, 100 * den) = 100 * den
  BY <1>9 DEF Clamp
<1> QED
  BY <1>1, <1>11, <1>13, <1>14 DEF reported

\* What count_findings counts.
CountsOf(c, fs, min, reported) ==
  /\ c.findings = Cardinality(reported)
  /\ c.severity = [s \in Severities |-> Cardinality({i \in reported : fs[i].severity = s})]
  /\ c.category = [k \in Categories |-> Cardinality({i \in reported : fs[i].category = k})]
  /\ c.dismissed = Cardinality({i \in DOMAIN fs : fs[i].status = "dismissed_by_ai"})
  /\ c.rejected = Cardinality({i \in DOMAIN fs : fs[i].status = "rejected"})
  /\ c.below = Cardinality({i \in DOMAIN fs : fs[i].status \in Reported /\ Unconfident(fs[i], min)})

\* CountFindings (count_findings), with what it binds put in its place.
LEMMA CountsAre ==
  ASSUME NEW fs, NEW min, NEW c, c = CountFindings(fs, min)
  PROVE  CountsOf(c, fs, min, ReportedIn(fs, min))
<1> DEFINE B(found) ==
             [findings  |-> Cardinality(found),
              severity  |-> [s \in Severities |->
                               Cardinality({i \in found : fs[i].severity = s})],
              category  |-> [k \in Categories |->
                               Cardinality({i \in found : fs[i].category = k})],
              dismissed |-> Cardinality(Where(fs, LAMBDA f : f.status = "dismissed_by_ai")),
              rejected  |-> Cardinality(Where(fs, LAMBDA f : f.status = "rejected")),
              below     |-> Cardinality(Where(fs, LAMBDA f :
                              f.status \in Reported /\ Unconfident(f, min)))]
<1>1. CountFindings(fs, min) = Of(ReportedIn(fs, min), B)
  BY DEF CountFindings
<1>2. \A x : {z \in {x} : z = z} = {x}
  OBVIOUS
<1>3. Of(ReportedIn(fs, min), B) = B(ReportedIn(fs, min))
  <2> DEFINE r == ReportedIn(fs, min)
  <2> HIDE DEF B, r
  <2>1. {B(z) : z \in {z \in {r} : z = z}} = {B(r)}
    BY <1>2, Zenon
  <2>2. Of(r, B) = B(r)
    BY <2>1, Zenon DEF Of
  <2> QED
    BY <2>2, Zenon DEF r
<1>4. c = B(ReportedIn(fs, min))
  BY <1>1, <1>3, Zenon
<1>5. PICK reported : reported = ReportedIn(fs, min)
  OBVIOUS
<1>6. CountsOf(B(reported), fs, min, reported)
  BY DEF Where, CountsOf
<1> QED
  BY <1>4, <1>5, <1>6, Zenon

\* Four disjoint sets of places that are all places.
FourSets(n, A, B, C, D) ==
  /\ A \in SUBSET (1..n) /\ B \in SUBSET (1..n) /\ C \in SUBSET (1..n) /\ D \in SUBSET (1..n)
  /\ A \cup B \cup C \cup D = 1..n
  /\ A \cap B = {} /\ (A \cup B) \cap C = {} /\ (A \cup B \cup C) \cap D = {}

\* They have as many members as there are places.
LEMMA FourParts ==
  ASSUME NEW n \in Nat, NEW A, NEW B, NEW C, NEW D, FourSets(n, A, B, C, D)
  PROVE  Cardinality(A) + Cardinality(B) + Cardinality(C) + Cardinality(D) = n
<1> USE DEF FourSets
<1>1. IsFiniteSet(A) /\ IsFiniteSet(B) /\ IsFiniteSet(C) /\ IsFiniteSet(D)
  BY FewPlaces
<1>2. Cardinality({}) = 0 /\ Cardinality(1..n) = n
  BY FS_EmptySet, FS_Interval
<1>3. IsFiniteSet(A \cup B) /\ Cardinality(A \cup B) = Cardinality(A) + Cardinality(B) - Cardinality({})
  BY <1>1, FS_Union
<1>4. /\ IsFiniteSet(A \cup B \cup C)
      /\ Cardinality(A \cup B \cup C) = Cardinality(A \cup B) + Cardinality(C) - Cardinality({})
  BY <1>1, <1>3, FS_Union
<1>5. Cardinality(A \cup B \cup C \cup D) = Cardinality(A \cup B \cup C) + Cardinality(D) - Cardinality({})
  BY <1>1, <1>4, FS_Union
<1>6. /\ Cardinality(A) \in Nat /\ Cardinality(B) \in Nat /\ Cardinality(C) \in Nat /\ Cardinality(D) \in Nat
  BY <1>1, FS_CardinalityType
<1>7. Cardinality(A \cup B \cup C \cup D) = n
  BY <1>2
<1>8. \A a, b, c, d, e, f, g, z \in Int :
        e = a + b - z /\ f = e + c - z /\ g = f + d - z /\ z = 0 /\ g = n => a + b + c + d = n
  OBVIOUS
<1>9. /\ Cardinality(A \cup B) = Cardinality(A) + Cardinality(B)
      /\ Cardinality(A \cup B \cup C) = Cardinality(A) + Cardinality(B) + Cardinality(C)
      /\ n = Cardinality(A) + Cardinality(B) + Cardinality(C) + Cardinality(D)
  BY <1>2, <1>3, <1>4, <1>5, <1>6, <1>7
<1> QED
  BY <1>9

\* A report of these findings adds up.
AddsUp(r, fs, functions) ==
  /\ r.findings = fs
  /\ r.counts.findings + r.counts.dismissed + r.counts.rejected + r.counts.below = Len(fs)
  /\ r.counts.findings = SumOver(Severities, r.counts.severity)
  /\ r.counts.findings = SumOver(Categories, r.counts.category)
  /\ r.counts.rejected = Cardinality({i \in DOMAIN fs : fs[i].status = "rejected"})
  /\ r.score \in 0..100
  /\ r.counts.findings = 0 /\ functions = {} => r.score = 100

\* The counts of a report (build_report) are those of its findings.
LEMMA ReportCounts ==
  ASSUME NEW fs, FindingList(fs), NEW project, Measurable(project)
  PROVE  AddsUp(BuildReport(fs, project), fs, project.functions)
<1> DEFINE r == BuildReport(fs, project)
           N == Len(fs)
           R == ReportedIn(fs, project.min)
           D == {i \in DOMAIN fs : fs[i].status = "dismissed_by_ai"}
           J == {i \in DOMAIN fs : fs[i].status = "rejected"}
           U == {i \in DOMAIN fs : fs[i].status \in Reported /\ Unconfident(fs[i], project.min)}
<1>0. PICK c : c = CountFindings(fs, project.min)
  OBVIOUS
<1>1. r.findings = fs /\ r.counts = c /\ r.score = QualityScore(fs, project)
  BY <1>0 DEF BuildReport
<1>2. /\ c.findings = Cardinality(R)
      /\ c.severity = [s \in Severities |-> Cardinality({i \in R : fs[i].severity = s})]
      /\ c.category = [k \in Categories |-> Cardinality({i \in R : fs[i].category = k})]
      /\ c.dismissed = Cardinality(D) /\ c.rejected = Cardinality(J) /\ c.below = Cardinality(U)
  <2>1. PICK reported : reported = R
    OBVIOUS
  <2> HIDE DEF R
  <2>2. reported = ReportedIn(fs, project.min)
    BY <2>1, Zenon DEF R
  <2>3. CountsOf(c, fs, project.min, reported)
    BY <1>0, <2>2, CountsAre, Zenon
  <2>4. reported = R
    BY <2>1, Zenon
  <2> QED
    BY <2>3, <2>4, Zenon DEF CountsOf, D, J, U
<1>3. DOMAIN fs = 1..N /\ N \in Nat /\ R \in SUBSET (1..N) /\ IsFiniteSet(R)
  BY ReportedPlaces, Zenon
<1>4. \A i \in 1..N : /\ fs[i].severity \in Severities /\ fs[i].category \in Categories
                      /\ fs[i].status \in FindingStatuses
  BY DEF FindingList, WellFormed, IsFinding
<1>5. Cardinality(R) + Cardinality(D) + Cardinality(J) + Cardinality(U) = N
  <2>1. R = {i \in 1..N : fs[i].status \in Reported /\ ~ Unconfident(fs[i], project.min)}
    BY <1>3 DEF ReportedIn, Where, IsReported
  <2>2. /\ D = {i \in 1..N : fs[i].status = "dismissed_by_ai"}
        /\ J = {i \in 1..N : fs[i].status = "rejected"}
        /\ U = {i \in 1..N : fs[i].status \in Reported /\ Unconfident(fs[i], project.min)}
    BY <1>3
  <2> HIDE DEF N, R, D, J, U
  <2>3. D \in SUBSET (1..N) /\ J \in SUBSET (1..N) /\ U \in SUBSET (1..N)
    BY <2>2
  <2>4. R \cup D \cup J \cup U = 1..N
    BY <1>4, <2>1, <2>2 DEF FindingStatuses, Reported
  <2>5. R \cap D = {} /\ (R \cup D) \cap J = {} /\ (R \cup D \cup J) \cap U = {}
    BY <2>1, <2>2 DEF Reported
  <2>6. FourSets(N, R, D, J, U)
    BY <1>3, <2>3, <2>4, <2>5, Zenon DEF FourSets
  <2>7. N \in Nat
    BY <1>3, Zenon
  <2>8. Cardinality(R) + Cardinality(D) + Cardinality(J) + Cardinality(U) = N
    BY ONLY <2>6, <2>7, FourParts
  <2> QED
    BY <2>8, Zenon
<1> HIDE DEF R
<1>6. SumOver(Severities, c.severity) = Cardinality(R)
  <2> DEFINE kind == [i \in R |-> fs[i].severity]
             w == c.severity
  <2>1. IsFiniteSet(Severities)
    <3>1. IsFiniteSet(0..4)
      <4>1. 0 \in Int /\ 4 \in Int
        OBVIOUS
      <4> QED
        BY <4>1, FS_Interval, Zenon
    <3> QED
      BY <3>1, SeverityTypes
  <2>2. \A i \in R : kind[i] \in Severities
    BY <1>3, <1>4
  <2>3. \A x \in Severities : w[x] = Cardinality({i \in R : kind[i] = x})
    <3>1. \A x : {i \in R : kind[i] = x} = {i \in R : fs[i].severity = x}
      OBVIOUS
    <3> HIDE DEF kind
    <3> QED
      BY <1>2, <3>1, Zenon
  <2> HIDE DEF kind, w
  <2>4. SumOver(Severities, w) = Cardinality(R)
    <3>1. ByKind(R, Severities, kind, w)
      BY <2>2, <2>3, Zenon DEF ByKind
    <3> QED
      BY <1>3, <2>1, <3>1, CountedByKind, Zenon
  <2> QED
    BY <2>4 DEF w
<1>7. SumOver(Categories, c.category) = Cardinality(R)
  <2> DEFINE kind == [i \in R |-> fs[i].category]
             w == c.category
  <2>1. IsFiniteSet(Categories)
    <3> DEFINE q == <<"bug", "security", "style", "performance", "maintainability", "typing">>
    <3>1. q \in Seq(Categories) /\ Len(q) = 6
      BY DEF Categories
    <3>2. \A x \in Categories : \E n \in 1..6 : q[n] = x
      BY DEF Categories
    <3> HIDE DEF q
    <3> QED
      BY <3>1, <3>2 DEF IsFiniteSet
  <2>2. \A i \in R : kind[i] \in Categories
    BY <1>3, <1>4
  <2>3. \A x \in Categories : w[x] = Cardinality({i \in R : kind[i] = x})
    <3>1. \A x : {i \in R : kind[i] = x} = {i \in R : fs[i].category = x}
      OBVIOUS
    <3> HIDE DEF kind
    <3> QED
      BY <1>2, <3>1, Zenon
  <2> HIDE DEF kind, w
  <2>4. SumOver(Categories, w) = Cardinality(R)
    <3>1. ByKind(R, Categories, kind, w)
      BY <2>2, <2>3, Zenon DEF ByKind
    <3> QED
      BY <1>3, <2>1, <3>1, CountedByKind, Zenon
  <2> QED
    BY <2>4 DEF w
<1>8. /\ QualityScore(fs, project) \in 0..100
      /\ R = {} /\ project.functions = {} => QualityScore(fs, project) = 100
  BY ScoreIsAShare, Zenon DEF R
<1>9. Cardinality(R) = 0 => R = {}
  BY <1>3, FS_EmptySet
<1> HIDE DEF r, D, J, U
<1>10. /\ r.findings = fs
       /\ r.counts.findings + r.counts.dismissed + r.counts.rejected + r.counts.below = Len(fs)
       /\ r.counts.findings = SumOver(Severities, r.counts.severity)
       /\ r.counts.findings = SumOver(Categories, r.counts.category)
       /\ r.counts.rejected = Cardinality(J)
       /\ r.score \in 0..100
       /\ r.counts.findings = 0 /\ project.functions = {} => r.score = 100
  BY <1>1, <1>2, <1>5, <1>6, <1>7, <1>8, <1>9
<1> QED
  BY <1>10, Zenon DEF AddsUp, r, J

-----------------------------------------------------------------------------
(* Sums.                                                                   *)

\* Induction on the subsets of a finite set.
LEMMA SubsetInduction ==
  ASSUME NEW S, IsFiniteSet(S), NEW P,
         \A s \in SUBSET S : (\A t \in SUBSET s : t # s => t \in P) => s \in P
  PROVE  \A s \in SUBSET S : s \in P
<1> DEFINE N == Cardinality(S)
           T == {n \in 0..N : \A s \in SUBSET S : Cardinality(s) <= n => s \in P}
<1>1. N \in Nat
  BY FS_CardinalityType
<1>2. \A s \in SUBSET S : /\ Cardinality(s) \in Nat /\ Cardinality(s) <= N
                          /\ \A t \in SUBSET s : t # s => Cardinality(t) \in Nat /\ Cardinality(t) < Cardinality(s)
  <2> TAKE s \in SUBSET S
  <2>1. IsFiniteSet(s) /\ Cardinality(s) <= N
    BY FS_Subset
  <2>2. ASSUME NEW t \in SUBSET s, t # s PROVE Cardinality(t) \in Nat /\ Cardinality(t) < Cardinality(s)
    <3>1. IsFiniteSet(t) /\ Cardinality(t) <= Cardinality(s) /\ Cardinality(t) # Cardinality(s)
      BY <2>1, <2>2, FS_Subset
    <3>2. Cardinality(t) \in Nat /\ Cardinality(s) \in Nat
      BY <2>1, <3>1, FS_CardinalityType
    <3> QED
      BY <3>1, <3>2
  <2> QED
    BY <2>1, <2>2, FS_CardinalityType
<1> HIDE DEF N
<1>3. 0 \in T
  <2>1. ASSUME NEW s \in SUBSET S, Cardinality(s) <= 0 PROVE s \in P
    <3>1. \A t \in SUBSET s : t = s
      BY <1>2, <2>1
    <3> QED
      BY <3>1
  <2> QED
    BY <1>1, <2>1
<1>4. ASSUME NEW n \in 0..(N - 1), n \in T PROVE n + 1 \in T
  <2>1. n \in Nat /\ n + 1 \in 0..N
    BY <1>1
  <2>2. ASSUME NEW s \in SUBSET S, Cardinality(s) <= n + 1 PROVE s \in P
    <3>1. ASSUME NEW t \in SUBSET s, t # s PROVE t \in P
      <4>1. t \in SUBSET S /\ Cardinality(t) <= n
        BY <1>2, <2>1, <2>2, <3>1
      <4> QED
        BY <1>4, <4>1
    <3> QED
      BY <3>1
  <2> QED
    BY <2>1, <2>2
<1>5. \A k \in 0..N : k \in T
  <2> HIDE DEF T
  <2> QED
    BY <1>1, <1>3, <1>4, UpTo
<1>6. N \in T
  BY <1>1, <1>5
<1> QED
  BY <1>2, <1>6

\* How the sums of the summands of w over the subsets of S are computed.
SumsUp(h, S, w) ==
  IsFiniteSet(S) /\ (\A x \in S : w[x] \in Int) /\ Summing(h, SUBSET S, w)

\* A sum is the same whichever summand is taken out first.
LEMMA AnyOrder ==
  ASSUME NEW S, NEW w, NEW h, SumsUp(h, S, w)
  PROVE  \A s \in SUBSET S : h[s] \in Int /\ \A x \in s : h[s] = w[x] + h[s \ {x}]
<1> DEFINE Free(s) == h[s] \in Int /\ \A x \in s : h[s] = w[x] + h[s \ {x}]
           P == {s \in SUBSET S : Free(s)}
<1>1. \A s \in SUBSET S : h[s] = IF s = {} THEN 0 ELSE w[OneOf(s)] + h[s \ {OneOf(s)}]
  BY DEF SumsUp, Summing
<1>0. IsFiniteSet(S) /\ \A x \in S : w[x] \in Int
  BY DEF SumsUp
<1>2. ASSUME NEW s \in SUBSET S, \A t \in SUBSET s : t # s => t \in P PROVE s \in P
  <2>1. CASE s = {}
    <3>1. h[s] = 0
      BY <1>1, <2>1, Zenon
    <3>2. \A x \in s : h[s] = w[x] + h[s \ {x}]
      BY <2>1, Zenon
    <3>3. Free(s)
      BY <3>1, <3>2
    <3> HIDE DEF Free
    <3> QED
      BY <3>3
  <2>2. CASE s # {}
    <3>1. PICK y : y = OneOf(s)
      BY Zenon
    <3>2. y \in s /\ h[s] = w[y] + h[s \ {y}]
      <4>1. y \in s
        BY <2>2, <3>1 DEF OneOf
      <4> QED
        BY <1>1, <2>2, <3>1, <4>1, Zenon
    <3>3. w[y] \in Int /\ h[s \ {y}] \in Int
      <4>1. s \ {y} \in P
        BY <1>2, <3>2
      <4> QED
        BY <1>0, <3>2, <4>1
    <3>4. ASSUME NEW x \in s PROVE h[s] = w[x] + h[s \ {x}]
      <4>1. CASE x = y
        BY <3>2, <4>1
      <4>2. CASE x # y
        <5>1. s \ {y} \in P /\ s \ {x} \in P /\ (s \ {y}) \ {x} \in P
          <6>1. s \ {y} \in SUBSET s /\ s \ {y} # s /\ s \ {x} \in SUBSET s /\ s \ {x} # s
            BY <3>2
          <6>2. (s \ {y}) \ {x} \in SUBSET s /\ (s \ {y}) \ {x} # s
            BY <3>2
          <6> QED
            BY <1>2, <6>1, <6>2, Zenon
        <5>2. x \in s \ {y} /\ y \in s \ {x} /\ (s \ {x}) \ {y} = (s \ {y}) \ {x}
          BY <3>2, <4>2
        <5>3. Free(s \ {y}) /\ Free(s \ {x}) /\ Free((s \ {y}) \ {x})
          BY <5>1
        <5>4. h[s \ {y}] = w[x] + h[(s \ {y}) \ {x}]
          BY <5>2, <5>3, Zenon
        <5>5. h[s \ {x}] = w[y] + h[(s \ {y}) \ {x}]
          BY <5>2, <5>3, Zenon
        <5>6. h[(s \ {y}) \ {x}] \in Int /\ w[x] \in Int
          BY <1>0, <5>3
        <5> HIDE DEF Free, P
        <5> QED
          BY <3>2, <3>3, <5>4, <5>5, <5>6
      <4> QED
        BY <4>1, <4>2
    <3>5. h[s] \in Int
      BY <3>2, <3>3
    <3> QED
      BY <3>4, <3>5
  <2> QED
    BY <2>1, <2>2
<1>3. \A s \in SUBSET S : s \in P
  <2> HIDE DEF P
  <2> QED
    BY <1>0, <1>2, SubsetInduction
<1> QED
  BY <1>3

\* Sums of the same summands are the same.
LEMMA SameSums ==
  ASSUME NEW S, NEW w, NEW h, SumsUp(h, S, w),
         NEW C, NEW v, NEW g, SumsUp(g, C, v), S \subseteq C, \A x \in S : w[x] = v[x]
  PROVE  h[S] = g[S]
<1> DEFINE P == {s \in SUBSET S : h[s] = g[s]}
<1>0. IsFiniteSet(S)
  BY DEF SumsUp
<1>1. \A s \in SUBSET S : h[s] = IF s = {} THEN 0 ELSE w[OneOf(s)] + h[s \ {OneOf(s)}]
  BY DEF SumsUp, Summing
<1>2. \A s \in SUBSET S : g[s] = IF s = {} THEN 0 ELSE v[OneOf(s)] + g[s \ {OneOf(s)}]
  <2>1. \A s \in SUBSET S : s \in SUBSET C
    OBVIOUS
  <2> QED
    BY <2>1 DEF SumsUp, Summing
<1>3. ASSUME NEW s \in SUBSET S, \A t \in SUBSET s : t # s => t \in P PROVE s \in P
  <2>1. CASE s = {}
    BY <1>1, <1>2, <2>1
  <2>2. CASE s # {}
    <3>1. PICK y : y = OneOf(s)
      BY Zenon
    <3>2. y \in s
      BY <2>2, <3>1 DEF OneOf
    <3>3. h[s \ {y}] = g[s \ {y}]
      BY <1>3, <3>2
    <3>4. w[y] = v[y]
      BY <3>2
    <3>5. h[s] = w[y] + h[s \ {y}] /\ g[s] = v[y] + g[s \ {y}]
      BY <1>1, <1>2, <2>2, <3>1, Zenon
    <3> QED
      BY <3>3, <3>4, <3>5
  <2> QED
    BY <2>1, <2>2
<1>4. \A s \in SUBSET S : s \in P
  <2> HIDE DEF P
  <2> QED
    BY <1>0, <1>3, SubsetInduction
<1> QED
  BY <1>4

\* The total of no numbers.
LEMMA NoTotal == ASSUME NEW f, DOMAIN f = {} PROVE TotalOf(f) = 0
<1>1. TotalOf(f) = SumOver({}, f)
  BY DEF TotalOf, SumOver
<1>2. PICK h : Summing(h, SUBSET {}, f) /\ SumOver({}, f) = h[{}]
  BY SumOverSums, FS_EmptySet
<1>3. {} \in SUBSET {}
  OBVIOUS
<1> QED
  BY <1>1, <1>2, <1>3 DEF Summing

\* The total of one number more.
LongerByOne(g, f, n) ==
  /\ DOMAIN f = 1..n /\ DOMAIN g = 1..(n + 1)
  /\ \A i \in 1..(n + 1) : g[i] \in Int
  /\ \A i \in 1..n : f[i] = g[i]

LEMMA MoreTotal ==
  ASSUME NEW n \in Nat, NEW f, NEW g, LongerByOne(g, f, n)
  PROVE  TotalOf(f) \in Int /\ TotalOf(g) = TotalOf(f) + g[n + 1]
<1> DEFINE S == 1..n
           C == 1..(n + 1)
<1>0. DOMAIN f = S /\ DOMAIN g = C /\ (\A x \in C : g[x] \in Int) /\ \A x \in S : f[x] = g[x]
  BY DEF LongerByOne
<1>1. IsFiniteSet(S) /\ IsFiniteSet(C)
  BY FS_Interval
<1>2. S \subseteq C /\ n + 1 \in C /\ C \ {n + 1} = S
  OBVIOUS
<1>3. PICK h : Summing(h, SUBSET S, f) /\ SumOver(S, f) = h[S]
  BY <1>1, SumOverSums, Zenon
<1>4. PICK k : Summing(k, SUBSET C, g) /\ SumOver(C, g) = k[C]
  BY <1>1, SumOverSums, Zenon
<1>5. TotalOf(f) = h[S] /\ TotalOf(g) = k[C]
  BY <1>0, <1>3, <1>4 DEF TotalOf, SumOver
<1>6. \A x \in S : f[x] \in Int
  BY <1>0, <1>2
<1> HIDE DEF S, C
<1>8. SumsUp(h, S, f) /\ SumsUp(k, C, g)
  BY <1>1, <1>3, <1>4, <1>6, <1>0, Zenon DEF SumsUp
<1>9. h[S] = k[S] /\ \A s \in SUBSET C : k[s] \in Int /\ \A x \in s : k[s] = g[x] + k[s \ {x}]
  <2>1. \A s \in SUBSET C : k[s] \in Int /\ \A x \in s : k[s] = g[x] + k[s \ {x}]
    <3>1. SumsUp(k, C, g)
      BY <1>8, Zenon
    <3> QED
      BY ONLY <3>1, AnyOrder, SMT
  <2>2. h[S] = k[S]
    BY <1>2, <1>0, <1>8, SameSums, SMT
  <2> QED
    BY <2>1, <2>2, Zenon
<1>10. k[C] = g[n + 1] + k[S]
  BY <1>2, <1>9
<1>11. k[S] \in Int
  BY <1>2, <1>9
<1>12. g[n + 1] \in Int
  BY <1>2, <1>0
<1> QED
  BY <1>5, <1>9, <1>10, <1>11, <1>12

-----------------------------------------------------------------------------
(* Ingestion: what is on disk is safe, and nothing is forgotten.           *)

\* The path of a name: segments of the name, none of them empty.
LEMMA PathParts ==
  ASSUME NEW name, IsList(name.parts)
  PROVE  /\ IsList(PathOf(name))
         /\ \A x \in Range(PathOf(name)) : x \in Range(name.parts) /\ x \notin {"", "."}
<1> DEFINE s == name.parts
           P(t) == {i \in DOMAIN t : t[i] \notin {"", "."}}
           B(t) == AtPlaces(t, Arranged(P(t), <))
           K == PathOf(name)
           I == P(s)
<1>1. \A x : {z \in {x} : z = z} = {x}
  OBVIOUS
<1>2. K = Of(s, B)
  BY DEF PathOf, Kept
<1>3. Of(s, B) = B(s)
  <2> HIDE DEF B
  <2>1. {B(z) : z \in {z \in {s} : z = z}} = {B(s)}
    BY <1>1, Zenon
  <2> QED
    BY <2>1, Zenon DEF Of
<1>4. I \in SUBSET (1..Len(s)) /\ \A i \in I : s[i] \notin {"", "."} /\ s[i] \in Range(s)
  BY ListElements
<1> HIDE DEF I, K
<1>5. B(s) = ElementsIn(s, I)
  BY ArrangedLess, Zenon DEF I, ElementsIn
<1>6. IsList(K) /\ (\A x \in Range(K) : \E i \in I : s[i] = x)
  <2> HIDE DEF B
  <2>1. K = ElementsIn(s, I)
    BY <1>2, <1>3, <1>5, Zenon
  <2>2. I \in SUBSET (1..Len(s))
    BY <1>4, Zenon
  <2> HIDE DEF s
  <2>3. IsList(s)
    BY DEF s
  <2> QED
    BY <2>1, <2>2, <2>3, KeptElements
<1>7. ASSUME NEW x \in Range(K) PROVE x \in Range(s) /\ x \notin {"", "."}
  <2>1. PICK i \in I : s[i] = x
    BY <1>6
  <2> QED
    BY <1>4, <2>1
<1> QED
  BY <1>6, <1>7 DEF K

\* A name without a problem leads to a place inside the directory.
LEMMA NameSafe ==
  ASSUME NEW name, IsList(name.parts), NameProblem(name) = "none"
  PROVE  PathOf(name) # <<>> /\ Range(PathOf(name)) \cap {"..", "", "."} = {}
<1>1. ".." \notin Range(name.parts) /\ PathOf(name) # <<>>
  BY DEF NameProblem
<1> QED
  BY <1>1, PathParts

\* An entry that is written.
Accepted(e) ==
  e.kind = "file" /\ e.actual <= e.size /\ e.size <= Limits.file /\ NameProblem(e.name) = "none"

\* A file is on disk, or skipped, or a directory above it is.
Settled(s, e) ==
  e.kind = "file" =>
    \/ \E i \in 1..Len(s.files) : s.files[i].entry = e
    \/ \E j \in 1..Len(s.skipped) :
         s.skipped[j].path = PathOf(e.name) \/ s.skipped[j].path \in Parents(PathOf(e.name))

\* Entries of different paths.
Entries(es) ==
  /\ IsList(es)
  /\ \A k \in 1..Len(es) : IsEntry(es[k])
  /\ \A k, l \in 1..Len(es) : PathOf(es[k].name) = PathOf(es[l].name) => k = l

\* How a file that is on disk comes from an entry.
ComesFrom(file, e) == file.entry = e /\ file.path = PathOf(e.name) /\ Accepted(e)

\* What ingestion knows after the first n entries: every file is one of them, every path
\* that was skipped is that of another, and none is forgotten.
Tidy(s, es, n) ==
  /\ DOMAIN s = {"files", "skipped", "rejected"}
  /\ IsList(s.files) /\ IsList(s.skipped)
  /\ \A i \in 1..Len(s.files) : \E k \in 1..n : ComesFrom(s.files[i], es[k])
  /\ \A i, j \in 1..Len(s.files) : s.files[i].path = s.files[j].path => i = j
  /\ \A j \in 1..Len(s.skipped) : \E k \in 1..n : s.skipped[j].path = PathOf(es[k].name)
  /\ \A i \in 1..Len(s.files), j \in 1..Len(s.skipped) : s.files[i].path # s.skipped[j].path
  /\ s.rejected = "none" => \A k \in 1..n : Settled(s, es[k])
  /\ Written(s) \in Int /\ Expected(s) \in Int /\ Written(s) <= Expected(s)

\* Before the first entry there is nothing, which is tidy.
LEMMA TidyStart ==
  ASSUME NEW es
  PROVE  Tidy(Nothing, es, 0) /\ Expected(Nothing) = 0
<1>1. /\ DOMAIN Nothing = {"files", "skipped", "rejected"}
      /\ Nothing.files = <<>> /\ Nothing.skipped = <<>>
  BY DEF Nothing
<1>2. IsList(<<>>) /\ 1..Len(<<>>) = {} /\ DOMAIN <<>> = {} /\ 1..0 = {}
  BY EmptyIsList
<1>3. Written(Nothing) = 0 /\ Expected(Nothing) = 0
  <2>1. \A f : DOMAIN f = {} => TotalOf(f) = 0
    BY NoTotal
  <2> QED
    BY <1>1, <1>2, <2>1 DEF Written, Expected
<1> QED
  BY <1>1, <1>2, <1>3 DEF Tidy

\* What is settled stays so, whatever is written or skipped.
LEMMA SettledStays ==
  ASSUME NEW s, NEW t, NEW e, Settled(s, e),
         Len(s.files) \in Nat, Len(s.skipped) \in Nat,
         Len(t.files) \in Nat, Len(t.skipped) \in Nat,
         Len(s.files) <= Len(t.files), Len(s.skipped) <= Len(t.skipped),
         \A i \in 1..Len(s.files) : t.files[i] = s.files[i],
         \A i \in 1..Len(s.skipped) : t.skipped[i] = s.skipped[i]
  PROVE  Settled(t, e)
<1>1. /\ \A i \in 1..Len(s.files) : i \in 1..Len(t.files)
      /\ \A i \in 1..Len(s.skipped) : i \in 1..Len(t.skipped)
  OBVIOUS
<1> QED
  BY <1>1, Zenon DEF Settled

\* The sizes are those of the files.
LEMMA SameFiles ==
  ASSUME NEW s, NEW t, t.files = s.files
  PROVE  Written(t) = Written(s) /\ Expected(t) = Expected(s)
BY DEF Written, Expected

\* The next entry.
Reached(s, es, n) == Entries(es) /\ n \in 1..Len(es) /\ Tidy(s, es, n - 1)

\* What it leads to, with no file more, or with the entry itself.
NoMore(t, s, es, n) == Tidy(t, es, n) /\ t.files = s.files
OneMore(t, s, es, n) ==
  Tidy(t, es, n) /\ Len(t.files) = Len(s.files) + 1 /\ Expected(t) = Expected(s) + es[n].size

Failing(s, reason) == [s EXCEPT !.rejected = reason]

\* An entry that needs nothing, or comes after a failure.
LEMMA TidyPasses ==
  ASSUME NEW es, NEW n, NEW s, Reached(s, es, n), s.rejected # "none" \/ Settled(s, es[n])
  PROVE  Tidy(s, es, n)
<1>0. n \in Nat
  <2>1. Len(es) \in Nat /\ n \in 1..Len(es)
    BY ListElements, Zenon DEF Reached, Entries
  <2> QED
    BY <2>1
<1>1. \A k \in 1..(n - 1) : k \in 1..n
  BY <1>0
<1>2. \A k \in 1..n : k \in 1..(n - 1) \/ k = n
  BY <1>0
<1>3. Tidy(s, es, n - 1)
  BY DEF Reached
<1> QED
  BY <1>1, <1>2, <1>3, Zenon DEF Tidy

\* An entry that fails the upload.
LEMMA TidyFails ==
  ASSUME NEW es, NEW n, NEW s, Reached(s, es, n), NEW reason, reason # "none",
         NEW t, t = Failing(s, reason)
  PROVE  NoMore(t, s, es, n)
<1>0. n \in Nat
  <2>1. Len(es) \in Nat /\ n \in 1..Len(es)
    BY ListElements, Zenon DEF Reached, Entries
  <2> QED
    BY <2>1
<1>1. Tidy(s, es, n - 1)
  BY DEF Reached
<1>2. /\ DOMAIN t = DOMAIN s /\ t.files = s.files /\ t.skipped = s.skipped /\ t.rejected # "none"
  BY <1>1 DEF Tidy, Failing
<1>3. Written(t) = Written(s) /\ Expected(t) = Expected(s)
  BY <1>2, SameFiles
<1>4. \A k \in 1..(n - 1) : k \in 1..n
  BY <1>0
<1>5. Tidy(t, es, n)
  BY <1>1, <1>2, <1>3, <1>4 DEF Tidy
<1> QED
  BY <1>2, <1>5, Zenon DEF NoMore

\* An entry that is skipped.
LEMMA TidySkips ==
  ASSUME NEW es, NEW n, NEW s, Reached(s, es, n), NEW reason,
         NEW t, t = Skipping(s, PathOf(es[n].name), reason)
  PROVE  NoMore(t, s, es, n)
<1> USE DEF Reached
<1> DEFINE path == PathOf(es[n].name)
           x == [path |-> path, reason |-> reason]
<1>1. PICK a : a = Append(s.skipped, x)
  BY Zenon
<1>2. t = [s EXCEPT !.skipped = a]
  BY <1>1, Zenon DEF Skipping
<1>4. DOMAIN t = DOMAIN s /\ t.files = s.files /\ t.skipped = a /\ t.rejected = s.rejected
  BY <1>2 DEF Tidy
<1>5. x.path = path
  OBVIOUS
<1> HIDE DEF x
<1>6. /\ IsList(a) /\ Len(a) = Len(s.skipped) + 1
      /\ \A j \in 1..Len(s.skipped) : a[j] = s.skipped[j]
      /\ a[Len(s.skipped) + 1] = x
  BY <1>1, AppendList DEF Tidy
<1>7. Len(s.skipped) \in Nat /\ Len(s.files) \in Nat /\ Len(es) \in Nat
  BY ListElements, Zenon DEF Tidy, Entries
<1>8. \A j \in 1..Len(a) : j \in 1..Len(s.skipped) \/ j = Len(s.skipped) + 1
  BY <1>6, <1>7
<1>9. /\ \A k \in 1..(n - 1) : k \in 1..n /\ k \in 1..Len(es) /\ k # n
      /\ \A k \in 1..n : k \in 1..(n - 1) \/ k = n
      /\ n \in 1..n
  BY <1>7
<1>10. Written(t) = Written(s) /\ Expected(t) = Expected(s)
  BY <1>4, SameFiles
<1>11. ASSUME NEW i \in 1..Len(s.files) PROVE s.files[i].path # path
  <2>1. PICK k \in 1..(n - 1) : ComesFrom(s.files[i], es[k])
    BY DEF Tidy
  <2> QED
    BY <1>9, <2>1, Zenon DEF ComesFrom, Entries
<1>12. ASSUME NEW j \in 1..Len(a) PROVE \E k \in 1..n : a[j].path = PathOf(es[k].name)
  BY <1>5, <1>6, <1>8, <1>9 DEF Tidy
<1>13. ASSUME NEW i \in 1..Len(s.files), NEW j \in 1..Len(a) PROVE s.files[i].path # a[j].path
  BY <1>5, <1>6, <1>8, <1>11, Zenon DEF Tidy
<1>14. ASSUME s.rejected = "none", NEW k \in 1..n PROVE Settled(t, es[k])
  <2>1. CASE k = n
    <3>1. Len(s.skipped) + 1 \in 1..Len(a)
      BY <1>6, <1>7
    <3> QED
      BY <1>4, <1>5, <1>6, <2>1, <3>1, Zenon DEF Settled
  <2>2. CASE k \in 1..(n - 1)
    <3>1. Settled(s, es[k])
      BY <1>14, <2>2, Zenon DEF Tidy
    <3>2. Len(s.skipped) <= Len(a) /\ Len(a) \in Nat /\ Len(s.files) <= Len(s.files)
      BY <1>6, <1>7
    <3> QED
      BY <1>4, <1>6, <1>7, <3>1, <3>2, SettledStays
  <2> QED
    BY <1>9, <2>1, <2>2, Zenon
<1>15. \A i \in 1..Len(s.files) : \E k \in 1..n : ComesFrom(s.files[i], es[k])
  BY <1>9, Zenon DEF Tidy
<1>16. Tidy(t, es, n)
  BY <1>4, <1>6, <1>10, <1>12, <1>13, <1>14, <1>15 DEF Tidy
<1> QED
  BY <1>4, <1>16, Zenon DEF NoMore

\* An entry that is written.
LEMMA TidyWrites ==
  ASSUME NEW es, NEW n, NEW s, Reached(s, es, n), Accepted(es[n]),
         NEW t, t = Writing(s, es[n])
  PROVE  OneMore(t, s, es, n)
<1> USE DEF Reached
<1> DEFINE e == es[n]
           x == [path |-> PathOf(e.name), entry |-> e]
<1>1. PICK a : a = Append(s.files, x)
  BY Zenon
<1>2. t = [s EXCEPT !.files = a]
  BY <1>1, Zenon DEF Writing
<1>4. DOMAIN t = DOMAIN s /\ t.files = a /\ t.skipped = s.skipped /\ t.rejected = s.rejected
  BY <1>2 DEF Tidy
<1>5. x.path = PathOf(e.name) /\ x.entry = e /\ ComesFrom(x, e)
  BY DEF ComesFrom
<1> HIDE DEF x
<1>6. /\ IsList(a) /\ Len(a) = Len(s.files) + 1
      /\ \A i \in 1..Len(s.files) : a[i] = s.files[i]
      /\ a[Len(s.files) + 1] = x
  BY <1>1, AppendList DEF Tidy
<1>7. Len(s.skipped) \in Nat /\ Len(s.files) \in Nat /\ Len(es) \in Nat
  BY ListElements, Zenon DEF Tidy, Entries
<1>8. /\ \A i \in 1..Len(a) : i \in 1..Len(s.files) \/ i = Len(s.files) + 1
      /\ Len(s.files) + 1 \in 1..Len(a)
      /\ \A i \in 1..Len(s.files) : i # Len(s.files) + 1 /\ i \in 1..Len(a)
  BY <1>6, <1>7
<1>9. /\ \A k \in 1..(n - 1) : k \in 1..n /\ k \in 1..Len(es) /\ k # n
      /\ \A k \in 1..n : k \in 1..(n - 1) \/ k = n
      /\ n \in 1..n
  BY <1>7
<1>10. ASSUME NEW i \in 1..Len(s.files) PROVE s.files[i].path # x.path
  <2>1. PICK k \in 1..(n - 1) : ComesFrom(s.files[i], es[k])
    BY DEF Tidy
  <2> QED
    BY <1>5, <1>9, <2>1, Zenon DEF ComesFrom, Entries
<1>11. ASSUME NEW i \in 1..Len(s.skipped) PROVE s.skipped[i].path # x.path
  <2>1. PICK k \in 1..(n - 1) : s.skipped[i].path = PathOf(es[k].name)
    BY DEF Tidy
  <2> QED
    BY <1>5, <1>9, <2>1, Zenon DEF Entries
<1>12. \A i \in 1..Len(a) : \E k \in 1..n : ComesFrom(a[i], es[k])
  BY <1>5, <1>6, <1>8, <1>9, Zenon DEF Tidy
<1>13. \A i, j \in 1..Len(a) : a[i].path = a[j].path => i = j
  BY <1>6, <1>8, <1>10, Zenon DEF Tidy
<1>14. \A i \in 1..Len(a), j \in 1..Len(s.skipped) : a[i].path # s.skipped[j].path
  <2> TAKE i \in 1..Len(a), j \in 1..Len(s.skipped)
  <2>1. CASE i \in 1..Len(s.files)
    <3>1. s.files[i].path # s.skipped[j].path
      BY <2>1, Zenon DEF Tidy
    <3> QED
      BY <1>6, <2>1, <3>1, Zenon
  <2>2. CASE i = Len(s.files) + 1
    BY <1>6, <1>11, <2>2, Zenon
  <2> QED
    BY <1>8, <2>1, <2>2, Zenon
<1>15. \A j \in 1..Len(s.skipped) : \E k \in 1..n : s.skipped[j].path = PathOf(es[k].name)
  BY <1>9, Zenon DEF Tidy
<1>16. ASSUME s.rejected = "none", NEW k \in 1..n PROVE Settled(t, es[k])
  <2>1. CASE k = n
    BY <1>4, <1>5, <1>6, <1>8, <2>1, Zenon DEF Settled
  <2>2. CASE k \in 1..(n - 1)
    <3>1. Settled(s, es[k])
      BY <1>16, <2>2, Zenon DEF Tidy
    <3>2. Len(s.files) <= Len(a) /\ Len(a) \in Nat /\ Len(s.skipped) <= Len(s.skipped)
      BY <1>6, <1>7
    <3> QED
      BY <1>4, <1>6, <1>7, <3>1, <3>2, SettledStays
  <2> QED
    BY <1>9, <2>1, <2>2, Zenon
<1>17. /\ Written(t) \in Int /\ Expected(t) \in Int /\ Written(t) <= Expected(t)
       /\ Expected(t) = Expected(s) + e.size
  <2> DEFINE N == Len(s.files)
             A == [i \in DOMAIN s.files |-> s.files[i].entry.actual]
             B == [i \in DOMAIN a |-> a[i].entry.actual]
             C == [i \in DOMAIN s.files |-> s.files[i].entry.size]
             D == [i \in DOMAIN a |-> a[i].entry.size]
  <2>1. DOMAIN s.files = 1..N /\ DOMAIN a = 1..(N + 1)
    BY <1>6, ListElements DEF Tidy
  <2>2. \A i \in 1..(N + 1) : a[i].entry.actual \in Int /\ a[i].entry.size \in Int
    <3> TAKE i \in 1..(N + 1)
    <3>1. PICK k \in 1..n : ComesFrom(a[i], es[k])
      BY <1>6, <1>12
    <3>2. IsEntry(es[k])
      BY <1>9, <3>1 DEF Entries
    <3> QED
      BY <3>1, <3>2 DEF ComesFrom, IsEntry
  <2>3. /\ DOMAIN A = 1..N /\ DOMAIN B = 1..(N + 1) /\ DOMAIN C = 1..N /\ DOMAIN D = 1..(N + 1)
        /\ \A i \in 1..(N + 1) : B[i] = a[i].entry.actual /\ D[i] = a[i].entry.size
        /\ \A i \in 1..N : A[i] = s.files[i].entry.actual /\ C[i] = s.files[i].entry.size
    BY <2>1
  <2>4. /\ Written(s) = TotalOf(A) /\ Written(t) = TotalOf(B)
        /\ Expected(s) = TotalOf(C) /\ Expected(t) = TotalOf(D)
    BY <1>4 DEF Written, Expected
  <2> HIDE DEF A, B, C, D
  <2>5. /\ \A i \in 1..(N + 1) : B[i] \in Int /\ D[i] \in Int
        /\ \A i \in 1..N : A[i] = B[i] /\ C[i] = D[i]
    <3>1. \A i \in 1..N : i \in 1..(N + 1)
      BY <1>7
    <3> QED
      BY <1>6, <2>2, <2>3, <3>1
  <2>6. /\ TotalOf(B) = TotalOf(A) + B[N + 1] /\ TotalOf(A) \in Int
        /\ TotalOf(D) = TotalOf(C) + D[N + 1] /\ TotalOf(C) \in Int
    <3>0. N \in Nat
      BY <1>7
    <3> HIDE DEF N
    <3>1. LongerByOne(B, A, N) /\ LongerByOne(D, C, N)
      BY <2>3, <2>5, Zenon DEF LongerByOne
    <3> QED
      BY <3>0, <3>1, MoreTotal, Zenon
  <2>7. B[N + 1] = e.actual /\ D[N + 1] = e.size /\ e.actual <= e.size /\ e.actual \in Int /\ e.size \in Int
    <3>1. N + 1 \in 1..(N + 1)
      BY <1>7
    <3>2. e.actual <= e.size /\ e.actual \in Int /\ e.size \in Int
      <4>1. IsEntry(e)
        BY DEF Entries
      <4> QED
        BY <4>1 DEF Accepted, IsEntry
    <3>3. B[N + 1] = a[N + 1].entry.actual /\ D[N + 1] = a[N + 1].entry.size /\ a[N + 1] = x
      BY <1>6, <2>3, <3>1, Zenon
    <3> QED
      BY <1>5, <3>2, <3>3, Zenon
  <2>8. Written(s) <= Expected(s)
    BY DEF Tidy
  <2> HIDE DEF e, N
  <2> QED
    BY <2>4, <2>6, <2>7, <2>8
<1>18. Tidy(t, es, n)
  <2>1. Tidy(s, es, n - 1)
    OBVIOUS
  <2>2. DOMAIN t = {"files", "skipped", "rejected"} /\ IsList(t.files) /\ IsList(t.skipped)
    BY <1>4, <1>6, <2>1, Zenon DEF Tidy
  <2>3. t.rejected = "none" => \A k \in 1..n : Settled(t, es[k])
    BY <1>4, <1>16, Zenon
  <2> QED
    BY <1>4, <1>12, <1>13, <1>14, <1>15, <1>17, <2>2, <2>3 DEF Tidy
<1> QED
  BY <1>4, <1>6, <1>17, <1>18, Zenon DEF OneMore

\* What becomes of a member of an archive.
LEMMA ExtractOutcome ==
  ASSUME NEW s, NEW m
  PROVE  \/ s.rejected # "none" /\ Extract(s, m) = s
         \/ \E reason : Extract(s, m) = Skipping(s, PathOf(m.name), reason)
         \/ \E reason : reason # "none" /\ Extract(s, m) = Failing(s, reason)
         \/ /\ Extract(s, m) = Writing(s, m)
            /\ SkipForContent(m) = "none" /\ ~ (m.actual > m.size)
<1> DEFINE a == SkipForPath(PathOf(m.name))
           b == SkipForContent(m)
<1>1. CASE s.rejected # "none"
  <2>1. Extract(s, m) = s
    BY <1>1, Zenon DEF Extract
  <2> QED
    BY <1>1, <2>1
<1>2. CASE s.rejected = "none" /\ a # "none"
  <2>1. Extract(s, m) = Skipping(s, PathOf(m.name), a)
    BY <1>2, Zenon DEF Extract
  <2> QED
    BY <2>1, Zenon
<1>3. CASE s.rejected = "none" /\ a = "none"
  <2>1. Extract(s, m) =
          IF m.corrupt THEN Failing(s, "corrupt_archive")
          ELSE IF b # "none" THEN Skipping(s, PathOf(m.name), b)
          ELSE IF m.clash THEN Failing(s, "duplicate_entry")
          ELSE IF m.actual > m.size THEN Failing(s, "size_mismatch")
          ELSE Writing(s, m)
    BY <1>3, Zenon DEF Extract, Failing
  <2>2. "corrupt_archive" # "none" /\ "duplicate_entry" # "none" /\ "size_mismatch" # "none"
    OBVIOUS
  <2> HIDE DEF a, b
  <2> QED
    BY <2>1, <2>2, Zenon DEF b
<1> QED
  BY <1>1, <1>2, <1>3, Zenon

\* What becomes of an entry of a directory.
LEMMA VisitOutcome ==
  ASSUME NEW s, NEW e
  PROVE  \/ /\ Visit(s, e) = s
            /\ \/ s.rejected # "none" \/ e.kind = "folder"
               \/ \E i \in DOMAIN s.skipped : s.skipped[i].path \in Parents(PathOf(e.name))
         \/ \E reason : Visit(s, e) = Skipping(s, PathOf(e.name), reason)
         \/ \E reason : reason # "none" /\ Visit(s, e) = Failing(s, reason)
         \/ /\ Visit(s, e) = Writing(s, e)
            /\ EntrySkip(e) = "none" /\ e.kind # "folder"
            /\ ~ (Len(s.files) + 1 > Limits.files) /\ ~ (Expected(s) + e.size > Limits.total)
            /\ ~ (e.actual > e.size)
<1> DEFINE below == \E i \in DOMAIN s.skipped : s.skipped[i].path \in Parents(PathOf(e.name))
<1>1. CASE s.rejected # "none" \/ below
  <2>1. Visit(s, e) = s
    BY <1>1, Zenon DEF Visit
  <2> QED
    BY <1>1, <2>1
<1>2. CASE s.rejected = "none" /\ ~ below /\ EntrySkip(e) # "none"
  <2>1. Visit(s, e) = Skipping(s, PathOf(e.name), EntrySkip(e))
    BY <1>2, Zenon DEF Visit
  <2> QED
    BY <2>1, Zenon
<1>3. CASE s.rejected = "none" /\ ~ below /\ EntrySkip(e) = "none"
  <2>1. Visit(s, e) =
          IF e.kind = "folder" THEN s
          ELSE IF Len(s.files) + 1 > Limits.files THEN Failing(s, "too_many_files")
          ELSE IF Expected(s) + e.size > Limits.total
          THEN Failing(s, "uncompressed_too_large")
          ELSE IF e.corrupt THEN Skipping(s, PathOf(e.name), "unreadable")
          ELSE IF e.actual > e.size THEN Failing(s, "size_mismatch")
          ELSE Writing(s, e)
    BY <1>3, Zenon DEF Visit, Failing
  <2>2. "too_many_files" # "none" /\ "uncompressed_too_large" # "none" /\ "size_mismatch" # "none"
    OBVIOUS
  <2> HIDE DEF below
  <2> QED
    BY <1>3, <2>1, <2>2, Zenon
<1> QED
  BY <1>1, <1>2, <1>3, Zenon

\* An entry that nothing is said against may be written.
LEMMA ContentAccepted ==
  ASSUME NEW e, IsEntry(e), e.kind = "file", NameProblem(e.name) = "none",
         SkipForContent(e) = "none", ~ (e.actual > e.size)
  PROVE  Accepted(e)
<1>1. ~ (e.size > Limits.file)
  BY DEF SkipForContent
<1> QED
  BY <1>1, LimitAssumption DEF Accepted, IsEntry

\* What is skipped is not written, and what is written is a file.
LEMMA EntryAccepted ==
  ASSUME NEW e, IsEntry(e), EntrySkip(e) = "none", e.kind # "folder", ~ (e.actual > e.size)
  PROVE  Accepted(e)
<1>1. e.kind \notin {"link", "special"} /\ NameProblem(e.name) = "none" /\ SkipForContent(e) = "none"
  BY DEF EntrySkip
<1>2. e.kind = "file"
  BY <1>1 DEF IsEntry
<1> QED
  BY <1>1, <1>2, ContentAccepted, Zenon

\* A directory, after n of its entries: within the limits at every moment.
InDirectory(s, es, n) ==
  Tidy(s, es, n) /\ Len(s.files) <= Limits.files /\ Expected(s) <= Limits.total

\* The next entry of a directory.
LEMMA NextVisited ==
  ASSUME NEW es, Entries(es), NEW n \in 1..Len(es), NEW s, InDirectory(s, es, n - 1)
  PROVE  InDirectory(Visit(s, es[n]), es, n)
<1>1. PICK e : e = es[n]
  BY Zenon
<1>2. PICK t : t = Visit(s, e)
  BY Zenon
<1>0. Reached(s, es, n)
  BY DEF Reached, InDirectory
<1> SUFFICES InDirectory(t, es, n)
  BY <1>1, <1>2, Zenon
<1>3. IsEntry(e) /\ n \in Nat /\ n # 0 /\ Len(s.files) \in Nat /\ Expected(s) \in Int /\ DOMAIN s.skipped = 1..Len(s.skipped)
  <2>1. Len(es) \in Nat /\ Len(s.files) \in Nat /\ DOMAIN s.skipped = 1..Len(s.skipped)
    BY ListElements, Zenon DEF Entries, InDirectory, Tidy
  <2>2. IsEntry(e)
    BY <1>1, Zenon DEF Entries
  <2>3. Expected(s) \in Int
    BY DEF InDirectory, Tidy
  <2> QED
    BY <2>1, <2>2, <2>3
<1>4. ASSUME NoMore(t, s, es, n) PROVE InDirectory(t, es, n)
  <2>1. Expected(t) = Expected(s)
    BY <1>4, SameFiles, Zenon DEF NoMore
  <2> QED
    BY <1>4, <2>1 DEF InDirectory, NoMore
<1>5. CASE t = s /\ (s.rejected # "none" \/ e.kind = "folder"
                     \/ \E i \in DOMAIN s.skipped : s.skipped[i].path \in Parents(PathOf(e.name)))
  <2>1. s.rejected # "none" \/ Settled(s, e)
    <3>1. "folder" # "file"
      OBVIOUS
    <3> QED
      BY <1>3, <1>5, <3>1, Zenon DEF Settled
  <2>2. Tidy(s, es, n)
    BY <1>0, <1>1, <2>1, TidyPasses, Zenon
  <2>3. NoMore(t, s, es, n)
    BY <1>5, <2>2, Zenon DEF NoMore
  <2> QED
    BY <1>4, <2>3, Zenon
<1>6. CASE \E reason : t = Skipping(s, PathOf(e.name), reason)
  <2>1. PICK reason : t = Skipping(s, PathOf(e.name), reason)
    BY <1>6, Zenon
  <2>2. NoMore(t, s, es, n)
    <3>1. t = Skipping(s, PathOf(es[n].name), reason)
      BY <1>1, <2>1, Zenon
    <3> QED
      BY <1>0, <3>1, TidySkips, Zenon
  <2> QED
    BY <1>4, <2>2, Zenon
<1>7. CASE \E reason : reason # "none" /\ t = Failing(s, reason)
  <2>1. PICK reason : reason # "none" /\ t = Failing(s, reason)
    BY <1>7, Zenon
  <2>2. NoMore(t, s, es, n)
    BY <1>0, <2>1, TidyFails, Zenon
  <2> QED
    BY <1>4, <2>2, Zenon
<1>8. CASE /\ t = Writing(s, e)
           /\ EntrySkip(e) = "none" /\ e.kind # "folder"
           /\ ~ (Len(s.files) + 1 > Limits.files) /\ ~ (Expected(s) + e.size > Limits.total)
           /\ ~ (e.actual > e.size)
  <2>1. Accepted(e)
    BY <1>3, <1>8, EntryAccepted, Zenon
  <2>2. Tidy(t, es, n) /\ Len(t.files) = Len(s.files) + 1 /\ Expected(t) = Expected(s) + e.size
    <3>1. Accepted(es[n]) /\ t = Writing(s, es[n])
      BY <1>1, <1>8, <2>1, Zenon
    <3>2. OneMore(t, s, es, n)
      BY <1>0, <3>1, TidyWrites, Zenon
    <3> QED
      BY <1>1, <3>2, Zenon DEF OneMore
  <2>3. e.size \in Int
    BY <1>3 DEF IsEntry
  <2> QED
    BY <1>3, <1>8, <2>2, <2>3, LimitAssumption DEF InDirectory
<1> QED
  BY <1>2, <1>5, <1>6, <1>7, <1>8, VisitOutcome, Zenon

\* A directory, after all of its entries.
LEMMA DirectoryTidy ==
  ASSUME NEW es, Entries(es)
  PROVE  InDirectory(IngestDirectory(es), es, Len(es))
<1> DEFINE N == Len(es)
<1>2. N \in Nat
  BY ListElements, Zenon DEF Entries
<1>0. PICK h : Visiting(h, Nothing, es)
  BY <1>2, VisitTrace, Zenon
<1>3. /\ h[0] = Nothing
      /\ \A n \in 1..N : h[n] = Visit(h[n - 1], es[n])
      /\ h[N] = FoldedOver(Visit, Nothing, es)
  BY <1>0, Zenon DEF Visiting
<1>1. N = Len(es)
  BY Zenon
<1> HIDE DEF N
<1> DEFINE T == {n \in 0..N : InDirectory(h[n], es, n)}
<1>4. 0 \in T
  <2>1. Tidy(Nothing, es, 0) /\ Expected(Nothing) = 0
    BY TidyStart, Zenon
  <2>2. Len(Nothing.files) = 0
    BY EmptyIsList DEF Nothing
  <2>3. InDirectory(Nothing, es, 0)
    BY <2>1, <2>2, LimitAssumption DEF InDirectory
  <2> QED
    BY <1>2, <1>3, <2>3
<1>5. ASSUME NEW k \in 0..(N - 1), k \in T PROVE k + 1 \in T
  <2>1. PICK n : n = k + 1
    OBVIOUS
  <2>2. n \in 1..N /\ n \in 0..N /\ n - 1 = k
    BY <1>2, <2>1
  <2>3. h[n] = Visit(h[k], es[n])
    BY <1>3, <2>2
  <2>4. InDirectory(h[k], es, n - 1)
    BY <1>5, <2>2
  <2>5. InDirectory(h[n], es, n)
    BY <1>1, <2>2, <2>3, <2>4, NextVisited, Zenon
  <2> QED
    BY <2>1, <2>2, <2>5
<1>6. N \in T
  <2> HIDE DEF T
  <2>1. \A k \in 0..N : k \in T
    BY <1>2, <1>4, <1>5, UpTo
  <2> QED
    BY <1>2, <2>1
<1> QED
  BY <1>1, <1>3, <1>6 DEF IngestDirectory

\* The sizes that the headers of the first n members declare.
Declared(ms, n) == TotalOf([i \in 1..n |-> ms[i].size])

\* One more of them.
LEMMA NextDeclared ==
  ASSUME NEW ms, NEW n \in Nat, \A i \in 1..(n + 1) : ms[i].size \in Int
  PROVE  Declared(ms, n) \in Int /\ Declared(ms, n + 1) = Declared(ms, n) + ms[n + 1].size
<1> DEFINE f == [i \in 1..n |-> ms[i].size]
           g == [i \in 1..(n + 1) |-> ms[i].size]
<1>1. /\ DOMAIN f = 1..n /\ DOMAIN g = 1..(n + 1)
      /\ \A i \in 1..(n + 1) : g[i] = ms[i].size
      /\ \A i \in 1..n : f[i] = ms[i].size /\ i \in 1..(n + 1)
      /\ n + 1 \in 1..(n + 1)
  OBVIOUS
<1>2. Declared(ms, n) = TotalOf(f) /\ Declared(ms, n + 1) = TotalOf(g)
  BY DEF Declared
<1> HIDE DEF f, g
<1>3. (\A i \in 1..(n + 1) : g[i] \in Int) /\ \A i \in 1..n : f[i] = g[i]
  BY <1>1
<1>4. LongerByOne(g, f, n)
  BY <1>1, <1>3, Zenon DEF LongerByOne
<1>5. TotalOf(f) \in Int /\ TotalOf(g) = TotalOf(f) + g[n + 1]
  BY <1>4, MoreTotal, Zenon
<1> QED
  BY <1>1, <1>2, <1>5

\* An archive, after n of its members: no more files and bytes than members and sizes.
InArchive(s, ms, n) ==
  Tidy(s, ms, n) /\ Len(s.files) <= n /\ Declared(ms, n) \in Int /\ Expected(s) <= Declared(ms, n)

\* Members of an archive that was accepted.
AcceptedMembers(ms) ==
  Entries(ms) /\ \A k \in 1..Len(ms) : ms[k].kind = "file" /\ NameProblem(ms[k].name) = "none"

\* The next member of an archive.
LEMMA NextExtracted ==
  ASSUME NEW ms, AcceptedMembers(ms), NEW n \in 1..Len(ms), NEW s, InArchive(s, ms, n - 1)
  PROVE  InArchive(Extract(s, ms[n]), ms, n)
<1>1. PICK e : e = ms[n]
  BY Zenon
<1>2. PICK t : t = Extract(s, e)
  BY Zenon
<1>0. Reached(s, ms, n)
  BY DEF Reached, InArchive, AcceptedMembers
<1> SUFFICES InArchive(t, ms, n)
  BY <1>1, <1>2, Zenon
<1>3. /\ IsEntry(e) /\ e.kind = "file" /\ NameProblem(e.name) = "none"
      /\ n \in Nat /\ n # 0 /\ n - 1 \in Nat /\ Len(s.files) \in Nat /\ Expected(s) \in Int
      /\ e.size \in Nat
  <2>1. Len(ms) \in Nat /\ Len(s.files) \in Nat
    BY ListElements, Zenon DEF AcceptedMembers, Entries, InArchive, Tidy
  <2>2. IsEntry(e) /\ e.kind = "file" /\ NameProblem(e.name) = "none"
    BY <1>1, Zenon DEF AcceptedMembers, Entries
  <2>3. Expected(s) \in Int
    BY DEF InArchive, Tidy
  <2> QED
    BY <2>1, <2>2, <2>3 DEF IsEntry
<1>4. /\ Declared(ms, n) \in Int /\ Declared(ms, n - 1) \in Int
      /\ Declared(ms, n) = Declared(ms, n - 1) + e.size
  <2>1. PICK m : m = n - 1
    BY Zenon
  <2>2. m \in Nat /\ n = m + 1 /\ Len(ms) \in Nat
    BY <1>3, <2>1, ListElements DEF AcceptedMembers, Entries
  <2>3. \A i \in 1..(m + 1) : ms[i].size \in Int
    <3> TAKE i \in 1..(m + 1)
    <3>1. i \in 1..Len(ms)
      BY <2>2
    <3>2. IsEntry(ms[i])
      BY <3>1, Zenon DEF AcceptedMembers, Entries
    <3> QED
      BY <3>2 DEF IsEntry
  <2>4. Declared(ms, m) \in Int /\ Declared(ms, m + 1) = Declared(ms, m) + ms[m + 1].size
    BY <2>2, <2>3, NextDeclared, Zenon
  <2> QED
    BY <1>1, <1>3, <2>1, <2>2, <2>4
<1>5. ASSUME NoMore(t, s, ms, n) PROVE InArchive(t, ms, n)
  <2>1. Expected(t) = Expected(s)
    BY <1>5, SameFiles, Zenon DEF NoMore
  <2> QED
    BY <1>3, <1>4, <1>5, <2>1 DEF InArchive, NoMore
<1>6. CASE s.rejected # "none" /\ t = s
  <2>1. Tidy(s, ms, n)
    BY <1>0, <1>6, TidyPasses, Zenon
  <2>2. NoMore(t, s, ms, n)
    BY <1>6, <2>1, Zenon DEF NoMore
  <2> QED
    BY <1>5, <2>2, Zenon
<1>7. CASE \E reason : t = Skipping(s, PathOf(e.name), reason)
  <2>1. PICK reason : t = Skipping(s, PathOf(e.name), reason)
    BY <1>7, Zenon
  <2>2. NoMore(t, s, ms, n)
    <3>1. t = Skipping(s, PathOf(ms[n].name), reason)
      BY <1>1, <2>1, Zenon
    <3> QED
      BY <1>0, <3>1, TidySkips, Zenon
  <2> QED
    BY <1>5, <2>2, Zenon
<1>8. CASE \E reason : reason # "none" /\ t = Failing(s, reason)
  <2>1. PICK reason : reason # "none" /\ t = Failing(s, reason)
    BY <1>8, Zenon
  <2>2. NoMore(t, s, ms, n)
    BY <1>0, <2>1, TidyFails, Zenon
  <2> QED
    BY <1>5, <2>2, Zenon
<1>9. CASE t = Writing(s, e) /\ SkipForContent(e) = "none" /\ ~ (e.actual > e.size)
  <2>1. Accepted(e)
    BY <1>3, <1>9, ContentAccepted, Zenon
  <2>2. Tidy(t, ms, n) /\ Len(t.files) = Len(s.files) + 1 /\ Expected(t) = Expected(s) + e.size
    <3>1. Accepted(ms[n]) /\ t = Writing(s, ms[n])
      BY <1>1, <1>9, <2>1, Zenon
    <3>2. OneMore(t, s, ms, n)
      BY <1>0, <3>1, TidyWrites, Zenon
    <3> QED
      BY <1>1, <3>2, Zenon DEF OneMore
  <2> QED
    BY <1>3, <1>4, <2>2 DEF InArchive
<1> QED
  BY <1>2, <1>6, <1>7, <1>8, <1>9, ExtractOutcome, Zenon

\* An archive, after all of its members.
LEMMA ArchiveTidy ==
  ASSUME NEW ms, AcceptedMembers(ms)
  PROVE  InArchive(FoldedOver(Extract, Nothing, ms), ms, Len(ms))
<1> DEFINE N == Len(ms)
<1>2. N \in Nat
  BY ListElements, Zenon DEF AcceptedMembers, Entries
<1>0. PICK h : Extracting(h, Nothing, ms)
  BY <1>2, ExtractTrace, Zenon
<1>3. /\ h[0] = Nothing
      /\ \A n \in 1..N : h[n] = Extract(h[n - 1], ms[n])
      /\ h[N] = FoldedOver(Extract, Nothing, ms)
  BY <1>0, Zenon DEF Extracting
<1>1. N = Len(ms)
  BY Zenon
<1> HIDE DEF N
<1> DEFINE T == {n \in 0..N : InArchive(h[n], ms, n)}
<1>4. 0 \in T
  <2>1. Tidy(Nothing, ms, 0) /\ Expected(Nothing) = 0
    BY TidyStart, Zenon
  <2>2. Len(Nothing.files) = 0
    BY EmptyIsList DEF Nothing
  <2>3. Declared(ms, 0) = 0
    <3>1. DOMAIN [i \in 1..0 |-> ms[i].size] = {}
      OBVIOUS
    <3> QED
      BY <3>1, NoTotal DEF Declared
  <2>4. InArchive(Nothing, ms, 0)
    BY <2>1, <2>2, <2>3 DEF InArchive
  <2> QED
    BY <1>2, <1>3, <2>4
<1>5. ASSUME NEW k \in 0..(N - 1), k \in T PROVE k + 1 \in T
  <2>1. PICK n : n = k + 1
    OBVIOUS
  <2>2. n \in 1..N /\ n \in 0..N /\ n - 1 = k
    BY <1>2, <2>1
  <2>3. h[n] = Extract(h[k], ms[n])
    BY <1>3, <2>2
  <2>4. InArchive(h[k], ms, n - 1)
    BY <1>5, <2>2
  <2>5. InArchive(h[n], ms, n)
    BY <1>1, <2>2, <2>3, <2>4, NextExtracted, Zenon
  <2> QED
    BY <2>1, <2>2, <2>5
<1>6. N \in T
  <2> HIDE DEF T
  <2>1. \A k \in 0..N : k \in T
    BY <1>2, <1>4, <1>5, UpTo
  <2> QED
    BY <1>2, <2>1
<1> QED
  BY <1>1, <1>3, <1>6

\* The members of an archive: its entries without folders, each of them once.
PartOf(ms, es) ==
  /\ IsList(ms) /\ Len(ms) <= Len(es)
  /\ \A i \in 1..Len(ms) : \E k \in 1..Len(es) : es[k] = ms[i] /\ ~ es[k].name.folder
  /\ \A i, j \in 1..Len(ms) : i # j => \E k, l \in 1..Len(es) : k # l /\ es[k] = ms[i] /\ es[l] = ms[j]

LEMMA MembersOnce ==
  ASSUME NEW s, IsList(s)
  PROVE  PartOf(Members(s), s)
<1> DEFINE P(t) == {i \in DOMAIN t : ~ t[i].name.folder}
           B(t) == AtPlaces(t, Arranged(P(t), <))
           K == Members(s)
           I == P(s)
<1>1. \A x : {z \in {x} : z = z} = {x}
  OBVIOUS
<1>2. K = Of(s, B)
  BY DEF Members, Kept
<1>3. Of(s, B) = B(s)
  <2> HIDE DEF B
  <2>1. {B(z) : z \in {z \in {s} : z = z}} = {B(s)}
    BY <1>1, Zenon
  <2> QED
    BY <2>1, Zenon DEF Of
<1>4. I \in SUBSET (1..Len(s)) /\ \A i \in I : ~ s[i].name.folder
  BY ListElements
<1> HIDE DEF I, K
<1>5. B(s) = ElementsIn(s, I)
  BY ArrangedLess, Zenon DEF I, ElementsIn
<1>6. K = ElementsIn(s, I)
  <2> HIDE DEF B
  <2> QED
    BY <1>2, <1>3, <1>5, Zenon
<1>7. /\ IsList(K) /\ Len(K) <= Len(s)
      /\ (\A x \in Range(K) : \E i \in I : s[i] = x)
      /\ \A m, n \in 1..Len(K) : m # n => \E i, j \in I : i # j /\ s[i] = K[m] /\ s[j] = K[n]
  <2>1. I \in SUBSET (1..Len(s))
    BY <1>4
  <2>2. /\ IsList(K) /\ Len(K) <= Len(s)
        /\ \A x \in Range(K) : \E i \in I : s[i] = x
    BY <1>6, <2>1, KeptElements
  <2>3. \A m, n \in 1..Len(K) : m # n => \E i, j \in I : i # j /\ s[i] = K[m] /\ s[j] = K[n]
    <3>1. OnceFrom(K, s, I)
      BY <1>6, <2>1, KeptOnce, Zenon
    <3> QED
      BY <3>1, Zenon DEF OnceFrom
  <2> QED
    BY <2>2, <2>3, Zenon
<1>8. ASSUME NEW i \in 1..Len(K)
      PROVE  \E k \in 1..Len(s) : s[k] = K[i] /\ ~ s[k].name.folder
  <2>1. K[i] \in Range(K)
    BY <1>7, InRange, Zenon
  <2>2. PICK k \in I : s[k] = K[i]
    BY <1>7, <2>1, Zenon
  <2> QED
    BY <1>4, <2>2
<1>9. ASSUME NEW i \in 1..Len(K), NEW j \in 1..Len(K), i # j
      PROVE  \E k, l \in 1..Len(s) : k # l /\ s[k] = K[i] /\ s[l] = K[j]
  <2>1. PICK k \in I, l \in I : k # l /\ s[k] = K[i] /\ s[l] = K[j]
    BY <1>7, <1>9, Zenon
  <2> QED
    BY <1>4, <2>1
<1> QED
  BY <1>7, <1>8, <1>9, Zenon DEF K, PartOf

\* The names of an archive that was accepted are told apart by every system, and none of
\* its files is a folder of another.
TellApart(ms) ==
  \A k, l \in 1..Len(ms) :
    k # l => Key(PathOf(ms[k].name)) \notin Parents(Key(PathOf(ms[l].name))) \cup {Key(PathOf(ms[l].name))}

\* What validation says of an archive that it accepts (_validate_members).
LEMMA ArchiveAccepted ==
  ASSUME NEW u, IsList(u.entries), \A e \in Range(u.entries) : IsEntry(e),
         \A e \in Range(u.entries) : e.kind # "special" /\ (e.kind = "folder" => e.name.folder),
         ArchiveProblem(u) = "none"
  PROVE  /\ AcceptedMembers(Members(u.entries)) /\ TellApart(Members(u.entries))
         /\ Len(Members(u.entries)) <= Limits.files
         /\ Declared(Members(u.entries), Len(Members(u.entries))) \in Int =>
              Declared(Members(u.entries), Len(Members(u.entries))) <= Limits.total
<1>1. PICK es : es = u.entries
  BY Zenon
<1>2. PICK ms : ms = Members(es)
  BY Zenon
<1> DEFINE bad == {i \in DOMAIN es : EntryProblem(es, i) # "none"}
           total == TotalOf([i \in DOMAIN ms |-> ms[i].size])
<1>3. /\ bad # {} => EntryProblem(es, FirstOf(bad)) = "none"
      /\ bad = {} => ~ FileUsedAsDirectory(ms) /\ ExpansionProblem(total, u.size) = "none"
  <2>1. ArchiveProblem(u) =
          IF u.size > Limits.archive THEN "archive_too_large"
          ELSE IF bad # {} THEN EntryProblem(es, FirstOf(bad))
          ELSE IF FileUsedAsDirectory(ms) THEN "duplicate_entry"
          ELSE ExpansionProblem(total, u.size)
    BY <1>1, <1>2, Zenon DEF ArchiveProblem
  <2>2. "archive_too_large" # "none" /\ "duplicate_entry" # "none"
    OBVIOUS
  <2> HIDE DEF bad, total
  <2> QED
    BY <2>1, <2>2, Zenon
<1>4. IsList(es) /\ Len(es) \in Nat /\ DOMAIN es = 1..Len(es)
  BY <1>1, ListElements, Zenon
<1>5. bad = {}
  <2>1. ASSUME bad # {} PROVE FALSE
    <3>1. bad \in SUBSET Nat
      BY <1>4
    <3> HIDE DEF bad
    <3>2. \E i \in bad : \A j \in bad : i <= j
      BY <2>1, <3>1, LeastNatural
    <3>3. FirstOf(bad) \in bad
      BY <3>2, Zenon DEF FirstOf
    <3>4. EntryProblem(es, FirstOf(bad)) # "none"
      BY <3>3, Zenon DEF bad
    <3> QED
      BY <1>3, <2>1, <3>4, Zenon
  <2> QED
    BY <2>1
<1>6. \A i \in 1..Len(es) : EntryProblem(es, i) = "none"
  BY <1>4, <1>5
<1> HIDE DEF bad
<1>7. ASSUME NEW i \in 1..Len(es)
      PROVE  /\ NameProblem(es[i].name) = "none" /\ es[i].kind # "link"
             /\ ~ \E j \in 1..(i - 1) : Key(PathOf(es[j].name)) = Key(PathOf(es[i].name))
             /\ ~ (Len(Members(SubSeq(es, 1, i))) > Limits.files)
  <2>1. EntryProblem(es, i) =
          IF NameProblem(es[i].name) # "none" THEN NameProblem(es[i].name)
          ELSE IF es[i].kind = "link" THEN "symlink"
          ELSE IF es[i].locked THEN "encrypted_entry"
          ELSE IF \E j \in 1..(i - 1) : Key(PathOf(es[j].name)) = Key(PathOf(es[i].name)) THEN "duplicate_entry"
          ELSE IF Len(Members(SubSeq(es, 1, i))) > Limits.files THEN "too_many_files"
          ELSE "none"
    BY Zenon DEF EntryProblem
  <2>2. "symlink" # "none" /\ "encrypted_entry" # "none" /\ "duplicate_entry" # "none" /\ "too_many_files" # "none"
    OBVIOUS
  <2> QED
    BY <1>6, <2>1, <2>2, Zenon
<1>8. ASSUME NEW i \in 1..Len(es), NEW j \in 1..Len(es), i # j
      PROVE  Key(PathOf(es[i].name)) # Key(PathOf(es[j].name))
  <2>1. i \in 1..(j - 1) \/ j \in 1..(i - 1)
    BY <1>4, <1>8
  <2> QED
    BY <1>7, <2>1, Zenon
<1>9. /\ IsList(ms) /\ Len(ms) <= Len(es)
      /\ \A i \in 1..Len(ms) : \E k \in 1..Len(es) : es[k] = ms[i] /\ ~ es[k].name.folder
      /\ \A i, j \in 1..Len(ms) : i # j =>
           \E k, l \in 1..Len(es) : k # l /\ es[k] = ms[i] /\ es[l] = ms[j]
  <2>1. PartOf(Members(es), es)
    BY <1>4, MembersOnce, Zenon
  <2>2. PartOf(ms, es)
    BY <1>2, <2>1, Zenon
  <2> QED
    BY <2>2, Zenon DEF PartOf
<1>10. Len(ms) \in Nat /\ DOMAIN ms = 1..Len(ms)
  BY <1>9, ListElements, Zenon
<1>11. ASSUME NEW i \in 1..Len(ms)
       PROVE  IsEntry(ms[i]) /\ ms[i].kind = "file" /\ NameProblem(ms[i].name) = "none"
  <2>1. PICK k \in 1..Len(es) : es[k] = ms[i] /\ ~ es[k].name.folder
    BY <1>9, Zenon
  <2>2. es[k] \in Range(es)
    BY <1>4, InRange, Zenon
  <2>3. IsEntry(ms[i]) /\ ms[i].kind # "special" /\ (ms[i].kind = "folder" => ms[i].name.folder)
    BY <1>1, <2>1, <2>2, Zenon
  <2>4. NameProblem(ms[i].name) = "none" /\ ms[i].kind # "link"
    BY <1>7, <2>1, Zenon
  <2>5. ms[i].kind # "folder"
    BY <2>1, <2>3, Zenon
  <2> QED
    BY <2>3, <2>4, <2>5 DEF IsEntry
<1>12. ASSUME NEW i \in 1..Len(ms), NEW j \in 1..Len(ms), i # j
       PROVE  Key(PathOf(ms[i].name)) # Key(PathOf(ms[j].name))
  <2>1. PICK k \in 1..Len(es), l \in 1..Len(es) : k # l /\ es[k] = ms[i] /\ es[l] = ms[j]
    BY <1>9, <1>12, Zenon
  <2>2. Key(PathOf(es[k].name)) # Key(PathOf(es[l].name))
    BY <1>8, <2>1, Zenon
  <2> QED
    BY <2>1, <2>2, Zenon
<1>13. AcceptedMembers(ms)
  BY <1>9, <1>11, <1>12, Zenon DEF AcceptedMembers, Entries
<1>14. TellApart(ms)
  <2>1. \A k, l \in 1..Len(ms) : Key(PathOf(ms[k].name)) \notin Parents(Key(PathOf(ms[l].name)))
    BY <1>3, <1>5, <1>10, Zenon DEF FileUsedAsDirectory
  <2> QED
    BY <1>12, <2>1 DEF TellApart
<1>15. Len(ms) <= Limits.files
  <2>1. CASE Len(es) = 0
    BY <1>9, <1>10, <2>1, LimitAssumption
  <2>2. CASE Len(es) # 0
    <3>1. Len(es) \in 1..Len(es) /\ SubSeq(es, 1, Len(es)) = es
      <4>1. es \in Seq(Range(es))
        BY <1>4 DEF IsList
      <4> QED
        BY <1>4, <2>2, <4>1
    <3>2. ~ (Len(ms) > Limits.files)
      BY <1>2, <1>7, <3>1, Zenon
    <3> QED
      BY <1>10, <3>2, LimitAssumption
  <2> QED
    BY <2>1, <2>2
<1>16. ASSUME Declared(ms, Len(ms)) \in Int PROVE Declared(ms, Len(ms)) <= Limits.total
  <2>1. total = Declared(ms, Len(ms))
    BY <1>10, Zenon DEF Declared
  <2>2. ExpansionProblem(total, u.size) = "none"
    BY <1>3, <1>5, Zenon
  <2> HIDE DEF total
  <2>3. ~ (total > Limits.total)
    <3>1. total > Limits.total => ExpansionProblem(total, u.size) = "uncompressed_too_large"
      BY <1>16, <2>1, LimitAssumption DEF ExpansionProblem
    <3> QED
      BY <2>2, <3>1
  <2> QED
    BY <1>16, <2>1, <2>3, LimitAssumption
<1> QED
  BY <1>1, <1>2, <1>13, <1>14, <1>15, <1>16, Zenon

\* The safety of what is on disk, whatever was uploaded.
FilesSafe(s, es) ==
  /\ DOMAIN s.files = 1..Len(s.files) /\ DOMAIN s.skipped = 1..Len(s.skipped)
  /\ Len(s.files) \in Nat /\ Cardinality(DOMAIN s.files) = Len(s.files)
  /\ \A i \in DOMAIN s.files :
       /\ s.files[i].entry.kind = "file" /\ s.files[i].entry.actual <= Limits.file
       /\ s.files[i].path # <<>> /\ Range(s.files[i].path) \cap {"..", "", "."} = {}
  /\ \A i, j \in DOMAIN s.files : i # j =>
       \E k, l \in 1..Len(es) : /\ k # l /\ es[k].kind = "file" /\ es[l].kind = "file"
                                /\ s.files[i].path = PathOf(es[k].name)
                                /\ s.files[j].path = PathOf(es[l].name)

LEMMA TidySafe ==
  ASSUME NEW es, Entries(es), NEW s, Tidy(s, es, Len(es))
  PROVE  FilesSafe(s, es)
<1>1. /\ DOMAIN s.files = 1..Len(s.files) /\ DOMAIN s.skipped = 1..Len(s.skipped)
      /\ Len(s.files) \in Nat
  BY ListElements, Zenon DEF Tidy
<1>2. Cardinality(1..Len(s.files)) = Len(s.files)
  BY <1>1, FS_Interval
<1>3. ASSUME NEW i \in 1..Len(s.files)
      PROVE  /\ s.files[i].entry.kind = "file" /\ s.files[i].entry.actual <= Limits.file
             /\ s.files[i].path # <<>> /\ Range(s.files[i].path) \cap {"..", "", "."} = {}
  <2>1. PICK k \in 1..Len(es) : ComesFrom(s.files[i], es[k])
    BY Zenon DEF Tidy
  <2>2. IsEntry(es[k])
    BY Zenon DEF Entries
  <2>3. PathOf(es[k].name) # <<>> /\ Range(PathOf(es[k].name)) \cap {"..", "", "."} = {}
    BY <2>1, <2>2, NameSafe, Zenon DEF ComesFrom, Accepted, IsEntry
  <2>4. es[k].kind = "file" /\ es[k].actual <= Limits.file
    BY <2>1, <2>2, LimitAssumption DEF ComesFrom, Accepted, IsEntry
  <2> QED
    BY <2>1, <2>3, <2>4, Zenon DEF ComesFrom
<1>4. ASSUME NEW i \in 1..Len(s.files), NEW j \in 1..Len(s.files), i # j
      PROVE  \E k, l \in 1..Len(es) : /\ k # l /\ es[k].kind = "file" /\ es[l].kind = "file"
                                      /\ s.files[i].path = PathOf(es[k].name)
                                      /\ s.files[j].path = PathOf(es[l].name)
  <2>1. PICK k \in 1..Len(es) : ComesFrom(s.files[i], es[k])
    BY Zenon DEF Tidy
  <2>2. PICK l \in 1..Len(es) : ComesFrom(s.files[j], es[l])
    BY Zenon DEF Tidy
  <2>3. k # l
    BY <1>4, <2>1, <2>2, Zenon DEF Tidy, ComesFrom
  <2> QED
    BY <2>1, <2>2, <2>3, Zenon DEF ComesFrom, Accepted
<1> QED
  <2>1. \A i : i \in DOMAIN s.files => i \in 1..Len(s.files)
    BY <1>1, Zenon
  <2>2. Cardinality(DOMAIN s.files) = Len(s.files)
    BY <1>1, <1>2, Zenon
  <2>3. \A i \in DOMAIN s.files :
          /\ s.files[i].entry.kind = "file" /\ s.files[i].entry.actual <= Limits.file
          /\ s.files[i].path # <<>> /\ Range(s.files[i].path) \cap {"..", "", "."} = {}
    BY <1>3, <2>1, Zenon
  <2>4. \A i, j \in DOMAIN s.files : i # j =>
          \E k, l \in 1..Len(es) : /\ k # l /\ es[k].kind = "file" /\ es[l].kind = "file"
                                   /\ s.files[i].path = PathOf(es[k].name)
                                   /\ s.files[j].path = PathOf(es[l].name)
    <3> SUFFICES ASSUME NEW i \in DOMAIN s.files, NEW j \in DOMAIN s.files, i # j
                 PROVE  \E k, l \in 1..Len(es) : /\ k # l /\ es[k].kind = "file" /\ es[l].kind = "file"
                                                 /\ s.files[i].path = PathOf(es[k].name)
                                                 /\ s.files[j].path = PathOf(es[l].name)
      BY Zenon
    <3>1. i \in 1..Len(s.files) /\ j \in 1..Len(s.files)
      BY <2>1
    <3> QED
      BY <1>4, <3>1
  <2> QED
    BY <1>1, <2>2, <2>3, <2>4, Zenon DEF FilesSafe

\* Whether a file is on disk, or its path was skipped.
Stored(s, e) == \E i \in DOMAIN s.files : s.files[i].entry.file = e.file
Skipped(s, path) == \E i \in DOMAIN s.skipped : s.skipped[i].path = path

\* Of what is accepted, every file is on disk or has been skipped, and not both.
LEMMA TidyComplete ==
  ASSUME NEW es, Entries(es), \A k, l \in 1..Len(es) : es[k].file = es[l].file => k = l,
         NEW s, Tidy(s, es, Len(es)), s.rejected = "none",
         NEW k \in 1..Len(es), es[k].kind = "file",
         \A i \in DOMAIN s.skipped : s.skipped[i].path \notin Parents(PathOf(es[k].name))
  PROVE  Stored(s, es[k]) # Skipped(s, PathOf(es[k].name))
<1>1. DOMAIN s.files = 1..Len(s.files) /\ DOMAIN s.skipped = 1..Len(s.skipped)
  BY ListElements, Zenon DEF Tidy
<1>2. Settled(s, es[k])
  BY Zenon DEF Tidy
<1>3. Stored(s, es[k]) \/ Skipped(s, PathOf(es[k].name))
  BY <1>1, <1>2, Zenon DEF Settled, Stored, Skipped
<1>4. ASSUME Stored(s, es[k]), Skipped(s, PathOf(es[k].name)) PROVE FALSE
  <2>1. PICK i \in 1..Len(s.files) : s.files[i].entry.file = es[k].file
    BY <1>1, <1>4, Zenon DEF Stored
  <2>2. PICK l \in 1..Len(es) : ComesFrom(s.files[i], es[l])
    BY Zenon DEF Tidy
  <2>3. l = k
    BY <2>1, <2>2, Zenon DEF ComesFrom
  <2>4. PICK j \in 1..Len(s.skipped) : s.skipped[j].path = PathOf(es[k].name)
    BY <1>1, <1>4, Zenon DEF Skipped
  <2> QED
    <3>1. s.files[i].path = PathOf(es[k].name)
      BY <2>2, <2>3, Zenon DEF ComesFrom
    <3>2. s.files[i].path # s.skipped[j].path
      BY Zenon DEF Tidy
    <3> QED
      BY <2>4, <3>1, <3>2, Zenon
<1>5. Stored(s, es[k]) \in BOOLEAN /\ Skipped(s, PathOf(es[k].name)) \in BOOLEAN
  BY DEF Stored, Skipped
<1> QED
  BY <1>3, <1>4, <1>5

\* What is known of an upload.
IsUpload(u, es) ==
  /\ u.kind \in {"archive", "file", "directory"}
  /\ IsList(es)
  /\ \A e \in Range(es) : IsEntry(e) /\ e.file \in DOMAIN Contents
  /\ \A i, j \in 1..Len(es) : es[i].file = es[j].file => i = j
  /\ u.kind = "archive" =>
       \A e \in Range(es) : e.kind # "special" /\ (e.kind = "folder" => e.name.folder)
  /\ u.kind = "file" =>
       Len(es) = 1 /\ es[1].kind = "file" /\ es[1].actual <= es[1].size
  /\ u.kind = "directory" =>
       \A i, j \in 1..Len(es) :
         /\ PathOf(es[i].name) = PathOf(es[j].name) => i = j
         /\ PathOf(es[i].name) \in Parents(PathOf(es[j].name)) => es[i].kind = "folder"

LEMMA Uploads ==
  ASSUME NEW s \in Scans
  PROVE  IsUpload(s.upload, s.upload.entries)
BY UploadAssumption, Zenon DEF IsUpload

\* The names by which the files of an upload are told apart, and where an entry belongs.
NameOf(u, s, i) == IF u.kind = "archive" THEN Key(s.files[i].path) ELSE s.files[i].path
PlaceOf(u, e) == PathOf(IF u.kind = "file" THEN BaseName(e.name) ELSE e.name)

\* A file on disk is a regular file that is not too long, inside the directory.
InPlace(file) ==
  /\ file.entry.kind = "file" /\ file.entry.actual <= Limits.file
  /\ file.path # <<>> /\ Range(file.path) \cap {"..", "", "."} = {}

\* Every file of an upload is on disk or has been skipped.
Complete(u, s) ==
  \A e \in Range(u.entries) :
    e.kind = "file" /\ (\A i \in DOMAIN s.skipped : s.skipped[i].path \notin Parents(PlaceOf(u, e))) =>
      Stored(s, e) # Skipped(s, PlaceOf(u, e))

\* What IngestSafe says of what is on disk after an upload.
Sound(u, s) ==
  /\ s.rejected # "none" /\ u.kind = "archive" => DOMAIN s.files = {}
  /\ Cardinality(DOMAIN s.files) <= Limits.files
  /\ u.kind # "file" => Written(s) <= Limits.total
  /\ \A i \in DOMAIN s.files : InPlace(s.files[i])
  /\ \A i, j \in DOMAIN s.files : i # j => NameOf(u, s, j) \notin Parents(NameOf(u, s, i)) \cup {NameOf(u, s, i)}
  /\ s # Nothing /\ s.rejected = "none" => Complete(u, s)

\* Nothing is on disk before ingestion, or when everything was rejected.
LEMMA NoFilesSound ==
  ASSUME NEW u, NEW s, s.files = <<>>, s = Nothing \/ s.rejected # "none"
  PROVE  Sound(u, s)
<1>1. DOMAIN s.files = {}
  OBVIOUS
<1>2. Written(s) = 0
  <2>1. DOMAIN [i \in DOMAIN s.files |-> s.files[i].entry.actual] = {}
    BY <1>1
  <2> QED
    BY <2>1, NoTotal DEF Written
<1>3. Cardinality(DOMAIN s.files) = 0
  BY <1>1, FS_EmptySet
<1> QED
  BY <1>1, <1>2, <1>3, LimitAssumption DEF Sound

\* What is rejected leaves no files.
LEMMA RejectedSound ==
  ASSUME NEW u, NEW reason, reason # "none"
  PROVE  Sound(u, Rejected(reason))
<1>1. PICK s : s = Rejected(reason)
  BY Zenon
<1>2. s.files = <<>> /\ s.rejected # "none"
  BY <1>1 DEF Rejected, Nothing
<1> QED
  BY <1>1, <1>2, NoFilesSound, Zenon

\* A path is not one of its own parents.
LEMMA NotOwnParent ==
  ASSUME NEW u, NEW es, Entries(es), NEW s, Tidy(s, es, Len(es)),
         \A k, l \in 1..Len(es) : k # l /\ es[k].kind = "file" /\ es[l].kind = "file" =>
           LET Name(p) == IF u.kind = "archive" THEN Key(p) ELSE p
           IN  Name(PathOf(es[k].name)) \notin Parents(Name(PathOf(es[l].name))) \cup {Name(PathOf(es[l].name))}
  PROVE  \A i, j \in DOMAIN s.files : i # j => NameOf(u, s, j) \notin Parents(NameOf(u, s, i)) \cup {NameOf(u, s, i)}
<1> DEFINE Name(p) == IF u.kind = "archive" THEN Key(p) ELSE p
<1> SUFFICES ASSUME NEW i \in DOMAIN s.files, NEW j \in DOMAIN s.files, i # j
             PROVE  Name(s.files[j].path) \notin Parents(Name(s.files[i].path)) \cup {Name(s.files[i].path)}
  BY DEF NameOf
<1>1. PICK k \in 1..Len(es), l \in 1..Len(es) :
        /\ k # l /\ es[k].kind = "file" /\ es[l].kind = "file"
        /\ s.files[j].path = PathOf(es[k].name) /\ s.files[i].path = PathOf(es[l].name)
  <2>1. FilesSafe(s, es)
    BY TidySafe, Zenon
  <2>2. j # i
    BY Zenon
  <2> QED
    BY <2>1, <2>2, Zenon DEF FilesSafe
<1>2. Name(PathOf(es[k].name)) \notin Parents(Name(PathOf(es[l].name))) \cup {Name(PathOf(es[l].name))}
  BY <1>1, Zenon
<1> QED
  BY <1>1, <1>2, Zenon

\* What an archive leaves on disk is safe (extract_archive).
LEMMA ArchiveSound ==
  ASSUME NEW sc \in Scans, sc.upload.kind = "archive"
  PROVE  Sound(sc.upload, ExtractArchive(sc.upload))
<1>1. PICK u : u = sc.upload
  BY Zenon
<1>2. PICK es : es = u.entries
  BY Zenon
<1>3. PICK ms : ms = Members(es)
  BY Zenon
<1>4. PICK s : s = FoldedOver(Extract, Nothing, ms)
  BY Zenon
<1>5. /\ IsList(es) /\ \A e \in Range(es) : IsEntry(e)
      /\ \A i, j \in 1..Len(es) : es[i].file = es[j].file => i = j
      /\ \A e \in Range(es) : e.kind # "special" /\ (e.kind = "folder" => e.name.folder)
  BY <1>1, <1>2, Uploads, Zenon DEF IsUpload
<1>6. ExtractArchive(u) = CASE ArchiveProblem(u) # "none" -> Rejected(ArchiveProblem(u))
                            [] ArchiveProblem(u) = "none" /\ s.rejected # "none" -> Rejected(s.rejected)
                            [] OTHER -> s
  BY <1>2, <1>3, <1>4, Zenon DEF ExtractArchive
<1>7. CASE ArchiveProblem(u) # "none"
  BY <1>1, <1>6, <1>7, RejectedSound, Zenon
<1>8. CASE ArchiveProblem(u) = "none" /\ s.rejected # "none"
  BY <1>1, <1>6, <1>8, RejectedSound, Zenon
<1>9. CASE ArchiveProblem(u) = "none" /\ s.rejected = "none"
  <2>1. /\ AcceptedMembers(ms) /\ TellApart(ms) /\ Len(ms) <= Limits.files
        /\ Declared(ms, Len(ms)) \in Int => Declared(ms, Len(ms)) <= Limits.total
    BY <1>2, <1>3, <1>5, <1>9, ArchiveAccepted, Zenon
  <2>2. InArchive(s, ms, Len(ms)) /\ Entries(ms)
    BY <1>4, <2>1, ArchiveTidy, Zenon DEF AcceptedMembers
  <2>3. Tidy(s, ms, Len(ms))
    BY <2>2, Zenon DEF InArchive
  <2>4. Len(ms) \in Nat
    BY <2>2, ListElements, Zenon DEF Entries
  <2>5. /\ Len(s.files) \in Nat /\ Cardinality(DOMAIN s.files) = Len(s.files)
        /\ \A i \in DOMAIN s.files : InPlace(s.files[i])
    BY <2>2, <2>3, TidySafe, Zenon DEF FilesSafe, InPlace
  <2>6. Cardinality(DOMAIN s.files) <= Limits.files
    BY <2>1, <2>2, <2>4, <2>5, LimitAssumption DEF InArchive
  <2>7. Written(s) <= Limits.total
    <3>1. Written(s) \in Int /\ Expected(s) \in Int /\ Written(s) <= Expected(s)
      BY <2>3 DEF Tidy
    <3>2. Declared(ms, Len(ms)) \in Int /\ Expected(s) <= Declared(ms, Len(ms))
      BY <2>2 DEF InArchive
    <3> QED
      BY <2>1, <3>1, <3>2, LimitAssumption
  <2>8. \A i, j \in DOMAIN s.files : i # j => NameOf(u, s, j) \notin Parents(NameOf(u, s, i)) \cup {NameOf(u, s, i)}
    <3>1. u.kind = "archive"
      BY <1>1
    <3>2. \A k, l \in 1..Len(ms) : k # l =>
            LET Name(p) == IF u.kind = "archive" THEN Key(p) ELSE p
            IN  Name(PathOf(ms[k].name)) \notin Parents(Name(PathOf(ms[l].name))) \cup {Name(PathOf(ms[l].name))}
      BY <2>1, <3>1, Zenon DEF TellApart
    <3> QED
      BY <2>2, <2>3, <3>2, NotOwnParent
  <2>9. Complete(u, s)
    <3>1. ASSUME NEW e \in Range(es), e.kind = "file",
                 \A i \in DOMAIN s.skipped : s.skipped[i].path \notin Parents(PathOf(e.name))
          PROVE  Stored(s, e) # Skipped(s, PathOf(e.name))
      <4>1. ~ e.name.folder
        BY <1>5, <3>1, Zenon DEF IsEntry
      <4>2. PICK n \in 1..Len(es) : es[n] = e
        BY <1>5, InRange, Zenon
      <4>3. e \in Range(ms)
        BY <1>3, <1>5, <4>1, <4>2, MembersKept, Zenon
      <4>4. PICK k \in 1..Len(ms) : ms[k] = e
        BY <2>2, <4>3, InRange, Zenon DEF Entries
      <4>5. \A i, j \in 1..Len(ms) : ms[i].file = ms[j].file => i = j
        <5>1. \A i, j \in 1..Len(ms) : i # j => \E m, l \in 1..Len(es) : m # l /\ es[m] = ms[i] /\ es[l] = ms[j]
          <6>1. PartOf(ms, es)
            BY <1>3, <1>5, MembersOnce, Zenon
          <6> QED
            BY <6>1, Zenon DEF PartOf
        <5> SUFFICES ASSUME NEW i \in 1..Len(ms), NEW j \in 1..Len(ms), ms[i].file = ms[j].file, i # j
                     PROVE  FALSE
          BY Zenon
        <5>2. PICK m \in 1..Len(es), l \in 1..Len(es) : m # l /\ es[m] = ms[i] /\ es[l] = ms[j]
          BY <5>1, Zenon
        <5> QED
          BY <1>5, <5>2, Zenon
      <4> QED
        BY <1>9, <2>2, <2>3, <3>1, <4>4, <4>5, TidyComplete
    <3>2. \A e : PlaceOf(u, e) = PathOf(e.name)
      <4>1. u.kind # "file"
        BY <1>1
      <4> QED
        BY <4>1, Zenon DEF PlaceOf
    <3> QED
      BY <1>2, <3>1, <3>2, Zenon DEF Complete
  <2>10. Sound(u, s)
    BY <1>9, <2>5, <2>6, <2>7, <2>8, <2>9, Zenon DEF Sound
  <2>11. ExtractArchive(u) = s
    BY <1>6, <1>9, Zenon
  <2> QED
    BY <1>1, <2>10, <2>11, Zenon
<1> QED
  BY <1>7, <1>8, <1>9, Zenon

\* What a directory leaves on disk is safe (ingest_directory).
LEMMA DirectorySound ==
  ASSUME NEW sc \in Scans, sc.upload.kind = "directory"
  PROVE  Sound(sc.upload, IngestDirectory(sc.upload.entries))
<1>1. PICK u : u = sc.upload
  BY Zenon
<1>2. PICK es : es = u.entries
  BY Zenon
<1>3. PICK s : s = IngestDirectory(es)
  BY Zenon
<1>4. /\ IsList(es) /\ \A e \in Range(es) : IsEntry(e)
      /\ \A i, j \in 1..Len(es) : es[i].file = es[j].file => i = j
      /\ \A i, j \in 1..Len(es) :
           /\ PathOf(es[i].name) = PathOf(es[j].name) => i = j
           /\ PathOf(es[i].name) \in Parents(PathOf(es[j].name)) => es[i].kind = "folder"
  <2>1. IsUpload(u, es) /\ u.kind = "directory"
    BY <1>1, <1>2, Uploads, Zenon
  <2> QED
    BY <2>1, Zenon DEF IsUpload
<1>5. Entries(es)
  <2>1. \A k \in 1..Len(es) : IsEntry(es[k])
    BY <1>4, InRange, Zenon
  <2> QED
    BY <1>4, <2>1, Zenon DEF Entries
<1>6. InDirectory(s, es, Len(es))
  BY <1>3, <1>5, DirectoryTidy, Zenon
<1>7. Tidy(s, es, Len(es))
  BY <1>6, Zenon DEF InDirectory
<1>8. /\ Len(s.files) \in Nat /\ Cardinality(DOMAIN s.files) = Len(s.files)
      /\ \A i \in DOMAIN s.files : InPlace(s.files[i])
  BY <1>5, <1>7, TidySafe, Zenon DEF FilesSafe, InPlace
<1>9. Cardinality(DOMAIN s.files) <= Limits.files
  BY <1>6, <1>8, Zenon DEF InDirectory
<1>10. Written(s) <= Limits.total
  <2>1. Written(s) \in Int /\ Expected(s) \in Int /\ Written(s) <= Expected(s)
    BY <1>7 DEF Tidy
  <2>2. Expected(s) <= Limits.total
    BY <1>6 DEF InDirectory
  <2> QED
    BY <2>1, <2>2, LimitAssumption
<1>11. u.kind # "archive" /\ u.kind # "file"
  BY <1>1
<1>12. \A i, j \in DOMAIN s.files : i # j => NameOf(u, s, j) \notin Parents(NameOf(u, s, i)) \cup {NameOf(u, s, i)}
  <2>1. "file" # "folder"
    OBVIOUS
  <2>2. \A k, l \in 1..Len(es) : k # l /\ es[k].kind = "file" =>
          PathOf(es[k].name) \notin Parents(PathOf(es[l].name)) /\ PathOf(es[k].name) # PathOf(es[l].name)
    BY <1>4, <2>1, Zenon
  <2>3. \A k, l \in 1..Len(es) : k # l /\ es[k].kind = "file" /\ es[l].kind = "file" =>
          LET Name(p) == IF u.kind = "archive" THEN Key(p) ELSE p
          IN  Name(PathOf(es[k].name)) \notin Parents(Name(PathOf(es[l].name))) \cup {Name(PathOf(es[l].name))}
    BY <1>11, <2>2
  <2> QED
    BY <1>5, <1>7, <2>3, NotOwnParent
<1>13. ASSUME s.rejected = "none" PROVE Complete(u, s)
  <2>1. ASSUME NEW e \in Range(es), e.kind = "file",
               \A i \in DOMAIN s.skipped : s.skipped[i].path \notin Parents(PathOf(e.name))
        PROVE  Stored(s, e) # Skipped(s, PathOf(e.name))
    <3>1. PICK k \in 1..Len(es) : es[k] = e
      BY <1>4, InRange, Zenon
    <3> QED
      BY <1>4, <1>5, <1>7, <1>13, <2>1, <3>1, TidyComplete
  <2>2. \A e : PlaceOf(u, e) = PathOf(e.name)
    BY <1>11, Zenon DEF PlaceOf
  <2> QED
    BY <1>2, <2>1, <2>2, Zenon DEF Complete
<1>14. Sound(u, s)
  BY <1>8, <1>9, <1>10, <1>11, <1>12, <1>13, Zenon DEF Sound
<1> QED
  BY <1>1, <1>2, <1>3, <1>14, Zenon

\* What a single file leaves on disk is safe (_ingest_single_file).
LEMMA FileSound ==
  ASSUME NEW sc \in Scans, sc.upload.kind = "file"
  PROVE  Sound(sc.upload, IngestFile(sc.upload.entries[1]))
<1>1. PICK u : u = sc.upload
  BY Zenon
<1>2. PICK e : e = u.entries[1]
  BY Zenon
<1>3. PICK name : name = BaseName(e.name)
  BY Zenon
<1>4. PICK x : x = [e EXCEPT !.name = name]
  BY Zenon
<1> DEFINE es == <<x>>
<1>5. /\ IsList(u.entries) /\ Len(u.entries) = 1 /\ \A y \in Range(u.entries) : IsEntry(y)
      /\ e.kind = "file" /\ e.actual <= e.size
  BY <1>1, <1>2, Uploads, Zenon DEF IsUpload
<1>6. IsEntry(e) /\ \A y \in Range(u.entries) : y = e
  <2>1. 1 \in 1..Len(u.entries) /\ \A i \in 1..Len(u.entries) : i = 1
    BY <1>5
  <2> QED
    BY <1>2, <1>5, <2>1, InRange
<1>7. /\ x.name = name /\ x.file = e.file /\ x.kind = e.kind /\ x.size = e.size /\ x.actual = e.actual
      /\ DOMAIN x = DOMAIN e
  BY <1>4, <1>6 DEF IsEntry
<1>8. IsEntry(x)
  <2>1. IsList(name.parts) /\ ~ name.folder
    <3>1. IsList(<<Last(e.name.parts)>>)
      <4>1. <<Last(e.name.parts)>> \in Seq({Last(e.name.parts)})
        OBVIOUS
      <4> QED
        BY <4>1, SeqIsList, Zenon
    <3> QED
      BY <1>3, <3>1 DEF BaseName
  <2> QED
    BY <1>6, <1>7, <2>1 DEF IsEntry
<1>9. IsList(es) /\ Len(es) = 1 /\ es[1] = x /\ 1..Len(es) = {1} /\ 1 \in 1..Len(es)
  <2>1. es \in Seq({x}) /\ Len(es) = 1 /\ es[1] = x
    OBVIOUS
  <2> HIDE DEF es
  <2>2. IsList(es)
    BY <2>1, SeqIsList, Zenon
  <2> QED
    BY <2>1, <2>2
<1> HIDE DEF es
<1>10. Entries(es)
  BY <1>8, <1>9 DEF Entries
<1>11. Reached(Nothing, es, 1) /\ Len(Nothing.files) = 0
  <2>1. 1 - 1 = 0
    OBVIOUS
  <2>2. Nothing.files = <<>> /\ Len(<<>>) = 0
    BY EmptyIsList DEF Nothing
  <2>3. Tidy(Nothing, es, 0)
    BY TidyStart, Zenon
  <2>4. Tidy(Nothing, es, 1 - 1)
    BY <2>1, <2>3
  <2> QED
    BY <1>9, <1>10, <2>2, <2>4, Zenon DEF Reached
<1>12. PICK s : s = IngestFile(e)
  BY Zenon
<1> SUFFICES Sound(u, s)
  BY <1>1, <1>2, <1>12, Zenon
<1>13. ASSUME Tidy(s, es, Len(es)), Len(s.files) <= 1 PROVE Sound(u, s)
  <2>1. /\ Len(s.files) \in Nat /\ Cardinality(DOMAIN s.files) = Len(s.files)
        /\ \A i \in DOMAIN s.files : InPlace(s.files[i])
        /\ DOMAIN s.files = 1..Len(s.files)
    BY <1>10, <1>13, TidySafe, Zenon DEF FilesSafe, InPlace
  <2>2. Cardinality(DOMAIN s.files) <= Limits.files
    BY <1>13, <2>1, LimitAssumption
  <2>3. \A i, j \in DOMAIN s.files : i = j
    BY <1>13, <2>1
  <2>4. ASSUME s.rejected = "none" PROVE Complete(u, s)
    <3>1. ASSUME \A i \in DOMAIN s.skipped : s.skipped[i].path \notin Parents(PathOf(x.name))
          PROVE  Stored(s, x) # Skipped(s, PathOf(x.name))
      BY <1>5, <1>7, <1>9, <1>10, <1>13, <2>4, <3>1, TidyComplete
    <3>2. PlaceOf(u, e) = PathOf(x.name)
      BY <1>1, <1>3, <1>7, Zenon DEF PlaceOf
    <3>3. Stored(s, e) = Stored(s, x)
      BY <1>7, Zenon DEF Stored
    <3> QED
      BY <1>6, <3>1, <3>2, <3>3, Zenon DEF Complete
  <2>5. u.kind = "file" /\ "file" # "archive"
    BY <1>1
  <2> QED
    BY <2>1, <2>2, <2>3, <2>4, <2>5, Zenon DEF Sound
<1> DEFINE reason == IF SkipForPath(PathOf(name)) # "none" THEN SkipForPath(PathOf(name)) ELSE SkipForContent(e)
<1>14. s = CASE NameProblem(name) # "none" -> Rejected(NameProblem(name))
             [] NameProblem(name) = "none" /\ reason # "none" -> Skipping(Nothing, PathOf(name), reason)
             [] OTHER -> Writing(Nothing, x)
  BY <1>3, <1>4, <1>12, Zenon DEF IngestFile
<1>15. CASE NameProblem(name) # "none"
  BY <1>14, <1>15, RejectedSound, Zenon
<1>16. CASE NameProblem(name) = "none" /\ reason # "none"
  <2>1. s = Skipping(Nothing, PathOf(es[1].name), reason)
    BY <1>7, <1>9, <1>14, <1>16, Zenon
  <2> HIDE DEF reason
  <2>2. NoMore(s, Nothing, es, 1)
    BY <1>11, <2>1, TidySkips, Zenon
  <2>3. Tidy(s, es, Len(es)) /\ Len(s.files) = 0
    BY <1>9, <1>11, <2>2, Zenon DEF NoMore
  <2> QED
    BY <1>13, <2>3
<1>17. CASE NameProblem(name) = "none" /\ reason = "none"
  <2>1. s = Writing(Nothing, es[1])
    BY <1>9, <1>14, <1>17, Zenon
  <2>2. SkipForContent(e) = "none"
    BY <1>17, Zenon
  <2>3. Accepted(es[1])
    <3>1. SkipForContent(x) = "none"
      <4>1. e.binary = x.binary
        BY <1>4
      <4> QED
        BY <1>7, <2>2, <4>1, Zenon DEF SkipForContent
    <3> QED
      BY <1>5, <1>6, <1>7, <1>8, <1>9, <1>17, <3>1, ContentAccepted DEF IsEntry
  <2>4. OneMore(s, Nothing, es, 1)
    BY <1>11, <2>1, <2>3, TidyWrites, Zenon
  <2>5. Tidy(s, es, Len(es)) /\ Len(s.files) = 0 + 1
    BY <1>9, <1>11, <2>4, Zenon DEF OneMore
  <2> QED
    BY <1>13, <2>5
<1> QED
  BY <1>15, <1>16, <1>17, Zenon

\* What ingestion leaves on disk is safe, whatever was uploaded.
LEMMA IngestedSound ==
  ASSUME NEW sc \in Scans
  PROVE  Sound(sc.upload, Ingested(sc.upload))
<1>1. sc.upload.kind \in {"archive", "file", "directory"}
  BY Uploads, Zenon DEF IsUpload
<1>2. CASE sc.upload.kind = "archive"
  <2>1. Ingested(sc.upload) = ExtractArchive(sc.upload)
    BY <1>2, Zenon DEF Ingested
  <2> QED
    BY <1>2, <2>1, ArchiveSound, Zenon
<1>3. CASE sc.upload.kind = "file"
  <2>1. Ingested(sc.upload) = IngestFile(sc.upload.entries[1])
    BY <1>3, Zenon DEF Ingested
  <2> QED
    BY <1>3, <2>1, FileSound, Zenon
<1>4. CASE sc.upload.kind = "directory"
  <2>1. Ingested(sc.upload) = IngestDirectory(sc.upload.entries)
    BY <1>4, Zenon DEF Ingested
  <2> QED
    BY <1>4, <2>1, DirectorySound, Zenon
<1> QED
  BY <1>1, <1>2, <1>3, <1>4, Zenon

-----------------------------------------------------------------------------
(* What is hidden of code (Redaction).                                     *)

\* Before the first line, and after these lines.
Unmasked == [masked |-> <<>>, block |-> 0]
MaskedAfter(index, file, lines, s) ==
  FoldedOver(LAMBDA x, n : MaskNext(index, file, lines, x, n), Unmasked, s)

\* What the masking of lines has made after each.
MaskRun(h, index, file, lines, s) ==
  /\ h[0] = Unmasked
  /\ \A n \in 1..Len(s) : h[n] = MaskNext(index, file, lines, h[n - 1], s[n])
  /\ h[Len(s)] = MaskedAfter(index, file, lines, s)

\* The loop masks one line after the other.
LEMMA MaskTrace ==
  ASSUME NEW index, NEW file, NEW lines, NEW s, Len(s) \in Nat
  PROVE  \E h : MaskRun(h, index, file, lines, s)
<1>0. PICK N : N = Len(s)
  BY Zenon
<1>10. N \in Nat
  BY <1>0
<1> DEFINE Step(x, n) == CHOOSE y \in {MaskNext(index, file, lines, z, s[n]) : z \in {x}} : TRUE
           Rec(h, n) == h = [i \in 0..n |-> IF i = 0 THEN Unmasked ELSE Step(h[i - 1], i)]
           T == {n \in 0..N : \E h : Rec(h, n)}
<1>1. \A x, n : Step(x, n) = MaskNext(index, file, lines, x, s[n])
  <2> TAKE x, n
  <2> DEFINE y == MaskNext(index, file, lines, x, s[n])
  <2>1. {MaskNext(index, file, lines, z, s[n]) : z \in {x}} = {y}
    BY <1>10
  <2> HIDE DEF y
  <2>2. (CHOOSE z \in {y} : TRUE) = y
    BY <1>10
  <2> QED
    BY <2>1, <2>2, Zenon DEF y
<1> HIDE DEF Step
<1>2. 0 \in T
  <2> DEFINE h == [i \in 0..0 |-> Unmasked]
  <2>1. Rec(h, 0)
    BY <1>10
  <2> HIDE DEF h, Rec
  <2> QED
    BY <1>10, <2>1
<1>3. ASSUME NEW n \in 0..(N - 1), n \in T PROVE n + 1 \in T
  <2>1. n \in Nat /\ n + 1 \in 0..N
    BY <1>10
  <2>2. PICK h : Rec(h, n)
    BY <1>3, Zenon
  <2> DEFINE g == [i \in 0..(n + 1) |-> IF i = 0 THEN Unmasked ELSE Step(h[i - 1], i)]
  <2>3. ASSUME NEW i \in 0..(n + 1), i # 0 PROVE g[i - 1] = h[i - 1]
    <3>1. i - 1 \in 0..n /\ i - 1 \in 0..(n + 1)
      BY <2>1, <2>3
    <3>2. g[i - 1] = IF i - 1 = 0 THEN Unmasked ELSE Step(h[i - 1 - 1], i - 1)
      BY <3>1, Zenon
    <3>3. h[i - 1] = IF i - 1 = 0 THEN Unmasked ELSE Step(h[i - 1 - 1], i - 1)
      BY <2>2, <3>1, Zenon
    <3> QED
      BY <3>2, <3>3, Zenon
  <2>4. \A i \in 0..(n + 1) : (IF i = 0 THEN Unmasked ELSE Step(h[i - 1], i))
                                = IF i = 0 THEN Unmasked ELSE Step(g[i - 1], i)
    <3> HIDE DEF g
    <3> QED
      BY <2>3, Zenon
  <2>5. Rec(g, n + 1)
    <3>1. g = [i \in 0..(n + 1) |-> IF i = 0 THEN Unmasked ELSE Step(h[i - 1], i)]
      BY <1>10
    <3> HIDE DEF g
    <3> QED
      BY <2>4, <3>1
  <2> HIDE DEF g, Rec
  <2> QED
    BY <2>1, <2>5, Zenon
<1>4. N \in T
  <2> HIDE DEF T
  <2>1. \A k \in 0..N : k \in T
    BY <1>2, <1>3, <1>10, UpTo
  <2> QED
    BY <1>10, <2>1
<1> DEFINE h == CHOOSE h : Rec(h, N)
<1>5. Rec(h, N)
  <2>1. \E g : Rec(g, N)
    BY <1>4, Zenon
  <2> HIDE DEF Rec
  <2> QED
    BY <2>1, Zenon
<1>6. MaskedAfter(index, file, lines, s) = h[N]
  BY <1>0, Zenon DEF MaskedAfter, FoldedOver, Step
<1> HIDE DEF h
<1>7. 0 \in 0..N /\ \A i \in 1..N : i \in 0..N /\ i # 0
  BY <1>10
<1>8. h[0] = Unmasked
  BY <1>5, <1>7
<1>9. ASSUME NEW n \in 1..N PROVE h[n] = MaskNext(index, file, lines, h[n - 1], s[n])
  <2>1. h[n] = IF n = 0 THEN Unmasked ELSE Step(h[n - 1], n)
    BY <1>5, <1>7, Zenon
  <2> QED
    BY <1>1, <1>7, <2>1, Zenon
<1> QED
  BY <1>0, <1>6, <1>8, <1>9, Zenon DEF MaskRun

\* Line b begins the first key block, as far as line n.
FirstBlock(lines, b, n) ==
  lines[b].key = "begin" /\ \A m \in 1..n : m = b \/ lines[m].key = "no"

\* Line n is inside the first key block.
InBlock(lines, n) == \E b \in 1..(n - 1) : n - b <= MaxKeyBlock /\ FirstBlock(lines, b, n)

\* The first n lines are masked where they have to be.
MaskedTo(s, index, file, lines, n) ==
  /\ IsList(s.masked) /\ Len(s.masked) = n
  /\ \A i \in 1..n :
       \/ s.masked[i] = Masked(lines[i])
       \/ s.masked[i] = lines[i] /\ ~ IsSensitive(index, file, i, lines[i]) /\ ~ InBlock(lines, i)
  /\ s.block \in Nat
  /\ (\A m \in 1..n : lines[m].key = "no") => s.block = 0
  /\ \A b \in 1..n : FirstBlock(lines, b, n) /\ n - b <= MaxKeyBlock => s.block = n - b + 1

\* And so is the next one.
LEMMA NextMasked ==
  ASSUME NEW index, NEW file, NEW lines, NEW n \in Nat, NEW s, MaskedTo(s, index, file, lines, n)
  PROVE  MaskedTo(MaskNext(index, file, lines, s, n + 1), index, file, lines, n + 1)
<1> DEFINE inside == s.block \in 1..MaxKeyBlock /\ ~ (lines[n + 1].key \in {"end", "both"})
<1>1. PICK line : line = lines[n + 1]
  BY Zenon
<1>2. PICK t : t = MaskNext(index, file, lines, s, n + 1)
  BY Zenon
<1>3. PICK x : x = IF inside \/ line.key = "both" \/ IsSensitive(index, file, n + 1, line)
                   THEN Masked(line) ELSE line
  BY Zenon
<1>4. t = [masked |-> Append(s.masked, x),
           block |-> IF inside THEN s.block + 1 ELSE IF line.key = "begin" THEN 1 ELSE 0]
  <2>1. CASE inside
    BY <1>1, <1>2, <1>3, <2>1, Zenon DEF MaskNext
  <2>2. CASE ~ inside
    BY <1>1, <1>2, <1>3, <2>2, Zenon DEF MaskNext
  <2> QED
    BY <2>1, <2>2
<1>5. /\ t.masked = Append(s.masked, x)
      /\ t.block = IF inside THEN s.block + 1 ELSE IF line.key = "begin" THEN 1 ELSE 0
  BY <1>4
<1>6. /\ s.block \in Nat /\ MaxKeyBlock \in Nat
      /\ (\A m \in 1..n : lines[m].key = "no") => s.block = 0
      /\ \A b \in 1..n : FirstBlock(lines, b, n) /\ n - b <= MaxKeyBlock => s.block = n - b + 1
  BY KeyBlockAssumption DEF MaskedTo
<1>7. n + 1 \in 1..(n + 1) /\ \A m \in 1..(n + 1) : m \in 1..n \/ m = n + 1
  OBVIOUS
<1>8. \A m \in 1..n : m \in 1..(n + 1) /\ m # n + 1
  OBVIOUS
<1>9. t.block \in Nat
  BY <1>5, <1>6
<1>10. (\A m \in 1..(n + 1) : lines[m].key = "no") => t.block = 0
  <2> SUFFICES ASSUME \A m \in 1..(n + 1) : lines[m].key = "no" PROVE t.block = 0
    OBVIOUS
  <2>1. s.block = 0 /\ line.key = "no"
    BY <1>1, <1>6, <1>7, <1>8
  <2>2. ~ inside
    BY <2>1
  <2> HIDE DEF inside
  <2> QED
    BY <1>5, <2>1, <2>2
<1>11. ASSUME NEW b \in 1..n, FirstBlock(lines, b, n + 1), n + 1 - b <= MaxKeyBlock
       PROVE  inside /\ t.block = n + 1 - b + 1
  <2>1. FirstBlock(lines, b, n) /\ line.key = "no"
    BY <1>1, <1>7, <1>8, <1>11 DEF FirstBlock
  <2>2. s.block = n - b + 1
    BY <1>6, <1>11, <2>1
  <2>3. inside
    BY <1>1, <1>6, <1>11, <2>1, <2>2
  <2> HIDE DEF inside
  <2> QED
    BY <1>5, <1>11, <2>2, <2>3
<1>12. FirstBlock(lines, n + 1, n + 1) => t.block = 1
  <2> SUFFICES ASSUME FirstBlock(lines, n + 1, n + 1) PROVE t.block = 1
    OBVIOUS
  <2>1. line.key = "begin" /\ s.block = 0
    BY <1>1, <1>6, <1>8 DEF FirstBlock
  <2>2. ~ inside
    BY <2>1
  <2> HIDE DEF inside
  <2> QED
    BY <1>5, <2>1, <2>2
<1>13. ASSUME NEW b \in 1..(n + 1), FirstBlock(lines, b, n + 1), n + 1 - b <= MaxKeyBlock
       PROVE  t.block = n + 1 - b + 1
  <2>1. CASE b \in 1..n
    BY <1>11, <1>13, <2>1
  <2>2. CASE b = n + 1
    BY <1>12, <1>13, <2>2
  <2> QED
    BY <2>1, <2>2, <1>7
<1>14. InBlock(lines, n + 1) => inside
  <2> SUFFICES ASSUME NEW b \in 1..(n + 1 - 1), n + 1 - b <= MaxKeyBlock, FirstBlock(lines, b, n + 1)
               PROVE  inside
    BY DEF InBlock
  <2>1. b \in 1..n
    OBVIOUS
  <2> QED
    BY <1>11, <2>1
<1>15. x = Masked(line) \/ (x = line /\ ~ IsSensitive(index, file, n + 1, line) /\ ~ InBlock(lines, n + 1))
  <2> HIDE DEF inside
  <2> QED
    BY <1>3, <1>14, Zenon
<1> HIDE DEF inside
<1>16. IsList(s.masked) /\ Len(s.masked) = n
  BY Zenon DEF MaskedTo
<1>17. /\ IsList(t.masked) /\ Len(t.masked) = n + 1
       /\ \A i \in 1..n : t.masked[i] = s.masked[i]
       /\ t.masked[n + 1] = x
  <2>1. PICK a : a = s.masked
    BY Zenon
  <2>2. IsList(a) /\ Len(a) = n
    BY <1>16, <2>1
  <2>3. /\ IsList(Append(a, x)) /\ Len(Append(a, x)) = Len(a) + 1
        /\ \A i \in 1..Len(a) : Append(a, x)[i] = a[i]
        /\ Append(a, x)[Len(a) + 1] = x
    BY <2>2, AppendList
  <2>4. t.masked = Append(a, x)
    BY <1>5, <2>1
  <2> QED
    BY <2>1, <2>2, <2>3, <2>4
<1>18. ASSUME NEW i \in 1..(n + 1)
       PROVE  \/ t.masked[i] = Masked(lines[i])
              \/ t.masked[i] = lines[i] /\ ~ IsSensitive(index, file, i, lines[i]) /\ ~ InBlock(lines, i)
  <2>1. CASE i = n + 1
    BY <1>1, <1>15, <1>17, <2>1, Zenon
  <2>2. CASE i \in 1..n
    BY <1>17, <2>2, Zenon DEF MaskedTo
  <2> QED
    BY <2>1, <2>2, <1>7
<1>19. MaskedTo(t, index, file, lines, n + 1)
  BY <1>9, <1>10, <1>13, <1>17, <1>18 DEF MaskedTo
<1> QED
  BY <1>2, <1>19, Zenon

\* What is legible in these texts is said by lines of a file outside of these places.
Open(texts, lines, hidden) ==
  \A t \in texts : t > 0 => \E n \in DOMAIN lines : n \notin hidden /\ t = lines[n].says

\* mask_lines: every line is there, and what it may not say is masked.
LEMMA MaskedLines ==
  ASSUME NEW index, NEW file, NEW lines, IsList(lines), \A line \in Range(lines) : IsLine(line),
         NEW m, m = MaskLines(index, file, lines),
         NEW hidden,
         \A n \in hidden : n \in DOMAIN lines => IsSensitive(index, file, n, lines[n]) \/ InBlock(lines, n)
  PROVE  Open({line.says : line \in Range(m)}, lines, hidden)
<1>1. PICK s, N : s = PlacesOf(lines) /\ N = Len(lines)
  BY Zenon
<1>2. N \in Nat /\ DOMAIN lines = 1..N /\ \A i \in 1..N : lines[i] \in Range(lines)
  BY <1>1, ListElements, Zenon
<1>3. s = [i \in 1..N |-> i]
  BY <1>1, <1>2, Zenon DEF PlacesOf
<1>4. Len(s) = N /\ \A i \in 1..N : s[i] = i
  BY <1>2, <1>3
<1>5. PICK h : MaskRun(h, index, file, lines, s)
  BY <1>2, <1>4, MaskTrace, Zenon
<1> DEFINE T == {n \in 0..N : MaskedTo(h[n], index, file, lines, n)}
<1>6. 0 \in T
  <2>1. h[0] = Unmasked
    BY <1>5, Zenon DEF MaskRun
  <2>2. Unmasked.masked = <<>> /\ Unmasked.block = 0
    BY DEF Unmasked
  <2>3. MaskedTo(h[0], index, file, lines, 0)
    BY <2>1, <2>2, EmptyIsList DEF MaskedTo
  <2> QED
    BY <1>2, <2>3
<1>7. ASSUME NEW n \in 0..(N - 1), n \in T PROVE n + 1 \in T
  <2>1. n \in Nat /\ n + 1 \in 1..N /\ n + 1 \in 0..N /\ n + 1 - 1 = n
    BY <1>2
  <2>2. PICK b : b = h[n]
    BY Zenon
  <2>3. MaskedTo(b, index, file, lines, n)
    BY <1>7, <2>2
  <2>6. PICK k : k = n + 1
    BY Zenon
  <2>7. k \in 1..Len(s) /\ s[k] = k /\ k - 1 = n
    BY <1>4, <2>1, <2>6
  <2>8. h[k] = MaskNext(index, file, lines, h[k - 1], s[k])
    BY <1>5, <2>7, Zenon DEF MaskRun
  <2>4. h[n + 1] = MaskNext(index, file, lines, b, n + 1)
    BY <2>2, <2>6, <2>7, <2>8
  <2>5. MaskedTo(MaskNext(index, file, lines, b, n + 1), index, file, lines, n + 1)
    BY <2>1, <2>3, NextMasked, Zenon
  <2> QED
    BY <2>1, <2>4, <2>5
<1>8. \A k \in 0..N : k \in T
  <2> HIDE DEF T
  <2> QED
    BY <1>2, <1>6, <1>7, UpTo
<1>9. MaskedTo(h[N], index, file, lines, N)
  BY <1>2, <1>8
<1>10. m = h[N].masked
  <2>1. h[N] = MaskedAfter(index, file, lines, s)
    BY <1>4, <1>5, Zenon DEF MaskRun
  <2>2. MaskLines(index, file, lines) = MaskedAfter(index, file, lines, s).masked
    BY <1>1 DEF MaskLines, MaskedAfter, Unmasked
  <2> QED
    BY <2>1, <2>2, Zenon
<1>11. /\ IsList(m) /\ Len(m) = N
       /\ \A i \in 1..N :
            \/ m[i] = Masked(lines[i])
            \/ m[i] = lines[i] /\ ~ IsSensitive(index, file, i, lines[i]) /\ ~ InBlock(lines, i)
  BY <1>9, <1>10, Zenon DEF MaskedTo
<1> SUFFICES ASSUME NEW line \in Range(m), line.says > 0
             PROVE  \E n \in DOMAIN lines : n \notin hidden /\ line.says = lines[n].says
  BY DEF Open
<1>12. PICK i \in 1..N : m[i] = line
  BY <1>11, InRange, Zenon
<1>13. IsLine(lines[i])
  BY <1>2, Zenon
<1>14. line # Masked(lines[i])
  <2>1. PICK l : l = lines[i]
    BY Zenon
  <2>2. DOMAIN l = {"says", "size", "secret", "key"} /\ l.says \in Nat
    BY <1>13, <2>1, Zenon DEF IsLine
  <2>3. Masked(l).says = -l.says
    BY <2>2 DEF Masked
  <2>4. ~ (Masked(l).says > 0)
    BY <2>2, <2>3
  <2> QED
    BY <2>1, <2>4
<1>15. line = lines[i] /\ i \notin hidden
  BY <1>2, <1>11, <1>12, <1>14, Zenon
<1> QED
  BY <1>2, <1>15

-----------------------------------------------------------------------------
(* What findings show of code, from stage to stage.                        *)

\* A finding shows of its file only what is allowed of that file.
Decent(x, allowed) ==
  /\ DOMAIN x = Fields
  /\ \/ x.evidence = {}
     \/ x.file \in DOMAIN allowed /\ \A t \in x.evidence : t > 0 => t \in allowed[x.file]

DecentList(s, allowed) == IsList(s) /\ \A x \in Range(s) : Decent(x, allowed)

\* g shows of the same file what f shows.
ShowsAs(g, f) == DOMAIN g = Fields /\ g.file = f.file /\ g.evidence = f.evidence

\* Judging, combining and verifying change nothing of what a finding shows.
LEMMA ChangeShows ==
  ASSUME NEW f, DOMAIN f = Fields
  PROVE  /\ ShowsAs(f, f)
         /\ \A judged, I : ShowsAs(Judge(f, judged, I), f)
         /\ \A new : ShowsAs(Combine(f, new), f)
         /\ ShowsAs(NotVerified(f), f)
         /\ \A answer, p : ShowsAs(ApplyVerdict(f, answer, p), f)
<1>1. ASSUME NEW c, NEW v, NEW s, NEW n, NEW x
      PROVE  /\ ShowsAs([f EXCEPT !.sources = s, !.confidence = c], f)
             /\ ShowsAs([f EXCEPT !.sources = s, !.confidence = c, !.severity = v], f)
             /\ ShowsAs([f EXCEPT !.status = s, !.note = n], f)
             /\ ShowsAs([f EXCEPT !.verified = x, !.severity = v, !.confidence = c], f)
             /\ ShowsAs([f EXCEPT !.note = n], f)
             /\ ShowsAs([f EXCEPT !.severity = v, !.note = n], f)
  BY DEF ShowsAs, Fields
<1>2. \A g, h : ShowsAs(g, f) /\ ShowsAs(h, g) => ShowsAs(h, f)
  BY DEF ShowsAs
<1>3. ASSUME NEW g, ShowsAs(g, f), NEW v, NEW n
      PROVE  /\ ShowsAs([g EXCEPT !.note = n], f)
             /\ ShowsAs([g EXCEPT !.severity = v, !.note = n], f)
             /\ ShowsAs([g EXCEPT !.status = v, !.note = n], f)
  BY <1>3 DEF ShowsAs, Fields
<1>4. ShowsAs(f, f)
  BY DEF ShowsAs
<1>5. ASSUME NEW judged, NEW I PROVE ShowsAs(Confirm(f, judged, I), f)
  <2> DEFINE adjusted == judged[FirstOf(I)].adjusted
             s == f.sources \cup {judged[i].by : i \in I}
             c == Larger(f.confidence, ConfirmedConfidence)
             g == [f EXCEPT !.sources = s, !.confidence = c]
  <2>1. Confirm(f, judged, I) =
          IF adjusted \in {NoSeverity, f.severity} THEN g
          ELSE IF adjusted < f.severity /\ Protected(f) THEN [g EXCEPT !.note = "noted"]
          ELSE [g EXCEPT !.severity = adjusted, !.note = "noted"]
    BY DEF Confirm
  <2> HIDE DEF adjusted, s, c
  <2>2. ShowsAs(g, f)
    BY <1>1
  <2> HIDE DEF g
  <2>3. ShowsAs([g EXCEPT !.note = "noted"], f)
    BY <1>3, <2>2
  <2>4. ShowsAs([g EXCEPT !.severity = adjusted, !.note = "noted"], f)
    BY <1>3, <2>2
  <2> QED
    BY <2>1, <2>2, <2>3, <2>4, Zenon
<1>6. ASSUME NEW judged, NEW I PROVE ShowsAs(Judge(f, judged, I), f)
  <2>1. ShowsAs(Confirm(f, judged, Saying(judged, I, "confirmed")), f)
    BY <1>5
  <2>2. ShowsAs(Dismiss(f), f)
    BY <1>1 DEF Dismiss
  <2>3. ShowsAs([f EXCEPT !.note = "noted"], f)
    BY <1>1
  <2> QED
    BY <1>4, <2>1, <2>2, <2>3 DEF Judge
<1>7. ASSUME NEW new PROVE ShowsAs(Combine(f, new), f)
  <2> DEFINE g == CombineDismissed(f, new)
  <2>1. ShowsAs(g, f)
    BY <1>1 DEF CombineDismissed
  <2> HIDE DEF g
  <2>2. ShowsAs([g EXCEPT !.status = "needs_review", !.note = "noted"], f)
    BY <1>3, <2>1
  <2> QED
    BY <2>1, <2>2 DEF Combine, g
<1>8. ShowsAs(NotVerified(f), f)
  BY <1>1 DEF NotVerified
<1>9. ASSUME NEW answer, NEW p PROVE ShowsAs(ApplyVerdict(f, answer, p), f)
  <2>1. CASE answer.verdict = "valid"
    <3> DEFINE x == f.verified \cup {p}
               v == IF answer.corrected = NoSeverity THEN f.severity ELSE answer.corrected
               c == Larger(f.confidence, answer.confidence)
    <3>1. ApplyVerdict(f, answer, p) = [f EXCEPT !.verified = x, !.severity = v, !.confidence = c]
      BY <2>1 DEF ApplyVerdict
    <3> HIDE DEF x, v, c
    <3>2. ShowsAs([f EXCEPT !.verified = x, !.severity = v, !.confidence = c], f)
      BY DEF ShowsAs, Fields
    <3> QED
      BY <3>1, <3>2, Zenon
  <2>2. CASE answer.verdict = "invalid"
    <3>1. ApplyVerdict(f, answer, p) = [f EXCEPT !.status = "needs_review", !.note = "disagreed"]
      BY <2>2 DEF ApplyVerdict
    <3>2. ShowsAs([f EXCEPT !.status = "needs_review", !.note = "disagreed"], f)
      BY <1>1
    <3> QED
      BY <3>1, <3>2, Zenon
  <2>3. CASE answer.verdict # "valid" /\ answer.verdict # "invalid"
    <3>1. ApplyVerdict(f, answer, p) = [f EXCEPT !.note = "noted"]
      BY <2>3 DEF ApplyVerdict
    <3> QED
      BY <1>1, <3>1
  <2> QED
    BY <2>1, <2>2, <2>3
<1> QED
  BY <1>4, <1>6, <1>7, <1>8, <1>9

\* So it is as decent as before.
LEMMA ShowsDecent ==
  ASSUME NEW allowed, NEW f, Decent(f, allowed), NEW g, ShowsAs(g, f)
  PROVE  Decent(g, allowed)
BY DEF Decent, ShowsAs

\* A list whose elements show what elements of a decent list show.
LEMMA DecentElements ==
  ASSUME NEW allowed, NEW N \in Nat, NEW t, t = [i \in 1..N |-> t[i]],
         \A i \in 1..N : Decent(t[i], allowed)
  PROVE  DecentList(t, allowed) /\ Len(t) = N
<1>1. IsList(t) /\ Len(t) = N
  BY ListByShape, Zenon
<1>2. \A x \in Range(t) : Decent(x, allowed)
  <2> TAKE x \in Range(t)
  <2>1. PICK i \in 1..Len(t) : t[i] = x
    BY <1>1, InRange, Zenon
  <2>2. i \in 1..N
    BY <1>1
  <2> QED
    BY <2>1, <2>2
<1> QED
  BY <1>1, <1>2 DEF DecentList

\* apply_judgements shows nothing new.
LEMMA JudgedDecent ==
  ASSUME NEW allowed, NEW s, DecentList(s, allowed), NEW judged
  PROVE  DecentList(ApplyJudgements(s, judged), allowed)
<1> DEFINE N == Len(s)
           t == ApplyJudgements(s, judged)
<1>1. IsList(s) /\ N \in Nat /\ DOMAIN s = 1..N
  BY ListElements, Zenon DEF DecentList
<1>2. /\ t = [i \in 1..N |-> t[i]]
      /\ \A i \in 1..N : t[i] = IF About(s[i], judged) = {} THEN s[i]
                                ELSE Judge(s[i], judged, About(s[i], judged))
  BY <1>1 DEF ApplyJudgements
<1> HIDE DEF t
<1>3. ASSUME NEW i \in 1..N PROVE Decent(t[i], allowed)
  <2>1. PICK x : x = s[i]
    BY Zenon
  <2>2. x \in Range(s)
    BY <1>1, <2>1, InRange, Zenon
  <2>3. Decent(x, allowed) /\ DOMAIN x = Fields
    BY <2>2, Zenon DEF DecentList, Decent
  <2>4. ShowsAs(x, x) /\ ShowsAs(Judge(x, judged, About(x, judged)), x)
    BY <2>3, ChangeShows, Zenon
  <2>5. ShowsAs(t[i], x)
    BY <1>2, <2>1, <2>4, Zenon
  <2> QED
    BY <2>3, <2>5, ShowsDecent, Zenon
<1>4. DecentList(t, allowed)
  BY <1>1, <1>2, <1>3, DecentElements, Zenon
<1> QED
  BY <1>4 DEF t

\* Nor does merge_findings, but what the new findings show.
LEMMA MergeOneDecent ==
  ASSUME NEW allowed, NEW s, DecentList(s, allowed), NEW x, Decent(x, allowed)
  PROVE  DecentList(MergeOne(s, x), allowed)
<1> DEFINE N == Len(s)
           same == {i \in DOMAIN s : SameIssue(s[i], x)}
<1>1. IsList(s) /\ N \in Nat /\ DOMAIN s = 1..N
  BY ListElements, Zenon DEF DecentList
<1>2. CASE same = {}
  <2>1. MergeOne(s, x) = Append(s, x)
    BY <1>2 DEF MergeOne
  <2>2. IsList(Append(s, x)) /\ Range(Append(s, x)) = Range(s) \cup {x}
    BY <1>1, AppendList
  <2> QED
    BY <2>1, <2>2 DEF DecentList
<1>3. CASE same # {}
  <2> DEFINE p == FirstOf(same)
             t == [s EXCEPT ![p] = Combine(s[p], x)]
  <2>1. MergeOne(s, x) = t
    BY <1>3 DEF MergeOne
  <2> HIDE DEF p
  <2>2. t = [i \in 1..N |-> t[i]] /\ \A i \in 1..N : t[i] = s[i] \/ t[i] = Combine(s[i], x)
    BY <1>1
  <2> HIDE DEF t
  <2>3. ASSUME NEW i \in 1..N PROVE Decent(t[i], allowed)
    <3>1. PICK y : y = s[i]
      BY Zenon
    <3>2. y \in Range(s)
      BY <1>1, <3>1, InRange, Zenon
    <3>3. Decent(y, allowed) /\ DOMAIN y = Fields
      BY <3>2, Zenon DEF DecentList, Decent
    <3>4. ShowsAs(y, y) /\ ShowsAs(Combine(y, x), y)
      BY <3>3, ChangeShows, Zenon
    <3>5. ShowsAs(t[i], y)
      BY <2>2, <3>1, <3>4, Zenon
    <3> QED
      BY <3>3, <3>5, ShowsDecent, Zenon
  <2>4. DecentList(t, allowed)
    BY <1>1, <2>2, <2>3, DecentElements, Zenon
  <2> QED
    BY <2>1, <2>4
<1> QED
  BY <1>2, <1>3

LEMMA MergedDecent ==
  ASSUME NEW allowed, NEW base, DecentList(base, allowed), NEW new, DecentList(new, allowed)
  PROVE  DecentList(MergeFindings(base, new), allowed)
<1> DEFINE N == Len(new)
<1>1. IsList(new) /\ N \in Nat /\ \A i \in 1..N : Decent(new[i], allowed)
  BY ListElements, Zenon DEF DecentList
<1>2. PICK h : MergeOneRun(h, base, new, N)
  BY <1>1, MergeOneTrace, Zenon
<1> DEFINE T == {n \in 0..N : DecentList(h[n], allowed)}
<1>3. 0 \in T
  BY <1>1, <1>2 DEF MergeOneRun
<1>4. ASSUME NEW n \in 0..(N - 1), n \in T PROVE n + 1 \in T
  <2>1. n + 1 \in 1..N /\ n + 1 \in 0..N /\ n + 1 - 1 = n
    BY <1>1
  <2> DEFINE b == h[n]
  <2>2. DecentList(b, allowed) /\ Decent(new[n + 1], allowed)
    BY <1>1, <1>4, <2>1
  <2>3. h[n + 1] = MergeOne(b, new[n + 1])
    BY <1>2, <2>1 DEF MergeOneRun
  <2> HIDE DEF b
  <2>4. DecentList(MergeOne(b, new[n + 1]), allowed)
    BY <2>2, MergeOneDecent, Zenon
  <2> QED
    BY <2>1, <2>3, <2>4
<1>5. \A k \in 0..N : k \in T
  <2> HIDE DEF T
  <2> QED
    BY <1>1, <1>3, <1>4, UpTo
<1>6. DecentList(h[N], allowed)
  BY <1>1, <1>5
<1>7. MergeFindings(base, new) = h[N]
  BY <1>2, Zenon DEF MergeFindings, MergeOneRun
<1> QED
  BY <1>6, <1>7

\* What verification leaves shows what it has found or what was there.
LEMMA UpdatedDecent ==
  ASSUME NEW allowed, NEW before, DecentList(before, allowed),
         NEW results, \A i \in DOMAIN results : Decent(results[i], allowed)
  PROVE  DecentList([i \in DOMAIN before |-> Updated(before[i], results)], allowed)
<1> DEFINE N == Len(before)
           t == [i \in DOMAIN before |-> Updated(before[i], results)]
<1>1. N \in Nat /\ DOMAIN before = 1..N /\ \A i \in 1..N : Decent(before[i], allowed)
  BY ListElements, Zenon DEF DecentList
<1>2. t = [i \in 1..N |-> t[i]] /\ \A i \in 1..N : t[i] = Updated(before[i], results)
  BY <1>1
<1> HIDE DEF t
<1>3. ASSUME NEW x, Decent(x, allowed) PROVE Decent(Updated(x, results), allowed)
  <2>1. CASE \E i \in DOMAIN results : results[i].id = x.id
    <3> DEFINE j == CHOOSE i \in DOMAIN results : results[i].id = x.id
    <3>1. j \in DOMAIN results
      BY <2>1, Zenon
    <3>2. Updated(x, results) = results[j]
      BY <2>1, Zenon DEF Updated
    <3> QED
      BY <3>1, <3>2, Zenon
  <2>2. CASE ~ \E i \in DOMAIN results : results[i].id = x.id
    BY <1>3, <2>2, Zenon DEF Updated
  <2> QED
    BY <2>1, <2>2
<1>4. ASSUME NEW i \in 1..N PROVE Decent(t[i], allowed)
  <2>1. PICK x : x = before[i]
    BY Zenon
  <2>2. Decent(x, allowed)
    BY <1>1, <2>1, Zenon
  <2>3. t[i] = Updated(x, results)
    BY <1>2, <2>1, Zenon
  <2> QED
    BY <1>3, <2>2, <2>3, Zenon
<1>5. N \in Nat /\ t = [i \in 1..N |-> t[i]]
  BY <1>1, <1>2, Zenon
<1> HIDE DEF N
<1>6. DecentList(t, allowed)
  BY <1>4, <1>5, DecentElements, Zenon
<1> QED
  BY <1>6 DEF t

\* Sorting shows nothing new.
LEMMA OrderedDecent ==
  ASSUME NEW allowed, NEW s, DecentList(s, allowed), \A x \in Range(s) : WellFormed(x)
  PROVE  DecentList(Ordered(s), allowed)
<1>1. IsList(s) /\ \A i \in 1..Len(s) : WellFormed(s[i])
  BY ListElements, Zenon DEF DecentList
<1>2. IsList(Ordered(s)) /\ \A x \in Range(Ordered(s)) : x \in Range(s)
  BY <1>1, OrderedElements, Zenon
<1> QED
  BY <1>2, Zenon DEF DecentList

\* review_chunk: an accepted issue quotes lines of the chunk's file as they were shown.
LEMMA ReviewDecent ==
  ASSUME NEW answer, AnswerOf(answer), NEW i, NEW task, NEW c, c.file \in Int,
         NEW code, NEW shown, NEW p \in Models,
         NEW allowed, c.file \in DOMAIN allowed,
         \A n \in DOMAIN code : code[n].says > 0 => code[n].says \in allowed[c.file]
  PROVE  \A x \in Range(ReviewOf(answer, i, task, c, code, shown, p).findings) : Decent(x, allowed)
<1> DEFINE kept == IssuesOf(answer.issues, task, c, code)
           fs == [n \in DOMAIN kept |-> ToFinding(kept[n], <<"ai", i, n>>, c.file, p)]
           r == ReviewOf(answer, i, task, c, code, shown, p)
<1>1. r.findings = fs
  BY DEF ReviewOf, IssuesOf
<1>2. /\ IsList(answer.issues)
      /\ \A k \in 1..Len(answer.issues) :
           /\ IsList(answer.issues[k].evidence)
           /\ \A line \in Range(answer.issues[k].evidence) : line.size = 0 => line.says = 0
  BY Zenon DEF AnswerOf
<1>3. /\ IsList(kept)
      /\ \A y \in Range(kept) : \E k \in 1..Len(answer.issues) :
           answer.issues[k] = y /\ Accepts(y, task, c, code)
  BY <1>2, KeptIssues
<1> HIDE DEF kept, r
<1>4. \A x \in Range(fs) : \E n \in DOMAIN kept : x = ToFinding(kept[n], <<"ai", i, n>>, c.file, p)
  BY DEF Range
<1> SUFFICES ASSUME NEW x \in Range(fs) PROVE Decent(x, allowed)
  BY <1>1 DEF r
<1>5. PICK n \in DOMAIN kept : x = ToFinding(kept[n], <<"ai", i, n>>, c.file, p)
  BY <1>4
<1> HIDE DEF fs
<1>6. PICK issue : issue = kept[n]
  BY Zenon
<1>7. issue \in Range(kept)
  BY <1>6 DEF Range
<1>8. PICK k \in 1..Len(answer.issues) : answer.issues[k] = issue /\ Accepts(issue, task, c, code)
  BY <1>3, <1>7
<1> DEFINE quoted == Quoted(issue.evidence)
<1>9. /\ DOMAIN x = Fields /\ x.file = c.file
      /\ x.evidence = {line.says : line \in Range(quoted)}
  BY <1>5, <1>6 DEF ToFinding, Fields
<1>10. \A j \in DOMAIN quoted :
         quoted[j].size = 0 \/ \E m \in DOMAIN code : code[m] = quoted[j]
  BY <1>8 DEF Accepts, Grounded
<1>11. \A line \in Range(quoted) : line \in Range(issue.evidence)
  <2>1. PICK e : e = issue.evidence
    BY Zenon
  <2>2. IsList(e)
    BY <1>2, <1>8, <2>1, Zenon
  <2>3. Len(e) \in Nat /\ quoted = SubSeq(e, 1, Smaller(MaxEvidenceLines, Len(e)))
    BY <2>1, <2>2, ListElements DEF Quoted, FirstN
  <2>4. PICK m : m = Smaller(MaxEvidenceLines, Len(e))
    BY Zenon
  <2>5. m \in 0..Len(e)
    BY <2>3, <2>4 DEF Smaller, MaxEvidenceLines
  <2>6. quoted = SubSeq(e, 1, m)
    BY <2>3, <2>4
  <2> HIDE DEF quoted
  <2>7. \A line \in Range(quoted) : line \in Range(e)
    <3> TAKE line \in Range(quoted)
    <3>1. m \in Nat /\ m <= Len(e)
      BY <2>3, <2>5
    <3>2. IsList(quoted) /\ Len(quoted) = m /\ \A j \in 1..m : quoted[j] = e[j]
      BY <2>2, <2>6, <3>1, PrefixList
    <3>3. PICK j \in 1..m : quoted[j] = line
      BY <3>2, InRange
    <3>4. j \in 1..Len(e)
      BY <2>3, <2>5
    <3> QED
      BY <2>2, <3>2, <3>3, <3>4, InRange, Zenon
  <2> QED
    BY <2>1, <2>7
<1>12. ASSUME NEW line \in Range(quoted), line.says > 0 PROVE line.says \in allowed[c.file]
  <2>1. PICK j \in DOMAIN quoted : quoted[j] = line
    BY DEF Range
  <2>2. line.size # 0
    BY <1>2, <1>8, <1>11, <1>12
  <2>3. PICK m \in DOMAIN code : code[m] = line
    BY <1>10, <2>1, <2>2
  <2> QED
    BY <1>12, <2>3
<1> QED
  BY <1>9, <1>12 DEF Decent

\* What all requests found is decent if what each found is.
LEMMA AllDecent ==
  ASSUME NEW files, NEW results, ReviewResults(results, files), NEW allowed,
         \A i \in DOMAIN results : \A x \in Range(results[i].findings) : Decent(x, allowed)
  PROVE  DecentList(AiFindings(results), allowed)
<1> DEFINE N == Len(results)
           fs == [i \in DOMAIN results |-> results[i].findings]
<1>1. N \in Nat /\ DOMAIN results = 1..N
  BY ListElements, Zenon DEF ReviewResults
<1>2. \A i \in 1..N : IsList(results[i].findings)
  BY DEF ReviewResults, ReviewResult
<1>3. fs = [i \in 1..N |-> fs[i]] /\ \A i \in 1..N : fs[i] = results[i].findings
  BY <1>1
<1>4. AiFindings(results) = FlattenSeq(fs)
  BY DEF AiFindings
<1> HIDE DEF fs
<1>5. IsList(fs) /\ Len(fs) = N
  BY <1>1, <1>3, ListByShape, Zenon
<1>6. \A i \in 1..Len(fs) : IsList(fs[i])
  BY <1>2, <1>3, <1>5
<1>7. /\ IsList(FlattenSeq(fs))
      /\ \A x : x \in Range(FlattenSeq(fs)) => \E i \in 1..Len(fs) : x \in Range(fs[i])
  BY <1>5, <1>6, Flattened, Zenon
<1>8. ASSUME NEW x \in Range(FlattenSeq(fs)) PROVE Decent(x, allowed)
  <2>1. PICK i \in 1..N : x \in Range(fs[i])
    BY <1>5, <1>7
  <2> QED
    BY <1>1, <1>3, <2>1
<1> QED
  BY <1>4, <1>7, <1>8 DEF DecentList

=============================================================================

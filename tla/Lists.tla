------------------------------- MODULE Lists -------------------------------
(***************************************************************************)
(* What the modules about data say of lists and of ranges of lines         *)
(* (app/preprocess/models.py).  A range is a record of its first and last  *)
(* line; any other record with these two fields serves as one.             *)
(***************************************************************************)
EXTENDS Integers, FiniteSetsExt, SequencesExt

Larger(m, n) == IF m < n THEN n ELSE m
Smaller(m, n) == IF m < n THEN m ELSE n
FirstOf(I) == CHOOSE i \in I : \A j \in I : i <= j

\* A list, whatever its elements are.
IsList(s) == s \in Seq(Range(s))

\* s[:n]
FirstN(s, n) == SubSeq(s, 1, Smaller(n, Len(s)))

\* The places of a sequence, as a sequence.
PlacesOf(s) == [i \in DOMAIN s |-> i]

\* The sum of the values of a function.
TotalOf(f) == MapThenSumSet(LAMBDA x : f[x], DOMAIN f)

\* Op(x), with x bound and looked at, so that it is computed once and as a whole.
Of(x, Op(_)) == CHOOSE y \in {Op(z) : z \in {z \in {x} : z = z}} : TRUE

\* The elements of a sequence at these places, in this order.
AtPlaces(s, places) == Of(places, LAMBDA p : [n \in DOMAIN p |-> s[p[n]]])

\* FoldLeft, with every intermediate value bound, so that it is computed once.
FoldedOver(Op(_, _), base, s) ==
  LET after[n \in 0..Len(s)] ==
        IF n = 0 THEN base
        ELSE CHOOSE y \in {Op(x, s[n]) : x \in {after[n - 1]}} : TRUE
  IN  after[Len(s)]

\* Op applied n times, to x first.
Repeated(Op(_), x, n) == FoldedOver(LAMBDA y, i : Op(y), x, [i \in 1..n |-> i])

\* The members of I in the order of a relation, a strict total order on them: each has
\* as many others before it as its place says.
Ranked(I, before) ==
  LET Behind(J) == [i \in J |-> Cardinality({j \in J : <<j, i>> \in before})]
      Places(behind) ==
        [n \in 1..Cardinality(DOMAIN behind) |-> CHOOSE i \in DOMAIN behind : behind[i] = n - 1]
  IN  Of(Of(I, Behind), Places)

Arranged(I, Before(_, _)) ==
  Of(I, LAMBDA J :
    Of({p \in J \X J : Before(p[1], p[2])}, LAMBDA before : Ranked(J, before)))

\* The elements of s that pass a test, in their order.
Kept(s, Test(_)) ==
  Of(s, LAMBDA t : AtPlaces(t, Arranged({i \in DOMAIN t : Test(t[i])}, <)))

-----------------------------------------------------------------------------

Lines(first, last) == [first |-> first, last |-> last]
Length(r) == r.last - r.first + 1
Overlap(a, b) == a.first <= b.last /\ b.first <= a.last

\* The lines of a that are in b: a sequence of at most one range.
Common(a, b) ==
  IF Overlap(a, b) THEN <<Lines(Larger(a.first, b.first), Smaller(a.last, b.last))>> ELSE <<>>

\* The parts of a outside b.
Outside(a, b) ==
  IF ~ Overlap(a, b) THEN <<a>>
  ELSE (IF a.first < b.first THEN <<Lines(a.first, b.first - 1)>> ELSE <<>>)
         \o (IF a.last > b.last THEN <<Lines(b.last + 1, a.last)>> ELSE <<>>)

\* merge_ranges: ranges that overlap or touch become one.
MergeRanges(ranges) ==
  LET Sooner(i, j) == \/ ranges[i].first < ranges[j].first
                      \/ ranges[i].first = ranges[j].first /\ i < j
      Joined(merged, r) ==
        IF merged = <<>> \/ r.first > Last(merged).last + 1 THEN Append(merged, r)
        ELSE Append(Front(merged), Lines(Last(merged).first, Larger(Last(merged).last, r.last)))
  IN  FoldedOver(Joined, <<>>, AtPlaces(ranges, Arranged(DOMAIN ranges, Sooner)))

=============================================================================

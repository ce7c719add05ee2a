---------------------------- MODULE Router_proofs ----------------------------
(***************************************************************************)
(* What Router guarantees for any providers, slots, requests and cache     *)
(* size, and that it keeps the promise of Failover.                        *)
(***************************************************************************)
EXTENDS Router, Queue_proofs, FiniteSetTheorems

-----------------------------------------------------------------------------
(* The inductive invariant.                                                *)

Stages == {"idle", "trying", "waiting", "queueing", "calling", "over"}
Outcomes == [end : {"none", "answer", "failed", "cancelled"},
             by : Enabled \cup {Nothing}, text : Texts \cup {Nothing}]
Semaphore == [free : Nat, waiters : Seq(Requests), handed : Nat]
Entry == [key : {k.key : k \in Kinds}, by : Enabled, text : Texts]

\* The types of what requests keep, and of what they share.
TasksType ==
  /\ asked \in [Requests -> Kinds \cup {Nothing}]
  /\ pc \in [Requests -> Stages]
  /\ at \in [Requests -> Nat]
  /\ records \in [Requests -> [Enabled -> Status]]
  /\ outcome \in [Requests -> Outcomes]
  /\ cost \in [Requests -> [Enabled -> Costs]]

SharedType ==
  /\ sem \in [Enabled -> Semaphore]
  /\ breaker \in [Enabled -> {"closed", "open", "half", "probing"}]
  /\ cache \in Seq(Entry) /\ Len(cache) <= MaxEntries
  /\ resting \subseteq Enabled

\* The positions of a kind's candidates, of which no two have the same name.
Candidates(k) == Later(k, 0)

UnderWay == {"trying", "waiting", "queueing", "calling"}

\* A request is at one of its candidates; it has a record of those before that one, and
\* of no other provider.
WellPlaced(r) ==
  /\ pc[r] = "idle" => /\ asked[r] = Nothing /\ at[r] = 0 /\ outcome[r] = NoOutcome
                       /\ \A p \in Enabled : records[r][p] = "none"
  /\ pc[r] # "idle" => asked[r] \in Kinds
  /\ pc[r] \in UnderWay =>
       /\ outcome[r] = NoOutcome
       /\ at[r] \in Candidates(asked[r])
       /\ \A p \in Enabled : records[r][p] # "none" <=>
            \E j \in Candidates(asked[r]) : j < at[r] /\ Name(asked[r], j) = p
  /\ pc[r] = "over" => outcome[r] # NoOutcome

PlaceInv == \A r \in Requests : WellPlaced(r)

\* A semaphore whose line has no slot to spare that nobody was told of.
Sane(s) ==
  /\ s \in Semaphore
  /\ s.handed <= Len(s.waiters)
  /\ IsInjective(s.waiters)
  /\ s.free > 0 /\ s.waiters # <<>> => s.handed > 0

Queueing(p) == {r \in Requests : pc[r] = "queueing" /\ At(r) = p}

SlotInv ==
  \A p \in Enabled :
    /\ Sane(sem[p])
    /\ ToSet(sem[p].waiters) = Queueing(p)
    /\ IsFiniteSet(Calling(p))
    /\ sem[p].free + sem[p].handed + Cardinality(Calling(p)) = Concurrency[p]

\* A cached answer is one that a request got.
Got(key, p, t) ==
  \E q \in Requests : asked[q] \in Kinds /\ asked[q].key = key /\ outcome[q] = AnswerOf(p, t)

CacheInv == \A i \in 1..Len(cache) : Got(cache[i].key, cache[i].by, cache[i].text)

\* The breaker of a paused provider lets nothing through.
RestInv == \A p \in resting : breaker[p] = "open"

IInv == /\ TasksType /\ SharedType /\ PlaceInv /\ CostsMatchRecords /\ SlotInv
        /\ CacheInv /\ RestInv

-----------------------------------------------------------------------------
(* Candidates.                                                             *)

LEMMA KindType ==
  ASSUME NEW k \in Kinds
  PROVE  /\ k.route \in Seq(Providers) /\ Len(k.route) \in Nat
         /\ \A i \in 1..Len(k.route) : k.route[i] \in Providers
         /\ \A i, j \in 1..Len(k.route) : k.route[i] = k.route[j] => i = j
         /\ k.accepts \subseteq Texts
         /\ Len(Names) \in Nat
         /\ \A i \in 1..Len(Names) : Names[i] \in Providers
         /\ \A i, j \in 1..Len(Names) : Names[i] = Names[j] => i = j
<1>1. /\ k.route \in Seq(Providers) /\ Names \in Seq(Providers)
      /\ \A i, j \in 1..Len(k.route) : k.route[i] = k.route[j] => i = j
      /\ \A i, j \in 1..Len(Names) : Names[i] = Names[j] => i = j
      /\ k.accepts \subseteq Texts
  BY RouterAssumption, Zenon
<1>2. /\ Len(k.route) \in Nat /\ Len(Names) \in Nat
      /\ \A i \in 1..Len(k.route) : k.route[i] \in Providers
      /\ \A i \in 1..Len(Names) : Names[i] \in Providers
  BY <1>1
<1> QED
  BY <1>1, <1>2

\* The candidates after a position are those of the whole order that come later.
LEMMA LaterCandidates ==
  ASSUME NEW k \in Kinds, NEW i \in Nat
  PROVE  \A j : j \in Later(k, i) <=> j \in Candidates(k) /\ i < j
BY KindType DEF Later, Candidates

\* No provider is a candidate twice.
LEMMA CandidatesDiffer ==
  ASSUME NEW k \in Kinds, NEW i \in Candidates(k), NEW j \in Candidates(k),
         Name(k, i) = Name(k, j)
  PROVE  i = j
<1>1. /\ i \in 1..(Len(k.route) + Len(Names)) /\ Listed(k, i)
      /\ j \in 1..(Len(k.route) + Len(Names)) /\ Listed(k, j)
      /\ Len(k.route) \in Nat /\ Len(Names) \in Nat
  BY KindType DEF Candidates, Later
<1>2. CASE i <= Len(k.route) /\ j <= Len(k.route)
  BY <1>1, <1>2, KindType DEF Name
<1>3. CASE i > Len(k.route) /\ j > Len(k.route)
  <2>1. /\ Names[i - Len(k.route)] = Names[j - Len(k.route)]
        /\ i - Len(k.route) \in 1..Len(Names) /\ j - Len(k.route) \in 1..Len(Names)
    BY <1>1, <1>3 DEF Name
  <2>2. i - Len(k.route) = j - Len(k.route)
    BY <2>1, KindType, Zenon
  <2> QED
    BY <1>1, <2>2
\* What is on the route counts there only.
<1>4. ASSUME NEW m \in {i, j}, NEW n \in {i, j}, m <= Len(k.route), n > Len(k.route)
      PROVE  FALSE
  <2>1. Name(k, m) = k.route[m] /\ m \in 1..Len(k.route)
    BY <1>1, <1>4 DEF Name
  <2>2. OnRoute(k, Name(k, n))
    BY <2>1 DEF OnRoute
  <2>3. ~ (n <= Len(k.route)) /\ Listed(k, n)
    BY <1>1, <1>4
  <2> QED
    BY <2>2, <2>3, Zenon DEF Listed
<1> QED
  BY <1>1, <1>2, <1>3, <1>4

\* The providers a kind offers itself to.
OfferedTo(k, p) ==
  /\ OnRoute(k, p) \/ (k.restricted /\ p \in k.only)
  /\ Permits(k, p)

LEMMA CandidatesAreOffered ==
  ASSUME NEW k \in Kinds, NEW p \in Enabled
  PROVE  OfferedTo(k, p) <=> \E j \in Candidates(k) : Name(k, j) = p
<1>1. Len(k.route) \in Nat /\ Len(Names) \in Nat
  BY KindType
<1>2. ASSUME NEW j \in Candidates(k), Name(k, j) = p
      PROVE  OfferedTo(k, p)
  <2>1. Listed(k, j) /\ MayServe(k, p) /\ j \in 1..(Len(k.route) + Len(Names))
    BY <1>2 DEF Candidates, Later
  <2>2. j <= Len(k.route) => OnRoute(k, p)
    BY <1>1, <1>2, <2>1 DEF OnRoute, Name
  <2> QED
    BY <1>2, <2>1, <2>2, Zenon DEF OfferedTo, Listed, MayServe
<1>3. ASSUME OfferedTo(k, p), OnRoute(k, p)
      PROVE  \E j \in Candidates(k) : Name(k, j) = p
  <2>1. PICK j \in 1..Len(k.route) : k.route[j] = p
    BY <1>3, Zenon DEF OnRoute
  <2>2. Name(k, j) = p /\ j \in (0 + 1)..(Len(k.route) + Len(Names)) /\ j <= Len(k.route)
    BY <1>1, <2>1 DEF Name
  <2>3. Listed(k, j) /\ MayServe(k, Name(k, j))
    BY <1>3, <2>2, Zenon DEF Listed, MayServe, OfferedTo
  <2> QED
    BY <2>2, <2>3, Zenon DEF Candidates, Later
<1>4. ASSUME OfferedTo(k, p), ~ OnRoute(k, p)
      PROVE  \E j \in Candidates(k) : Name(k, j) = p
  <2>1. PICK i \in 1..Len(Names) : Names[i] = p
    BY RouterAssumption DEF Providers
  <2> DEFINE j == Len(k.route) + i
  <2>2. /\ j \in (0 + 1)..(Len(k.route) + Len(Names)) /\ ~ (j <= Len(k.route))
        /\ j - Len(k.route) = i
    BY <1>1, <2>1
  <2> HIDE DEF j
  <2>3. Name(k, j) = p
    BY <2>1, <2>2, Zenon DEF Name
  <2>4. Listed(k, j) /\ MayServe(k, Name(k, j))
    BY <1>4, <2>2, <2>3, Zenon DEF Listed, MayServe, OfferedTo
  <2> QED
    BY <2>2, <2>3, <2>4, Zenon DEF Candidates, Later
<1> QED
  BY <1>2, <1>3, <1>4, Zenon

\* The next candidate is the first of those that are left.
LEMMA FirstIsNext ==
  ASSUME NEW k \in Kinds, NEW i \in Nat, Later(k, i) # {}
  PROVE  /\ First(Later(k, i)) \in Later(k, i)
         /\ \A j \in Later(k, i) : First(Later(k, i)) <= j
<1>1. Later(k, i) \in SUBSET Nat
  BY KindType DEF Later
<1>2. \E m \in Later(k, i) : \A j \in Later(k, i) : m <= j
  BY <1>1, LeastNatural
<1> QED
  BY <1>2, Zenon DEF First

-----------------------------------------------------------------------------
(* The semaphore: what its operations do to a sane one.                    *)

Total(s) == s.free + s.handed

\* Somebody leaves no slot idle while others are in line.
LEMMA WakeKeepsSlots ==
  ASSUME NEW s \in Semaphore, s.handed <= Len(s.waiters), IsInjective(s.waiters),
         NEW n \in Nat, n <= s.free,
         n = s.free \/ (n > 0 /\ (s.free > n /\ s.waiters # <<>> => s.handed > 0))
  PROVE  /\ Sane(Wake(s, n)) /\ Wake(s, n).waiters = s.waiters
         /\ Total(Wake(s, n)) = Total(s)
<1> DEFINE idle == Len(s.waiters) - s.handed
           count == IF n <= idle THEN n ELSE idle
           w == Wake(s, n)
<1>1. s.free \in Nat /\ s.handed \in Nat /\ s.waiters \in Seq(Requests) /\ Len(s.waiters) \in Nat
  BY DEF Semaphore
<1>2. w = [s EXCEPT !.free = @ - count, !.handed = @ + count]
  BY DEF Wake
<1>3. count \in Nat /\ count <= n /\ count <= idle /\ (count = n \/ count = idle)
  BY <1>1
<1> HIDE DEF count, w
<1>4. /\ w = [free |-> s.free - count, waiters |-> s.waiters, handed |-> s.handed + count]
      /\ w.free = s.free - count /\ w.waiters = s.waiters /\ w.handed = s.handed + count
  BY <1>2 DEF Semaphore
<1>5. w \in Semaphore
  BY <1>1, <1>3, <1>4 DEF Semaphore
<1>6. w.handed <= Len(w.waiters)
  BY <1>1, <1>3, <1>4
<1>7. s.waiters # <<>> => Len(s.waiters) > 0
  BY <1>1
<1>8. w.free > 0 /\ w.waiters # <<>> => w.handed > 0
  BY <1>1, <1>3, <1>4, <1>7
<1> QED
  BY <1>1, <1>3, <1>4, <1>5, <1>6, <1>8 DEF Sane, Total, w

LEMMA ReleaseKeepsSlots ==
  ASSUME NEW s, Sane(s)
  PROVE  /\ Sane(Release(s)) /\ Release(s).waiters = s.waiters
         /\ Total(Release(s)) = Total(s) + 1
<1> DEFINE t == [s EXCEPT !.free = @ + 1]
<1>1. /\ s \in Semaphore /\ s.handed <= Len(s.waiters) /\ IsInjective(s.waiters)
      /\ s.free > 0 /\ s.waiters # <<>> => s.handed > 0
      /\ s.free \in Nat /\ s.handed \in Nat
  BY DEF Sane, Semaphore
<1>2. /\ t \in Semaphore /\ t.free = s.free + 1
      /\ t.waiters = s.waiters /\ t.handed = s.handed
  BY <1>1 DEF Semaphore
<1>3. Release(s) = Wake(t, 1)
  BY DEF Release
<1> HIDE DEF t
<1>4. /\ t.free > 1 /\ t.waiters # <<>> => t.handed > 0
      /\ 1 <= t.free
      /\ Total(t) = Total(s) + 1
  BY <1>1, <1>2 DEF Total
<1>5. /\ Sane(Wake(t, 1)) /\ Wake(t, 1).waiters = t.waiters
      /\ Total(Wake(t, 1)) = Total(t)
  BY <1>1, <1>2, <1>4, WakeKeepsSlots
<1> QED
  BY <1>2, <1>3, <1>4, <1>5, Zenon

\* A task leaves the line, its slot in hand or not.
LEMMA OutOfLineKeepsOrder ==
  ASSUME NEW s, Sane(s), NEW r \in ToSet(s.waiters)
  PROVE  /\ OutOfLine(s, r) \in Semaphore
         /\ OutOfLine(s, r).free = s.free
         /\ OutOfLine(s, r).handed = IF Handed(s, r) THEN s.handed - 1 ELSE s.handed
         /\ OutOfLine(s, r).handed <= Len(OutOfLine(s, r).waiters)
         /\ IsInjective(OutOfLine(s, r).waiters)
         /\ ToSet(OutOfLine(s, r).waiters) = ToSet(s.waiters) \ {r}
<1>1. /\ s.free \in Nat /\ s.handed \in Nat /\ s.waiters \in Seq(Requests)
      /\ s.handed <= Len(s.waiters) /\ IsInjective(s.waiters) /\ Len(s.waiters) \in Nat
  BY DEF Sane, Semaphore
<1> DEFINE p == Place(s, r)
           o == OutOfLine(s, r)
<1>2. p \in 1..Len(s.waiters) /\ s.waiters[p] = r
  <2> DEFINE line == s.waiters
  <2>1. line \in Seq(Requests) /\ r \in ToSet(line)
    BY <1>1
  <2> HIDE DEF line
  <2>2. \E i \in 1..Len(line) : line[i] = r
    BY <2>1, InSequence
  <2> QED
    BY <2>2, Zenon DEF Place, line
<1>3. /\ o.free = s.free /\ o.waiters = RemoveAt(s.waiters, p)
      /\ o.handed = IF Handed(s, r) THEN s.handed - 1 ELSE s.handed
      /\ o = [free |-> o.free, waiters |-> o.waiters, handed |-> o.handed]
  BY DEF OutOfLine
<1> HIDE DEF p, o
<1>4. /\ o.waiters \in Seq(Requests) /\ IsInjective(o.waiters)
      /\ ToSet(o.waiters) = ToSet(s.waiters) \ {r}
  BY <1>1, <1>2, <1>3, RemoveAtElements
<1>5. Len(o.waiters) = Len(s.waiters) - 1
  BY <1>1, <1>2, <1>3, RemoveAtPlaces
<1>6. Handed(s, r) => s.handed > 0
  BY <1>1 DEF Handed
<1>7. ~ Handed(s, r) => s.handed < p
  BY <1>1, <1>2 DEF Handed
<1>8. o.handed \in Nat /\ o.handed <= Len(o.waiters)
  BY <1>1, <1>2, <1>3, <1>5, <1>6, <1>7
<1>9. o \in Semaphore
  BY <1>1, <1>3, <1>4, <1>8 DEF Semaphore
<1> QED
  BY <1>3, <1>4, <1>8, <1>9 DEF o

LEMMA ArriveKeepsSlots ==
  ASSUME NEW s, Sane(s), NEW r \in ToSet(s.waiters), Handed(s, r)
  PROVE  /\ Sane(Arrive(s, r)) /\ Total(Arrive(s, r)) = Total(s) - 1
         /\ ToSet(Arrive(s, r).waiters) = ToSet(s.waiters) \ {r}
<1> DEFINE o == OutOfLine(s, r)
<1>1. /\ o \in Semaphore /\ o.free = s.free /\ o.handed = s.handed - 1
      /\ o.handed <= Len(o.waiters) /\ IsInjective(o.waiters)
      /\ ToSet(o.waiters) = ToSet(s.waiters) \ {r}
      /\ s.free \in Nat /\ s.handed \in Nat
  BY OutOfLineKeepsOrder DEF Sane, Semaphore
<1>2. Arrive(s, r) = Wake(o, s.free)
  BY Zenon DEF Arrive
<1> HIDE DEF o
<1>3. /\ Sane(Wake(o, s.free)) /\ Wake(o, s.free).waiters = o.waiters
      /\ Total(Wake(o, s.free)) = Total(o)
  BY <1>1, WakeKeepsSlots
<1>4. Total(o) = Total(s) - 1
  BY <1>1 DEF Total
<1> QED
  BY <1>1, <1>2, <1>3, <1>4, Zenon

LEMMA LeaveKeepsSlots ==
  ASSUME NEW s, Sane(s), NEW r \in ToSet(s.waiters)
  PROVE  /\ Sane(Leave(s, r)) /\ Total(Leave(s, r)) = Total(s)
         /\ ToSet(Leave(s, r).waiters) = ToSet(s.waiters) \ {r}
<1> DEFINE free == IF Handed(s, r) THEN s.free + 1 ELSE s.free
           o == OutOfLine(s, r)
           f == [o EXCEPT !.free = free]
<1>1. /\ o \in Semaphore
      /\ o.handed = IF Handed(s, r) THEN s.handed - 1 ELSE s.handed
      /\ o.handed <= Len(o.waiters) /\ IsInjective(o.waiters)
      /\ ToSet(o.waiters) = ToSet(s.waiters) \ {r}
      /\ s.free \in Nat /\ s.handed \in Nat
  BY OutOfLineKeepsOrder DEF Sane, Semaphore
<1>2. Leave(s, r) = Wake(f, free)
  BY DEF Leave
<1> HIDE DEF o, free, f
<1>3. free \in Nat /\ free + o.handed = s.free + s.handed
  <2>1. \/ free = s.free + 1 /\ o.handed = s.handed - 1
        \/ free = s.free /\ o.handed = s.handed
    BY <1>1, Zenon DEF free
  <2>2. s.free \in Nat /\ s.handed \in Nat
    BY <1>1, Zenon
  <2> QED
    BY <2>1, <2>2
<1>4. f \in Semaphore /\ f.free = free /\ f.waiters = o.waiters /\ f.handed = o.handed
  BY <1>1, <1>3 DEF Semaphore, f
<1>5. /\ Sane(Wake(f, free)) /\ Wake(f, free).waiters = f.waiters
      /\ Total(Wake(f, free)) = Total(f)
  <2>1. f.handed <= Len(f.waiters) /\ IsInjective(f.waiters) /\ free <= f.free
    BY <1>1, <1>3, <1>4
  <2> QED
    BY <1>3, <1>4, <2>1, WakeKeepsSlots
<1>6. Total(f) = Total(s)
  BY <1>3, <1>4 DEF Total
<1> QED
  BY <1>1, <1>2, <1>4, <1>5, <1>6, Zenon

\* A newcomer lines up behind the others, who have been told of free slots.
LEMMA QueueKeepsSlots ==
  ASSUME NEW s, Sane(s), Locked(s), NEW r \in Requests, r \notin ToSet(s.waiters)
  PROVE  LET q == [s EXCEPT !.waiters = Append(@, r)] IN
         /\ Sane(q) /\ Total(q) = Total(s) /\ ToSet(q.waiters) = ToSet(s.waiters) \cup {r}
<1> DEFINE q == [s EXCEPT !.waiters = Append(@, r)]
           line == Append(s.waiters, r)
<1>1. /\ s.free \in Nat /\ s.handed \in Nat /\ s.waiters \in Seq(Requests)
      /\ s.handed <= Len(s.waiters) /\ IsInjective(s.waiters) /\ Len(s.waiters) \in Nat
      /\ s.free > 0 => s.handed > 0
  BY DEF Sane, Semaphore, Locked
<1>2. /\ line \in Seq(Requests) /\ Len(line) = Len(s.waiters) + 1
      /\ ToSet(line) = ToSet(s.waiters) \cup {r}
  BY <1>1, AppendElements
<1>3. IsInjective(line)
  BY <1>1, AppendDistinct
<1> HIDE DEF line
<1>4. q = [s EXCEPT !.waiters = line]
  BY DEF line
<1>5. q \in Semaphore /\ q.free = s.free /\ q.handed = s.handed /\ q.waiters = line
  BY <1>1, <1>2, <1>4 DEF Sane, Semaphore
<1> HIDE DEF q
<1>6. Sane(q)
  BY <1>1, <1>2, <1>3, <1>5 DEF Sane
<1>7. Total(q) = Total(s)
  BY <1>5 DEF Total
<1> QED
  BY <1>2, <1>5, <1>6, <1>7 DEF q

\* A slot that nobody waits for is taken.
LEMMA TakeKeepsSlots ==
  ASSUME NEW s, Sane(s), ~ Locked(s)
  PROVE  LET q == [s EXCEPT !.free = @ - 1] IN
         /\ Sane(q) /\ Total(q) = Total(s) - 1 /\ q.waiters = s.waiters
<1> DEFINE q == [s EXCEPT !.free = @ - 1]
<1>1. /\ s.free \in Nat /\ s.handed \in Nat /\ s.waiters \in Seq(Requests) /\ s.waiters = <<>>
      /\ s.handed <= Len(s.waiters) /\ IsInjective(s.waiters) /\ s.free # 0
  BY DEF Sane, Semaphore, Locked
<1>2. /\ q \in Semaphore /\ q.free = s.free - 1 /\ q.handed = s.handed /\ q.waiters = s.waiters
  <2>1. s.free - 1 \in Nat /\ s \in Semaphore
    BY <1>1 DEF Sane
  <2> QED
    BY <2>1 DEF Semaphore
<1> HIDE DEF q
<1>3. Sane(q) /\ Total(q) = Total(s) - 1
  BY <1>1, <1>2 DEF Sane, Total
<1> QED
  BY <1>2, <1>3 DEF q

-----------------------------------------------------------------------------
(* What a step of a request does to what is kept for it.                   *)

LEMMA Update ==
  ASSUME NEW T, NEW f \in [Requests -> T], NEW r \in Requests, NEW x \in T,
         NEW g, g = [f EXCEPT ![r] = x]
  PROVE  /\ g \in [Requests -> T] /\ g[r] = x
         /\ \A q \in Requests : q # r => g[q] = f[q]
OBVIOUS

OnlyTask(r) ==
  \A q \in Requests : q # r =>
    /\ asked'[q] = asked[q] /\ pc'[q] = pc[q] /\ at'[q] = at[q]
    /\ records'[q] = records[q] /\ outcome'[q] = outcome[q] /\ cost'[q] = cost[q]

SameTasks == UNCHANGED <<asked, pc, at, records, outcome, cost>>

\* The next candidate, if there is one.
Advanced(r, k) ==
  \/ /\ Later(k, at[r]) = {}
     /\ pc'[r] = "over" /\ at'[r] = at[r] /\ outcome'[r] = Failure
  \/ /\ pc'[r] = "trying" /\ outcome'[r] = outcome[r]
     /\ at'[r] \in Later(k, at[r]) /\ \A j \in Later(k, at[r]) : at'[r] <= j

\* The attempt at the provider r is at ends with this record and this count.
Recorded(r, status) ==
  /\ records'[r][At(r)] = status
  /\ \A p \in Enabled : p # At(r) => records'[r][p] = records[r][p]

Counted(r, c) ==
  /\ cost'[r][At(r)] = c
  /\ \A p \in Enabled : p # At(r) => cost'[r][p] = cost[r][p]

ServeMove(r, k) ==
  /\ pc[r] = "idle" /\ pc'[r] = "over"
  /\ asked'[r] = k /\ at'[r] = at[r] /\ records'[r] = records[r] /\ cost'[r] = cost[r]
  /\ \E i \in 1..Len(cache) : /\ Servable(k, cache[i])
                              /\ outcome'[r] = AnswerOf(cache[i].by, cache[i].text)

BeginMove(r, k) ==
  /\ pc[r] = "idle" /\ Advanced(r, k)
  /\ asked'[r] = k /\ records'[r] = records[r] /\ cost'[r] = cost[r]

WaitMove(r) ==
  /\ \/ pc[r] = "trying" /\ pc'[r] = "waiting" /\ Counted(r, "estimate")
     \/ pc[r] = "waiting" /\ pc'[r] \in {"queueing", "calling"} /\ cost'[r] = cost[r]
     \/ pc[r] = "queueing" /\ pc'[r] = "calling" /\ cost'[r] = cost[r]
  /\ pc'[r] = "calling" => Allows(At(r))
  /\ asked'[r] = asked[r] /\ at'[r] = at[r] /\ records'[r] = records[r]
  /\ outcome'[r] = outcome[r]

NextMove(r) ==
  /\ pc[r] \in UnderWay
  /\ Advanced(r, asked[r]) /\ asked'[r] = asked[r]
  /\ \/ pc[r] = "trying" /\ Recorded(r, "skipped") /\ cost'[r] = cost[r]
     \/ Recorded(r, "skipped") /\ Counted(r, "none")
     \/ /\ pc[r] = "calling" /\ cost'[r] = cost[r]
        /\ Recorded(r, "rejected") \/ Recorded(r, "unavailable")
     \/ Recorded(r, "refused") /\ Counted(r, "slot")

AnswerMove(r) ==
  /\ pc[r] = "calling" /\ pc'[r] = "over"
  /\ asked'[r] = asked[r] /\ at'[r] = at[r]
  /\ Recorded(r, "ok") /\ (Counted(r, "used") \/ Counted(r, "estimate"))
  /\ \E t \in asked[r].accepts : outcome'[r] = AnswerOf(At(r), t)

CancelMove(r) ==
  /\ pc[r] \in UnderWay /\ pc'[r] = "over" /\ outcome'[r] = Cancelled
  /\ asked'[r] = asked[r] /\ at'[r] = at[r] /\ records'[r] = records[r] /\ cost'[r] = cost[r]

TaskMove(r) ==
  /\ OnlyTask(r) /\ TasksType'
  /\ \/ \E k \in Kinds : ServeMove(r, k) \/ BeginMove(r, k)
     \/ WaitMove(r) \/ NextMove(r) \/ AnswerMove(r) \/ CancelMove(r)

LEMMA OutcomeTypes ==
  /\ NoOutcome \in Outcomes /\ Failure \in Outcomes /\ Cancelled \in Outcomes
  /\ \A p \in Enabled, t \in Texts : AnswerOf(p, t) \in Outcomes
  /\ Failure # NoOutcome /\ Cancelled # NoOutcome /\ Failure # Cancelled
  /\ \A p, t : AnswerOf(p, t) \notin {NoOutcome, Failure, Cancelled}
<1>1. /\ NoOutcome.end = "none" /\ Failure.end = "failed" /\ Cancelled.end = "cancelled"
      /\ \A p, t : AnswerOf(p, t).end = "answer"
  BY DEF NoOutcome, Failure, Cancelled, AnswerOf
<1>2. /\ NoOutcome \in Outcomes /\ Failure \in Outcomes /\ Cancelled \in Outcomes
      /\ \A p \in Enabled, t \in Texts : AnswerOf(p, t) \in Outcomes
  BY DEF NoOutcome, Failure, Cancelled, AnswerOf, Outcomes
<1> QED
  BY <1>1, <1>2

\* Where a request is while it is under way.
LEMMA AtCandidate ==
  ASSUME TasksType, PlaceInv, NEW r \in Requests, pc[r] \in UnderWay
  PROVE  /\ asked[r] \in Kinds /\ at[r] \in Candidates(asked[r]) /\ at[r] \in Nat
         /\ MayServe(asked[r], At(r)) /\ At(r) \in Enabled
         /\ outcome[r] = NoOutcome /\ records[r][At(r)] = "none"
<1>1. /\ asked[r] \in Kinds /\ at[r] \in Candidates(asked[r])
      /\ outcome[r] = NoOutcome
      /\ \A p \in Enabled : records[r][p] # "none" <=>
           \E j \in Candidates(asked[r]) : j < at[r] /\ Name(asked[r], j) = p
      /\ at[r] \in Nat
  BY DEF PlaceInv, WellPlaced, TasksType, UnderWay
<1>2. MayServe(asked[r], At(r)) /\ At(r) \in Enabled
  BY <1>1 DEF Candidates, Later, At, MayServe
<1>3. \A j \in Candidates(asked[r]) : Name(asked[r], j) = At(r) => j = at[r]
  BY <1>1, CandidatesDiffer, Zenon DEF At
<1>4. ~ (at[r] < at[r])
  BY <1>1
<1>5. records[r][At(r)] = "none"
  BY <1>1, <1>2, <1>3, <1>4, Zenon
<1> QED
  BY <1>1, <1>2, <1>5, Zenon

LEMMA NextCandidateEffect ==
  ASSUME TasksType, NEW r \in Requests, NEW k \in Kinds, NextCandidate(r, k)
  PROVE  /\ pc' \in [Requests -> Stages] /\ at' \in [Requests -> Nat]
         /\ outcome' \in [Requests -> Outcomes]
         /\ \A q \in Requests : q # r => /\ pc'[q] = pc[q] /\ at'[q] = at[q]
                                         /\ outcome'[q] = outcome[q]
         /\ Advanced(r, k)
<1>1. /\ pc \in [Requests -> Stages] /\ at \in [Requests -> Nat]
      /\ outcome \in [Requests -> Outcomes] /\ at[r] \in Nat
      /\ {"over", "trying"} \subseteq Stages
  BY DEF TasksType, Stages
<1>2. CASE Later(k, at[r]) = {}
  <2>1. /\ pc' = [pc EXCEPT ![r] = "over"] /\ outcome' = [outcome EXCEPT ![r] = Failure]
        /\ at' = at
    BY <1>2, Zenon DEF NextCandidate, End
  <2>2. /\ pc' \in [Requests -> Stages] /\ pc'[r] = "over"
        /\ \A q \in Requests : q # r => pc'[q] = pc[q]
    BY <1>1, <2>1
  <2>3. Failure \in Outcomes
    BY OutcomeTypes
  <2>4. /\ outcome' \in [Requests -> Outcomes] /\ outcome'[r] = Failure
        /\ \A q \in Requests : q # r => outcome'[q] = outcome[q]
    BY <1>1, <2>1, <2>3, Update
  <2> QED
    BY <1>1, <1>2, <2>1, <2>2, <2>4 DEF Advanced
<1>3. CASE Later(k, at[r]) # {}
  <2> DEFINE next == First(Later(k, at[r]))
  <2>1. /\ pc' = [pc EXCEPT ![r] = "trying"] /\ outcome' = outcome
        /\ at' = [at EXCEPT ![r] = next]
    BY <1>3 DEF NextCandidate
  <2>2. next \in Later(k, at[r]) /\ \A j \in Later(k, at[r]) : next <= j
    BY <1>1, <1>3, FirstIsNext
  <2>3. next \in Nat
    BY <1>1, <2>2, KindType DEF Later
  <2> HIDE DEF next
  <2>4. /\ pc' \in [Requests -> Stages] /\ pc'[r] = "trying"
        /\ \A q \in Requests : q # r => pc'[q] = pc[q]
    BY <1>1, <2>1
  <2>5. /\ at' \in [Requests -> Nat] /\ at'[r] = next
        /\ \A q \in Requests : q # r => at'[q] = at[q]
    BY <1>1, <2>1, <2>3
  <2> QED
    BY <1>1, <2>1, <2>2, <2>4, <2>5, Zenon DEF Advanced
<1> QED
  BY <1>2, <1>3, Zenon

LEMMA MoveOnEffect ==
  ASSUME TasksType, PlaceInv, NEW r \in Requests, pc[r] \in UnderWay,
         NEW status \in Status, MoveOn(r, status)
  PROVE  /\ asked' = asked /\ asked' \in [Requests -> Kinds \cup {Nothing}]
         /\ pc' \in [Requests -> Stages] /\ at' \in [Requests -> Nat]
         /\ records' \in [Requests -> [Enabled -> Status]]
         /\ outcome' \in [Requests -> Outcomes]
         /\ \A q \in Requests : q # r => /\ pc'[q] = pc[q] /\ at'[q] = at[q]
                                         /\ outcome'[q] = outcome[q]
                                         /\ records'[q] = records[q]
         /\ Advanced(r, asked[r]) /\ Recorded(r, status)
<1>1. asked[r] \in Kinds /\ At(r) \in Enabled
  BY AtCandidate, Zenon
<1>2. /\ records' = [records EXCEPT ![r][At(r)] = status]
      /\ NextCandidate(r, asked[r]) /\ asked' = asked
  BY Zenon DEF MoveOn
<1>3. /\ records \in [Requests -> [Enabled -> Status]]
      /\ asked \in [Requests -> Kinds \cup {Nothing}]
  BY Zenon DEF TasksType
<1>4. /\ records' \in [Requests -> [Enabled -> Status]]
      /\ \A q \in Requests : q # r => records'[q] = records[q]
      /\ Recorded(r, status)
  BY <1>1, <1>2, <1>3 DEF Recorded
<1> QED
  BY <1>1, <1>2, <1>3, <1>4, NextCandidateEffect, Zenon

LEMMA SetCostEffect ==
  ASSUME TasksType, NEW r \in Requests, At(r) \in Enabled, NEW c \in Costs, SetCost(r, c)
  PROVE  /\ cost' \in [Requests -> [Enabled -> Costs]]
         /\ \A q \in Requests : q # r => cost'[q] = cost[q]
         /\ Counted(r, c)
<1>1. cost \in [Requests -> [Enabled -> Costs]] /\ cost' = [cost EXCEPT ![r][At(r)] = c]
  BY Zenon DEF TasksType, SetCost
<1> QED
  BY <1>1 DEF Counted

LEMMA NextMoves ==
  ASSUME TasksType, PlaceInv, NEW r \in Requests, pc[r] \in UnderWay,
         \/ pc[r] = "trying" /\ MoveOn(r, "skipped") /\ cost' = cost
         \/ MoveOn(r, "skipped") /\ SetCost(r, "none")
         \/ pc[r] = "calling" /\ cost' = cost /\ (MoveOn(r, "rejected") \/ MoveOn(r, "unavailable"))
         \/ MoveOn(r, "refused") /\ SetCost(r, "slot")
  PROVE  TaskMove(r)
<1>1. At(r) \in Enabled /\ cost \in [Requests -> [Enabled -> Costs]]
  BY AtCandidate DEF TasksType
<1>2. {"none", "slot"} \subseteq Costs /\ {"skipped", "rejected", "unavailable", "refused"} \subseteq Status
  BY DEF Costs, Status
<1>3. PICK status \in {"skipped", "rejected", "unavailable", "refused"} : MoveOn(r, status)
  BY Zenon
<1>4. /\ OnlyTask(r) <=> \A q \in Requests : q # r => cost'[q] = cost[q]
      /\ TasksType' <=> cost' \in [Requests -> [Enabled -> Costs]]
      /\ asked' = asked /\ Advanced(r, asked[r])
  BY <1>2, <1>3, MoveOnEffect DEF OnlyTask, TasksType
<1>5. \A s \in Status : MoveOn(r, s) => Recorded(r, s)
  BY MoveOnEffect, Zenon
<1>6. /\ cost' = cost => (\A q \in Requests : q # r => cost'[q] = cost[q])
                         /\ cost' \in [Requests -> [Enabled -> Costs]] /\ cost'[r] = cost[r]
      /\ \A c \in Costs : SetCost(r, c) => /\ \A q \in Requests : q # r => cost'[q] = cost[q]
                                           /\ cost' \in [Requests -> [Enabled -> Costs]]
                                           /\ Counted(r, c)
  <2>1. cost' = cost => (\A q \in Requests : q # r => cost'[q] = cost[q])
                         /\ cost' \in [Requests -> [Enabled -> Costs]] /\ cost'[r] = cost[r]
    BY <1>1
  <2> QED
    BY <1>1, <2>1, SetCostEffect, Zenon
<1>7. OnlyTask(r) /\ TasksType'
  <2>1. cost' = cost \/ SetCost(r, "none") \/ SetCost(r, "slot")
    BY Zenon
  <2> QED
    BY <1>2, <1>4, <1>6, <2>1, Zenon
<1>8. asked'[r] = asked[r]
  BY <1>4
<1>9. NextMove(r)
  BY <1>2, <1>4, <1>5, <1>6, <1>8, Zenon DEF NextMove
<1> QED
  BY <1>7, <1>9, Zenon DEF TaskMove

LEMMA WaitMoves ==
  ASSUME TasksType, PlaceInv, NEW r \in Requests,
         UNCHANGED <<asked, at, records, outcome>>, NEW stage \in UnderWay,
         pc' = [pc EXCEPT ![r] = stage], stage = "calling" => Allows(At(r)),
         \/ pc[r] = "trying" /\ stage = "waiting" /\ SetCost(r, "estimate")
         \/ pc[r] = "waiting" /\ stage \in {"queueing", "calling"} /\ cost' = cost
         \/ pc[r] = "queueing" /\ stage = "calling" /\ cost' = cost
  PROVE  TaskMove(r)
<1>1. /\ asked' = asked /\ at' = at /\ records' = records /\ outcome' = outcome
      /\ pc \in [Requests -> Stages] /\ stage \in Stages
      /\ cost \in [Requests -> [Enabled -> Costs]] /\ "estimate" \in Costs
  BY DEF TasksType, Stages, UnderWay, Costs
<1>2. At(r) \in Enabled
  BY AtCandidate DEF UnderWay
<1>3. /\ pc' \in [Requests -> Stages] /\ pc'[r] = stage
      /\ \A q \in Requests : q # r => pc'[q] = pc[q]
  BY <1>1
<1>4. /\ cost' \in [Requests -> [Enabled -> Costs]]
      /\ \A q \in Requests : q # r => cost'[q] = cost[q]
  BY <1>1, <1>2, SetCostEffect
<1>5. SetCost(r, "estimate") => Counted(r, "estimate")
  BY <1>1, <1>2, SetCostEffect, Zenon
<1>6. OnlyTask(r) /\ TasksType'
  BY <1>1, <1>3, <1>4 DEF OnlyTask, TasksType
<1>7. WaitMove(r)
  BY <1>1, <1>3, <1>5 DEF WaitMove
<1> QED
  BY <1>6, <1>7, Zenon DEF TaskMove

LEMMA StartMoves ==
  ASSUME TasksType, SharedType, PlaceInv, NEW r \in Requests, NEW k \in Kinds,
         Serve(r, k) \/ Begin(r, k)
  PROVE  TaskMove(r)
<1>1. /\ pc[r] = "idle" /\ asked' = [asked EXCEPT ![r] = k]
      /\ records' = records /\ cost' = cost
  BY Zenon DEF Serve, Begin
<1>2. /\ asked \in [Requests -> Kinds \cup {Nothing}] /\ pc \in [Requests -> Stages]
      /\ outcome \in [Requests -> Outcomes] /\ at \in [Requests -> Nat]
      /\ records \in [Requests -> [Enabled -> Status]]
      /\ cost \in [Requests -> [Enabled -> Costs]]
  BY DEF TasksType
<1>3. /\ asked' \in [Requests -> Kinds \cup {Nothing}] /\ asked'[r] = k
      /\ \A q \in Requests : q # r => asked'[q] = asked[q]
  BY <1>1, <1>2
<1>4. records'[r] = records[r] /\ cost'[r] = cost[r]
  BY <1>1
<1>5. CASE Serve(r, k)
  <2>1. PICK i \in 1..Len(cache) : /\ Servable(k, cache[i])
                                   /\ End(r, AnswerOf(cache[i].by, cache[i].text))
    BY <1>5, Zenon DEF Serve
  <2> DEFINE answer == AnswerOf(cache[i].by, cache[i].text)
  <2>2. cache[i].by \in Enabled /\ cache[i].text \in Texts
    <3>1. cache \in Seq(Entry)
      BY Zenon DEF SharedType
    <3>2. cache[i] \in Entry
      BY <3>1
    <3> QED
      BY <3>2 DEF Entry
  <2>3. answer \in Outcomes
    BY <2>2, OutcomeTypes, Zenon
  <2>4. /\ pc' = [pc EXCEPT ![r] = "over"] /\ outcome' = [outcome EXCEPT ![r] = answer]
        /\ at' = at
    BY <2>1, Zenon DEF End
  <2> HIDE DEF answer
  <2>5. /\ pc' \in [Requests -> Stages] /\ pc'[r] = "over"
        /\ \A q \in Requests : q # r => pc'[q] = pc[q]
    BY <1>2, <2>4 DEF Stages
  <2>6. /\ outcome' \in [Requests -> Outcomes] /\ outcome'[r] = answer
        /\ \A q \in Requests : q # r => outcome'[q] = outcome[q]
    BY <1>2, <2>3, <2>4, Update
  <2>7. OnlyTask(r) /\ TasksType'
    BY <1>1, <1>2, <1>3, <2>4, <2>5, <2>6 DEF OnlyTask, TasksType
  <2>8. at'[r] = at[r]
    BY <2>4
  <2>9. ServeMove(r, k)
    BY <1>1, <1>3, <1>4, <2>1, <2>5, <2>6, <2>8, Zenon DEF ServeMove, answer
  <2> QED
    BY <2>7, <2>9, Zenon DEF TaskMove
<1>6. CASE Begin(r, k)
  <2>1. NextCandidate(r, k)
    BY <1>6, Zenon DEF Begin
  <2>2. /\ pc' \in [Requests -> Stages] /\ at' \in [Requests -> Nat]
        /\ outcome' \in [Requests -> Outcomes]
        /\ \A q \in Requests : q # r => /\ pc'[q] = pc[q] /\ at'[q] = at[q]
                                        /\ outcome'[q] = outcome[q]
        /\ Advanced(r, k)
    BY <2>1, NextCandidateEffect, Zenon
  <2>3. OnlyTask(r) /\ TasksType'
    BY <1>1, <1>2, <1>3, <2>2 DEF OnlyTask, TasksType
  <2>4. BeginMove(r, k)
    BY <1>1, <1>3, <1>4, <2>2, Zenon DEF BeginMove
  <2> QED
    BY <2>3, <2>4, Zenon DEF TaskMove
<1> QED
  BY <1>5, <1>6, Zenon

LEMMA EndMoves ==
  ASSUME TasksType, PlaceInv, NEW r \in Requests, Cancel(r) \/ \E t \in Texts : Answer(r, t)
  PROVE  TaskMove(r)
<1>1. /\ pc \in [Requests -> Stages] /\ outcome \in [Requests -> Outcomes]
      /\ records \in [Requests -> [Enabled -> Status]]
      /\ cost \in [Requests -> [Enabled -> Costs]]
      /\ asked' = asked /\ pc[r] \in UnderWay
  BY DEF TasksType, UnderWay, Cancel, Answer
<1>2. asked[r] \in Kinds /\ At(r) \in Enabled
  BY <1>1, AtCandidate, Zenon
<1>3. ASSUME NEW o \in Outcomes, End(r, o)
      PROVE  /\ pc' \in [Requests -> Stages] /\ outcome' \in [Requests -> Outcomes]
             /\ pc'[r] = "over" /\ outcome'[r] = o /\ at' = at
             /\ \A q \in Requests : q # r => pc'[q] = pc[q] /\ outcome'[q] = outcome[q]
  BY <1>1, <1>3 DEF End, Stages
<1>4. CASE Cancel(r)
  <2>1. End(r, Cancelled) /\ records' = records /\ cost' = cost
    BY <1>4, Zenon DEF Cancel
  <2>2. /\ pc' \in [Requests -> Stages] /\ outcome' \in [Requests -> Outcomes]
        /\ pc'[r] = "over" /\ outcome'[r] = Cancelled /\ at' = at
        /\ \A q \in Requests : q # r => pc'[q] = pc[q] /\ outcome'[q] = outcome[q]
    BY <1>3, <2>1, OutcomeTypes, Zenon
  <2>3. OnlyTask(r) /\ TasksType'
    BY <1>1, <2>1, <2>2 DEF OnlyTask, TasksType
  <2>4. CancelMove(r)
    BY <1>1, <2>1, <2>2 DEF CancelMove
  <2> QED
    BY <2>3, <2>4, Zenon DEF TaskMove
<1>5. ASSUME NEW t \in Texts, Answer(r, t)
      PROVE  TaskMove(r)
  <2>1. /\ t \in asked[r].accepts /\ pc[r] = "calling"
        /\ SetCost(r, "used") \/ SetCost(r, "estimate")
        /\ records' = [records EXCEPT ![r][At(r)] = "ok"]
        /\ End(r, AnswerOf(At(r), t))
    BY <1>5, Zenon DEF Answer
  <2>2. AnswerOf(At(r), t) \in Outcomes
    BY <1>2, OutcomeTypes, Zenon
  <2>3. /\ pc' \in [Requests -> Stages] /\ outcome' \in [Requests -> Outcomes]
        /\ pc'[r] = "over" /\ outcome'[r] = AnswerOf(At(r), t) /\ at' = at
        /\ \A q \in Requests : q # r => pc'[q] = pc[q] /\ outcome'[q] = outcome[q]
    BY <1>3, <2>1, <2>2, Zenon
  <2>4. "ok" \in Status /\ "used" \in Costs /\ "estimate" \in Costs
    BY DEF Status, Costs
  <2>5. /\ records' \in [Requests -> [Enabled -> Status]]
        /\ \A q \in Requests : q # r => records'[q] = records[q]
        /\ Recorded(r, "ok")
    BY <1>1, <1>2, <2>1, <2>4 DEF Recorded
  <2>6. /\ cost' \in [Requests -> [Enabled -> Costs]]
        /\ \A q \in Requests : q # r => cost'[q] = cost[q]
        /\ Counted(r, "used") \/ Counted(r, "estimate")
    BY <1>2, <2>1, <2>4, SetCostEffect, Zenon
  <2>7. OnlyTask(r) /\ TasksType'
    BY <1>1, <2>3, <2>5, <2>6 DEF OnlyTask, TasksType
  <2>8. asked'[r] = asked[r] /\ at'[r] = at[r]
    BY <1>1, <2>3
  <2>9. AnswerMove(r)
    BY <2>1, <2>3, <2>5, <2>6, <2>8, Zenon DEF AnswerMove
  <2> QED
    BY <2>7, <2>9, Zenon DEF TaskMove
<1> QED
  BY <1>4, <1>5, Zenon

\* What a request may do, and what merely happens at a provider.
Step(r) ==
  \/ \E k \in Kinds : Serve(r, k) \/ Begin(r, k)
  \/ Proceed(r)
  \/ Cancel(r)

TimePasses == \E p \in Enabled : PauseEnds(p) \/ ProbeLapses(p)

LEMMA NextSteps ==
  ASSUME [Next]_vars
  PROVE  TimePasses \/ UNCHANGED vars \/ \E r \in Requests : Step(r)
<1>1. \A r \in Requests : \A k \in Wants[r] : k \in Kinds
  BY RouterAssumption
<1> QED
  BY <1>1, Zenon DEF Next, Step, TimePasses

LEMMA StepMoves ==
  ASSUME TasksType, SharedType, PlaceInv, NEW r \in Requests, Step(r)
  PROVE  TaskMove(r)
<1>1. ASSUME NEW k \in Kinds, Serve(r, k) \/ Begin(r, k)
      PROVE  TaskMove(r)
  BY <1>1, StartMoves, Zenon
<1>2. ASSUME Skip(r) \/ GiveUp(r) \/ Reject(r) \/ Unavailable(r) \/ RefusedCall(r)
      PROVE  TaskMove(r)
  <2>1. pc[r] \in UnderWay
    BY <1>2 DEF UnderWay, Skip, GiveUp, Reject, Unavailable, RefusedCall
  <2> QED
    BY <1>2, <2>1, NextMoves, Zenon DEF Skip, GiveUp, Reject, Unavailable, RefusedCall
<1>3. ASSUME NEW s, Admission(r, s), pc[r] \in {"waiting", "queueing"}
      PROVE  TaskMove(r)
  <2>1. CASE Refused(r, s)
    <3>1. MoveOn(r, "skipped") /\ SetCost(r, "none") /\ pc[r] \in UnderWay
      BY <1>3, <2>1 DEF Refused, UnderWay
    <3> QED
      BY <3>1, NextMoves, Zenon
  <2>2. CASE /\ Allows(At(r)) /\ pc' = [pc EXCEPT ![r] = "calling"]
             /\ UNCHANGED <<asked, at, records, outcome, cost>>
    <3>1. /\ UNCHANGED <<asked, at, records, outcome>> /\ cost' = cost /\ "calling" \in UnderWay
      BY <2>2 DEF UnderWay
    <3> QED
      BY <1>3, <2>2, <3>1, WaitMoves
  <2> QED
    BY <1>3, <2>1, <2>2, Zenon DEF Admission
<1>4. ASSUME Reserve(r) \/ TakeSlot(r) \/ Queue(r) \/ Resume(r)
      PROVE  TaskMove(r)
  <2>1. CASE TakeSlot(r) \/ Resume(r)
    BY <1>3, <2>1 DEF TakeSlot, Resume
  <2>2. CASE Reserve(r)
    <3>1. /\ UNCHANGED <<asked, at, records, outcome>> /\ pc[r] = "trying"
          /\ SetCost(r, "estimate") /\ pc' = [pc EXCEPT ![r] = "waiting"]
          /\ "waiting" \in UnderWay
      BY <2>2 DEF Reserve, UnderWay
    <3> QED
      BY <3>1, WaitMoves
  <2>3. CASE Queue(r)
    <3>1. /\ UNCHANGED <<asked, at, records, outcome>> /\ pc[r] = "waiting"
          /\ cost' = cost /\ pc' = [pc EXCEPT ![r] = "queueing"]
          /\ "queueing" \in UnderWay
      BY <2>3 DEF Queue, UnderWay
    <3> QED
      BY <3>1, WaitMoves
  <2> QED
    BY <1>4, <2>1, <2>2, <2>3
<1> QED
  BY <1>1, <1>2, <1>4, EndMoves, Zenon DEF Step, Proceed, CallEnds

\* A step is a move of one request, or no request's.
LEMMA TaskMoves ==
  ASSUME TasksType, SharedType, PlaceInv, [Next]_vars
  PROVE  SameTasks \/ \E r \in Requests : TaskMove(r)
<1>1. TimePasses => SameTasks
  BY Zenon DEF TimePasses, PauseEnds, ProbeLapses, SameTasks
<1>2. UNCHANGED vars => SameTasks
  BY Zenon DEF vars, SameTasks
<1> QED
  BY <1>1, <1>2, NextSteps, StepMoves, Zenon

-----------------------------------------------------------------------------
(* Requests go from candidate to candidate.                                *)

LEMMA AdvancedIsWellPlaced ==
  ASSUME NEW r \in Requests, NEW k \in Kinds, at[r] \in Nat, Advanced(r, k), asked'[r] = k,
         outcome[r] = NoOutcome,
         \A p \in Enabled : records'[r][p] # "none" <=>
           \E j \in Candidates(k) : j <= at[r] /\ Name(k, j) = p
  PROVE  WellPlaced(r)'
<1>1. CASE pc'[r] = "over" /\ outcome'[r] = Failure
  BY <1>1, OutcomeTypes DEF WellPlaced, UnderWay
<1>2. CASE /\ pc'[r] = "trying" /\ outcome'[r] = outcome[r]
           /\ at'[r] \in Later(k, at[r]) /\ \A j \in Later(k, at[r]) : at'[r] <= j
  <2>1. at'[r] \in Candidates(k) /\ at[r] < at'[r]
    BY <1>2, LaterCandidates, Zenon
  <2>2. Candidates(k) \subseteq Nat
    BY KindType DEF Candidates, Later
  <2>3. ASSUME NEW j \in Candidates(k)
        PROVE  j < at'[r] <=> j <= at[r]
    <3>1. at[r] < j => at'[r] <= j
      BY <1>2, LaterCandidates, Zenon
    <3> QED
      BY <2>1, <2>2, <3>1
  <2>4. \A p \in Enabled : records'[r][p] # "none" <=>
          \E j \in Candidates(k) : j < at'[r] /\ Name(k, j) = p
    BY <2>3, Zenon
  <2>5. pc'[r] # "idle" /\ pc'[r] # "over"
    BY <1>2
  <2> QED
    BY <1>2, <2>1, <2>4, <2>5, Zenon DEF WellPlaced
<1> QED
  BY <1>1, <1>2, Zenon DEF Advanced

LEMMA PlaceStep ==
  ASSUME TasksType, SharedType, PlaceInv, [Next]_vars
  PROVE  PlaceInv'
<1>1. CASE SameTasks
  <2>1. /\ asked' = asked /\ pc' = pc /\ at' = at /\ records' = records /\ outcome' = outcome
    BY <1>1, Zenon DEF SameTasks
  <2> QED
    BY <2>1 DEF PlaceInv, WellPlaced
<1>2. ASSUME NEW r \in Requests, TaskMove(r)
      PROVE  PlaceInv'
  <2>1. ASSUME NEW q \in Requests, q # r
        PROVE  WellPlaced(q)'
    <3>1. /\ asked'[q] = asked[q] /\ pc'[q] = pc[q] /\ at'[q] = at[q]
          /\ records'[q] = records[q] /\ outcome'[q] = outcome[q]
      BY <1>2, <2>1, Zenon DEF TaskMove, OnlyTask
    <3>2. WellPlaced(q)
      BY Zenon DEF PlaceInv
    <3> QED
      BY <3>1, <3>2 DEF WellPlaced
  <2>2. WellPlaced(r) /\ at[r] \in Nat
    BY Zenon DEF PlaceInv, TasksType
  <2>3. ASSUME NEW k \in Kinds, ServeMove(r, k)
        PROVE  WellPlaced(r)'
    <3>1. pc'[r] = "over" /\ asked'[r] = k /\ \E p, t : outcome'[r] = AnswerOf(p, t)
      BY <2>3, Zenon DEF ServeMove
    <3> QED
      BY <3>1, OutcomeTypes DEF WellPlaced, UnderWay
  <2>4. ASSUME NEW k \in Kinds, BeginMove(r, k)
        PROVE  WellPlaced(r)'
    <3>1. /\ outcome[r] = NoOutcome /\ at[r] = 0 /\ asked'[r] = k /\ Advanced(r, k)
          /\ \A p \in Enabled : records'[r][p] = "none"
      BY <2>2, <2>4 DEF WellPlaced, BeginMove
    <3>2. \A j \in Candidates(k) : ~ (j <= 0)
      BY KindType DEF Candidates, Later
    <3>3. \A p \in Enabled : records'[r][p] # "none" <=>
            \E j \in Candidates(k) : j <= at[r] /\ Name(k, j) = p
      BY <3>1, <3>2
    <3> QED
      BY <2>2, <3>1, <3>3, AdvancedIsWellPlaced, Zenon
  <2>5. ASSUME WaitMove(r)
        PROVE  WellPlaced(r)'
    <3>1. /\ asked'[r] = asked[r] /\ at'[r] = at[r] /\ records'[r] = records[r]
          /\ outcome'[r] = outcome[r] /\ pc[r] \in UnderWay /\ pc'[r] \in UnderWay
      BY <2>5 DEF WaitMove, UnderWay
    <3>2. pc'[r] # "idle" /\ pc'[r] # "over" /\ pc[r] # "idle"
      BY <3>1 DEF UnderWay
    <3> QED
      BY <2>2, <3>1, <3>2 DEF WellPlaced
  <2>6. ASSUME NextMove(r)
        PROVE  WellPlaced(r)'
    <3> DEFINE k == asked[r]
    <3>1. /\ pc[r] \in UnderWay /\ Advanced(r, k) /\ asked'[r] = k
          /\ records'[r][At(r)] # "none"
          /\ \A p \in Enabled : p # At(r) => records'[r][p] = records[r][p]
      BY <2>6 DEF NextMove, Recorded
    <3>2. /\ k \in Kinds /\ at[r] \in Candidates(k) /\ outcome[r] = NoOutcome
          /\ At(r) = Name(k, at[r])
      BY <3>1, AtCandidate, Zenon DEF At
    <3>3. \A p \in Enabled : records[r][p] # "none" <=>
            \E j \in Candidates(k) : j < at[r] /\ Name(k, j) = p
      BY <2>2, <3>1, Zenon DEF WellPlaced
    <3> HIDE DEF k
    <3>4. Candidates(k) \subseteq Nat
      BY <3>2, KindType DEF Candidates, Later
    <3>5. ASSUME NEW p \in Enabled
          PROVE  records'[r][p] # "none" <=> \E j \in Candidates(k) : j <= at[r] /\ Name(k, j) = p
      <4>1. CASE p = At(r)
        <5>1. at[r] <= at[r]
          BY <2>2
        <5> QED
          BY <3>1, <3>2, <4>1, <5>1, Zenon
      <4>2. CASE p # At(r)
        <5>1. \A j \in Candidates(k) : Name(k, j) = p => (j < at[r] <=> j <= at[r])
          BY <2>2, <3>2, <3>4, <4>2
        <5> QED
          BY <3>1, <3>3, <4>2, <5>1, Zenon
      <4> QED
        BY <4>1, <4>2
    <3> QED
      BY <2>2, <3>1, <3>2, <3>5, AdvancedIsWellPlaced, Zenon
  <2>7. ASSUME AnswerMove(r) \/ CancelMove(r)
        PROVE  WellPlaced(r)'
    <3>1. /\ pc'[r] = "over" /\ asked'[r] = asked[r] /\ pc[r] # "idle"
          /\ outcome'[r] # NoOutcome
      BY <2>7, OutcomeTypes DEF AnswerMove, CancelMove, UnderWay
    <3> QED
      BY <2>2, <3>1 DEF WellPlaced, UnderWay
  <2> QED
    BY <1>2, <2>1, <2>3, <2>4, <2>5, <2>6, <2>7, Zenon DEF TaskMove, PlaceInv
<1> QED
  BY <1>1, <1>2, TaskMoves, Zenon

-----------------------------------------------------------------------------
(* Costs.                                                                  *)

\* CostsMatchRecords for one provider; here: the request is waiting for it or calls it.
CostFits(c, record, out, here) ==
  /\ record = "skipped" => c = "none"
  /\ record = "refused" => c = "slot"
  /\ record \in {"rejected", "unavailable"} => c = "estimate"
  /\ record = "ok" => c \in {"used", "estimate"}
  /\ record = "none" => IF out = Cancelled THEN c \in {"none", "estimate"}
                        ELSE IF here THEN c = "estimate" ELSE c = "none"

Here(r, p) == pc[r] \in {"waiting", "queueing", "calling"} /\ At(r) = p

LEMMA CostCases ==
  ASSUME TasksType
  PROVE  CostsMatchRecords <=>
           \A r \in Requests, p \in Enabled :
             CostFits(cost[r][p], records[r][p], outcome[r], Here(r, p))
<1>1. ASSUME NEW r \in Requests, NEW p \in Enabled
      PROVE  CostFits(cost[r][p], records[r][p], outcome[r], Here(r, p)) <=>
               cost[r][p] \in CASE records[r][p] = "skipped" -> {"none"}
                     [] records[r][p] = "refused" -> {"slot"}
                     [] records[r][p] \in {"rejected", "unavailable"} -> {"estimate"}
                     [] records[r][p] = "ok" -> {"used", "estimate"}
                     [] OTHER -> IF outcome[r] = Cancelled THEN {"none", "estimate"}
                                 ELSE IF pc[r] \in {"waiting", "queueing", "calling"} /\ At(r) = p
                                 THEN {"estimate"} ELSE {"none"}
  <2>1. records[r][p] \in Status
    BY DEF TasksType
  <2> QED
    BY <2>1 DEF CostFits, Here, Status
<1> QED
  BY <1>1, Zenon DEF CostsMatchRecords

LEMMA CostStep ==
  ASSUME TasksType, SharedType, PlaceInv, CostsMatchRecords, [Next]_vars
  PROVE  CostsMatchRecords'
<1>1. \A r \in Requests, p \in Enabled :
        CostFits(cost[r][p], records[r][p], outcome[r], Here(r, p))
  BY CostCases, Zenon
<1>2. CASE SameTasks
  <2>1. /\ asked' = asked /\ pc' = pc /\ at' = at /\ records' = records
        /\ outcome' = outcome /\ cost' = cost
    BY <1>2, Zenon DEF SameTasks
  <2> QED
    BY <2>1, Zenon DEF CostsMatchRecords, At
<1>3. ASSUME NEW r \in Requests, TaskMove(r)
      PROVE  CostsMatchRecords'
  <2>1. ASSUME NEW q \in Requests, q # r, NEW p \in Enabled
        PROVE  CostFits(cost'[q][p], records'[q][p], outcome'[q], Here(q, p)')
    <3>1. /\ asked'[q] = asked[q] /\ pc'[q] = pc[q] /\ at'[q] = at[q]
          /\ records'[q] = records[q] /\ outcome'[q] = outcome[q] /\ cost'[q] = cost[q]
      BY <1>3, <2>1, Zenon DEF TaskMove, OnlyTask
    <3>2. Here(q, p)' <=> Here(q, p)
      BY <3>1 DEF Here, At
    <3> QED
      BY <1>1, <3>1, <3>2 DEF CostFits
  <2>2. WellPlaced(r) /\ \A p \in Enabled : records[r][p] \in Status
    BY DEF PlaceInv, TasksType
  <2>3. ASSUME NEW k \in Kinds, ServeMove(r, k) \/ BeginMove(r, k), NEW p \in Enabled
        PROVE  CostFits(cost'[r][p], records'[r][p], outcome'[r], Here(r, p)')
    <3>1. /\ pc[r] = "idle" /\ pc'[r] \in {"over", "trying"}
          /\ cost'[r] = cost[r] /\ records'[r] = records[r]
          /\ outcome'[r] \in {Failure, outcome[r]} \/ \E n, t : outcome'[r] = AnswerOf(n, t)
      BY <2>3, Zenon DEF ServeMove, BeginMove, Advanced
    <3>2. records[r][p] = "none" /\ outcome[r] = NoOutcome
      BY <2>2, <3>1, Zenon DEF WellPlaced
    <3>3. outcome[r] # Cancelled /\ outcome'[r] # Cancelled
      BY <3>1, <3>2, OutcomeTypes
    <3>4. ~ Here(r, p) /\ ~ Here(r, p)'
      BY <3>1 DEF Here
    <3> QED
      BY <1>1, <3>1, <3>2, <3>3, <3>4 DEF CostFits
  <2>4. ASSUME WaitMove(r), NEW p \in Enabled
        PROVE  CostFits(cost'[r][p], records'[r][p], outcome'[r], Here(r, p)')
    <3>1. /\ records'[r] = records[r] /\ outcome'[r] = outcome[r] /\ At(r)' = At(r)
          /\ pc[r] \in UnderWay /\ pc'[r] \in {"waiting", "queueing", "calling"}
      BY <2>4 DEF WaitMove, UnderWay, At
    <3>2. outcome[r] # Cancelled /\ records[r][At(r)] = "none"
      BY <3>1, AtCandidate, OutcomeTypes
    <3>3. IF p = At(r) THEN cost'[r][p] = "estimate" ELSE cost'[r][p] = cost[r][p]
      <4>1. CASE Counted(r, "estimate")
        BY <4>1, Zenon DEF Counted
      <4>2. CASE pc[r] \in {"waiting", "queueing"} /\ cost'[r] = cost[r]
        BY <1>1, <3>2, <4>2 DEF CostFits, Here
      <4> QED
        BY <2>4, <4>1, <4>2 DEF WaitMove
    <3>4. Here(r, p)' <=> p = At(r)
      BY <3>1 DEF Here
    <3>5. Here(r, p) => p = At(r)
      BY DEF Here
    <3>6. CASE p = At(r)
      BY <3>1, <3>2, <3>3, <3>4, <3>6 DEF CostFits
    <3>7. CASE p # At(r)
      BY <1>1, <3>1, <3>2, <3>3, <3>4, <3>5, <3>7 DEF CostFits
    <3> QED
      BY <3>6, <3>7
  <2>5. ASSUME NextMove(r), NEW p \in Enabled
        PROVE  CostFits(cost'[r][p], records'[r][p], outcome'[r], Here(r, p)')
    <3>1. /\ pc[r] \in UnderWay /\ pc'[r] \in {"trying", "over"}
          /\ outcome'[r] \in {outcome[r], Failure}
      BY <2>5, Zenon DEF NextMove, Advanced
    <3>2. outcome[r] # Cancelled /\ outcome'[r] # Cancelled /\ records[r][At(r)] = "none"
      BY <3>1, AtCandidate, OutcomeTypes
    <3>3. ~ Here(r, p)' /\ (p # At(r) => ~ Here(r, p))
      BY <3>1 DEF Here
    <3>4. CASE p = At(r)
      <4>1. IF pc[r] = "trying" THEN cost[r][p] = "none" ELSE cost[r][p] = "estimate"
        BY <1>1, <3>1, <3>2, <3>4 DEF CostFits, Here, UnderWay
      <4>2. \/ records'[r][p] = "skipped" /\ cost'[r][p] = "none"
            \/ records'[r][p] \in {"rejected", "unavailable"} /\ cost'[r][p] = "estimate"
            \/ records'[r][p] = "refused" /\ cost'[r][p] = "slot"
        BY <2>5, <3>4, <4>1 DEF NextMove, Recorded, Counted
      <4> QED
        BY <4>2 DEF CostFits
    <3>5. CASE p # At(r)
      <4>1. records'[r][p] = records[r][p] /\ cost'[r][p] = cost[r][p]
        BY <2>5, <3>5 DEF NextMove, Recorded, Counted
      <4> QED
        BY <1>1, <3>2, <3>3, <3>5, <4>1 DEF CostFits
    <3> QED
      BY <3>4, <3>5
  <2>6. ASSUME AnswerMove(r), NEW p \in Enabled
        PROVE  CostFits(cost'[r][p], records'[r][p], outcome'[r], Here(r, p)')
    <3>1. /\ pc[r] \in UnderWay /\ pc'[r] = "over" /\ \E n, t : outcome'[r] = AnswerOf(n, t)
          /\ Recorded(r, "ok") /\ (Counted(r, "used") \/ Counted(r, "estimate"))
      BY <2>6 DEF AnswerMove, UnderWay
    <3>2. outcome[r] # Cancelled /\ outcome'[r] # Cancelled
      BY <3>1, AtCandidate, OutcomeTypes
    <3>3. ~ Here(r, p)' /\ (p # At(r) => ~ Here(r, p))
      BY <3>1 DEF Here
    <3>4. CASE p = At(r)
      BY <3>1, <3>4 DEF CostFits, Recorded, Counted
    <3>5. CASE p # At(r)
      <4>1. records'[r][p] = records[r][p] /\ cost'[r][p] = cost[r][p]
        BY <3>1, <3>5 DEF Recorded, Counted
      <4> QED
        BY <1>1, <3>2, <3>3, <3>5, <4>1 DEF CostFits
    <3> QED
      BY <3>4, <3>5
  <2>7. ASSUME CancelMove(r), NEW p \in Enabled
        PROVE  CostFits(cost'[r][p], records'[r][p], outcome'[r], Here(r, p)')
    <3>1. /\ pc[r] \in UnderWay /\ outcome'[r] = Cancelled
          /\ records'[r] = records[r] /\ cost'[r] = cost[r]
      BY <2>7, Zenon DEF CancelMove
    <3>2. outcome[r] # Cancelled
      BY <3>1, AtCandidate, OutcomeTypes
    <3>3. records[r][p] = "none" => cost[r][p] \in {"none", "estimate"}
      BY <1>1, <3>2 DEF CostFits
    <3> QED
      BY <1>1, <3>1, <3>3 DEF CostFits
  <2>8. \A q \in Requests, p \in Enabled :
          CostFits(cost'[q][p], records'[q][p], outcome'[q], Here(q, p)')
    BY <1>3, <2>1, <2>3, <2>4, <2>5, <2>6, <2>7, Zenon DEF TaskMove
  <2>9. TasksType'
    BY <1>3, Zenon DEF TaskMove
  <2>10. ASSUME NEW q \in Requests, NEW p \in Enabled
         PROVE  cost'[q][p] \in CASE records'[q][p] = "skipped" -> {"none"}
                  [] records'[q][p] = "refused" -> {"slot"}
                  [] records'[q][p] \in {"rejected", "unavailable"} -> {"estimate"}
                  [] records'[q][p] = "ok" -> {"used", "estimate"}
                  [] OTHER -> IF outcome'[q] = Cancelled THEN {"none", "estimate"}
                              ELSE IF pc'[q] \in {"waiting", "queueing", "calling"} /\ At(q)' = p
                              THEN {"estimate"} ELSE {"none"}
    <3>1. records'[q][p] \in Status
      BY <2>9 DEF TasksType
    <3> QED
      BY <2>8, <3>1 DEF CostFits, Here, Status
  <2> QED
    BY <2>10, Zenon DEF CostsMatchRecords
<1> QED
  BY <1>2, <1>3, TaskMoves, Zenon


-----------------------------------------------------------------------------
(* Slots.                                                                  *)

InUse(stage) == IF stage = "calling" THEN 1 ELSE 0

\* A step of r that touches no slot, and one that touches those of the provider it is at.
Slotless(r) ==
  /\ sem' = sem
  /\ {pc[r], pc'[r]} \cap {"queueing", "calling"} = {}

SlotMove(r) ==
  /\ sem' \in [Enabled -> Semaphore]
  /\ \A p \in Enabled : p # At(r) => sem'[p] = sem[p]
  /\ Sane(sem'[At(r)])
  /\ ToSet(sem'[At(r)].waiters) =
       IF pc'[r] = "queueing" THEN ToSet(sem[At(r)].waiters) \cup {r}
       ELSE ToSet(sem[At(r)].waiters) \ {r}
  /\ Total(sem'[At(r)]) + InUse(pc'[r]) = Total(sem[At(r)]) + InUse(pc[r])
  /\ pc'[r] \in {"queueing", "calling"} => At(r)' = At(r)

LEMMA SetSemEffect ==
  ASSUME SharedType, NEW p \in Enabled, NEW s, Sane(s), sem' = [sem EXCEPT ![p] = s]
  PROVE  /\ sem' \in [Enabled -> Semaphore] /\ sem'[p] = s
         /\ \A q \in Enabled : q # p => sem'[q] = sem[q]
<1>1. s \in Semaphore /\ sem \in [Enabled -> Semaphore]
  BY Zenon DEF Sane, SharedType
<1> QED
  BY <1>1

\* Who is in line, and where everybody calls, is clear of r unless it is there.
LEMMA AtSlots ==
  ASSUME TasksType, PlaceInv, SlotInv, NEW r \in Requests, pc[r] \in UnderWay
  PROVE  /\ At(r) \in Enabled /\ Sane(sem[At(r)])
         /\ r \in ToSet(sem[At(r)].waiters) <=> pc[r] = "queueing"
         /\ Total(sem[At(r)]) \in Nat
<1>1. At(r) \in Enabled
  BY AtCandidate
<1>2. Sane(sem[At(r)]) /\ ToSet(sem[At(r)].waiters) = Queueing(At(r))
  BY <1>1, Zenon DEF SlotInv
<1>3. r \in Queueing(At(r)) <=> pc[r] = "queueing"
  BY Zenon DEF Queueing
<1>4. Total(sem[At(r)]) \in Nat
  BY <1>2 DEF Sane, Semaphore, Total
<1> QED
  BY <1>1, <1>2, <1>3, <1>4, Zenon

\* An admission keeps the slots if r came to the slot it holds in s rightly.
LEMMA AdmissionKeepsSlots ==
  ASSUME TasksType, SharedType, PlaceInv, SlotInv, NEW r \in Requests,
         pc[r] \in {"waiting", "queueing"},
         NEW s, Sane(s), Total(s) = Total(sem[At(r)]) - 1,
         ToSet(s.waiters) = ToSet(sem[At(r)].waiters) \ {r},
         Admission(r, s)
  PROVE  SlotMove(r)
<1>1. /\ pc[r] \in UnderWay /\ InUse(pc[r]) = 0 /\ At(r) \in Enabled
      /\ Total(sem[At(r)]) \in Nat
  BY AtSlots DEF UnderWay, InUse
<1>2. CASE SetSem(At(r), s) /\ pc' = [pc EXCEPT ![r] = "calling"] /\ UNCHANGED <<asked, at>>
  <2>1. pc'[r] = "calling" /\ At(r)' = At(r) /\ InUse(pc'[r]) = 1
    BY <1>2 DEF TasksType, At, InUse
  <2>2. /\ sem' \in [Enabled -> Semaphore] /\ sem'[At(r)] = s
        /\ \A q \in Enabled : q # At(r) => sem'[q] = sem[q]
    BY <1>1, <1>2, SetSemEffect, Zenon DEF SetSem
  <2> QED
    BY <1>1, <2>1, <2>2 DEF SlotMove
<1>3. CASE Refused(r, s)
  <2>1. MoveOn(r, "skipped") /\ sem' = [sem EXCEPT ![At(r)] = Release(s)] /\ "skipped" \in Status
    BY <1>3 DEF Refused, SetSem, Status
  <2>2. pc'[r] \in {"trying", "over"}
    BY <1>1, <2>1, MoveOnEffect, Zenon DEF Advanced
  <2>3. pc'[r] \notin {"queueing", "calling"} /\ InUse(pc'[r]) = 0
    BY <2>2 DEF InUse
  <2>4. /\ Sane(Release(s)) /\ Release(s).waiters = s.waiters
        /\ Total(Release(s)) = Total(s) + 1
    BY ReleaseKeepsSlots, Zenon
  <2>5. /\ sem' \in [Enabled -> Semaphore] /\ sem'[At(r)] = Release(s)
        /\ \A q \in Enabled : q # At(r) => sem'[q] = sem[q]
    BY <1>1, <2>1, <2>4, SetSemEffect, Zenon
  <2>6. Total(sem'[At(r)]) + InUse(pc'[r]) = Total(sem[At(r)]) + InUse(pc[r])
    BY <1>1, <2>3, <2>4, <2>5
  <2>7. ToSet(sem'[At(r)].waiters) = ToSet(sem[At(r)].waiters) \ {r}
    BY <2>4, <2>5, Zenon
  <2>8. Sane(sem'[At(r)])
    BY <2>4, <2>5, Zenon
  <2> QED
    BY <2>3, <2>5, <2>6, <2>7, <2>8, Zenon DEF SlotMove
<1> QED
  BY <1>2, <1>3, Zenon DEF Admission

\* A request that goes on leaves the line or gives its slot back.
LEMMA GoingKeepsSlots ==
  ASSUME TasksType, SharedType, PlaceInv, SlotInv, NEW r \in Requests,
         pc'[r] \in {"trying", "over"},
         \/ pc[r] = "queueing" /\ sem' = [sem EXCEPT ![At(r)] = Leave(sem[At(r)], r)]
         \/ pc[r] = "calling" /\ sem' = [sem EXCEPT ![At(r)] = Release(sem[At(r)])]
  PROVE  SlotMove(r)
<1> DEFINE p == At(r)
           s == sem[p]
<1>1. /\ pc[r] \in UnderWay /\ InUse(pc'[r]) = 0 /\ p \in Enabled /\ Sane(s)
      /\ pc'[r] \notin {"queueing", "calling"}
      /\ Total(s) \in Nat
      /\ r \in ToSet(s.waiters) <=> pc[r] = "queueing"
  BY AtSlots DEF UnderWay, InUse
<1> HIDE DEF p, s
<1>2. PICK t : /\ Sane(t) /\ ToSet(t.waiters) = ToSet(s.waiters) \ {r}
               /\ Total(t) = Total(s) + InUse(pc[r])
               /\ sem' = [sem EXCEPT ![p] = t]
  <2>1. CASE pc[r] = "queueing" /\ sem' = [sem EXCEPT ![p] = Leave(s, r)]
    <3>1. /\ Sane(Leave(s, r)) /\ Total(Leave(s, r)) = Total(s)
          /\ ToSet(Leave(s, r).waiters) = ToSet(s.waiters) \ {r}
      BY <1>1, <2>1, LeaveKeepsSlots, Zenon
    <3>2. Total(Leave(s, r)) = Total(s) + InUse(pc[r])
      BY <1>1, <2>1, <3>1 DEF InUse
    <3> QED
      BY <2>1, <3>1, <3>2, Zenon
  <2>2. CASE pc[r] = "calling" /\ sem' = [sem EXCEPT ![p] = Release(s)]
    <3>1. /\ Sane(Release(s)) /\ Release(s).waiters = s.waiters
          /\ Total(Release(s)) = Total(s) + 1
      BY <1>1, ReleaseKeepsSlots, Zenon
    <3>2. InUse(pc[r]) = 1 /\ r \notin ToSet(s.waiters)
      BY <1>1, <2>2 DEF InUse
    <3>3. ToSet(s.waiters) = ToSet(s.waiters) \ {r}
      BY <3>2
    <3> QED
      BY <2>2, <3>1, <3>2, <3>3, Zenon
  <2> QED
    BY <2>1, <2>2, Zenon DEF p, s
<1>3. /\ sem' \in [Enabled -> Semaphore] /\ sem'[p] = t
      /\ \A q \in Enabled : q # p => sem'[q] = sem[q]
  BY <1>1, <1>2, SetSemEffect, Zenon
<1>4. Total(sem'[p]) + InUse(pc'[r]) = Total(s) + InUse(pc[r])
  BY <1>1, <1>2, <1>3 DEF InUse
<1> QED
  BY <1>1, <1>2, <1>3, <1>4, Zenon DEF SlotMove, p, s

LEMMA SlotMoves ==
  ASSUME TasksType, SharedType, PlaceInv, SlotInv, NEW r \in Requests,
         Step(r)
  PROVE  Slotless(r) \/ SlotMove(r)
<1>1. pc \in [Requests -> Stages] /\ sem \in [Enabled -> Semaphore]
  BY Zenon DEF TasksType, SharedType
<1>2. \A status \in Status : pc[r] \in UnderWay /\ MoveOn(r, status) => pc'[r] \in {"trying", "over"}
  BY MoveOnEffect, Zenon DEF Advanced
<1>3. {"skipped", "rejected", "unavailable", "refused"} \subseteq Status
  BY DEF Status
<1>4. \A o : End(r, o) => pc'[r] = "over"
  BY <1>1 DEF End
<1>5. ASSUME NEW k \in Kinds, Serve(r, k) \/ Begin(r, k)
      PROVE  Slotless(r)
  <2>1. pc[r] = "idle" /\ sem' = sem
    BY <1>5, Zenon DEF Serve, Begin
  <2>2. pc'[r] \in {"trying", "over"}
    <3>1. CASE Serve(r, k)
      BY <1>4, <3>1, Zenon DEF Serve
    <3>2. CASE Begin(r, k)
      BY <3>2, NextCandidateEffect, Zenon DEF Begin, Advanced
    <3> QED
      BY <1>5, <3>1, <3>2
  <2> QED
    BY <2>1, <2>2 DEF Slotless
<1>6. ASSUME Skip(r) \/ Reserve(r) \/ (Cancel(r) /\ pc[r] = "waiting")
      PROVE  Slotless(r)
  <2>1. sem' = sem
    <3>1. CASE Cancel(r) /\ pc[r] = "waiting"
      <4>1. sem' = [sem EXCEPT ![At(r)] = sem[At(r)]]
        BY <3>1 DEF Cancel
      <4> QED
        BY <1>1, <4>1
    <3> QED
      BY <1>6, <3>1, Zenon DEF Skip, Reserve
  <2>2. pc[r] \in {"trying", "waiting"} /\ pc[r] \in UnderWay
    BY <1>6 DEF Skip, Reserve, UnderWay
  <2>3. pc'[r] \in {"trying", "over", "waiting"}
    <3>1. Skip(r) => pc'[r] \in {"trying", "over"}
      BY <1>2, <1>3, <2>2, Zenon DEF Skip
    <3>2. Reserve(r) => pc'[r] = "waiting"
      BY <1>1 DEF Reserve
    <3>3. Cancel(r) => pc'[r] = "over"
      BY <1>4, Zenon DEF Cancel
    <3> QED
      BY <1>6, <3>1, <3>2, <3>3
  <2> QED
    BY <2>1, <2>2, <2>3 DEF Slotless
<1>7. ASSUME TakeSlot(r)
      PROVE  SlotMove(r)
  <2> DEFINE s == sem[At(r)]
             t == [s EXCEPT !.free = @ - 1]
  <2>1. /\ pc[r] = "waiting" /\ pc[r] \in UnderWay /\ pc[r] \in {"waiting", "queueing"}
        /\ ~ Locked(s) /\ Admission(r, t)
    BY <1>7 DEF TakeSlot, UnderWay
  <2>2. Sane(s) /\ r \notin ToSet(s.waiters)
    BY <2>1, AtSlots
  <2>3. Sane(t) /\ Total(t) = Total(s) - 1 /\ t.waiters = s.waiters
    BY <2>1, <2>2, TakeKeepsSlots
  <2> HIDE DEF t
  <2>4. ToSet(t.waiters) = ToSet(s.waiters) \ {r}
    BY <2>2, <2>3
  <2> QED
    BY <2>1, <2>3, <2>4, AdmissionKeepsSlots, Zenon
<1>8. ASSUME Resume(r)
      PROVE  SlotMove(r)
  <2> DEFINE s == sem[At(r)]
  <2>1. /\ pc[r] = "queueing" /\ pc[r] \in UnderWay /\ pc[r] \in {"waiting", "queueing"}
        /\ Handed(s, r) /\ Admission(r, Arrive(s, r))
    BY <1>8 DEF Resume, UnderWay
  <2>2. Sane(s) /\ r \in ToSet(s.waiters)
    BY <2>1, AtSlots
  <2>3. /\ Sane(Arrive(s, r)) /\ Total(Arrive(s, r)) = Total(s) - 1
        /\ ToSet(Arrive(s, r).waiters) = ToSet(s.waiters) \ {r}
    BY <2>1, <2>2, ArriveKeepsSlots, Zenon
  <2> QED
    BY <2>1, <2>3, AdmissionKeepsSlots, Zenon
<1>9. ASSUME Queue(r)
      PROVE  SlotMove(r)
  <2> DEFINE s == sem[At(r)]
             t == [s EXCEPT !.waiters = Append(@, r)]
  <2>1. /\ pc[r] = "waiting" /\ pc[r] \in UnderWay /\ Locked(s)
        /\ sem' = [sem EXCEPT ![At(r)] = t]
        /\ pc' = [pc EXCEPT ![r] = "queueing"] /\ asked' = asked /\ at' = at
    BY <1>9 DEF Queue, SetSem, UnderWay
  <2>2. Sane(s) /\ r \notin ToSet(s.waiters) /\ At(r) \in Enabled
    BY <2>1, AtSlots
  <2>3. Sane(t) /\ Total(t) = Total(s) /\ ToSet(t.waiters) = ToSet(s.waiters) \cup {r}
    BY <2>1, <2>2, QueueKeepsSlots
  <2> HIDE DEF t
  <2>4. /\ sem' \in [Enabled -> Semaphore] /\ sem'[At(r)] = t
        /\ \A q \in Enabled : q # At(r) => sem'[q] = sem[q]
    BY <2>1, <2>2, <2>3, SetSemEffect, Zenon
  <2>5. /\ pc'[r] = "queueing" /\ At(r)' = At(r) /\ InUse(pc'[r]) = 0 /\ InUse(pc[r]) = 0
    BY <1>1, <2>1 DEF At, InUse
  <2> QED
    BY <2>3, <2>4, <2>5, Zenon DEF SlotMove
<1>10. ASSUME GiveUp(r) \/ Reject(r) \/ Unavailable(r) \/ RefusedCall(r)
       PROVE  SlotMove(r)
  <2>1. /\ \/ pc[r] = "queueing" /\ sem' = [sem EXCEPT ![At(r)] = Leave(sem[At(r)], r)]
           \/ pc[r] = "calling" /\ sem' = [sem EXCEPT ![At(r)] = Release(sem[At(r)])]
        /\ \E status \in Status : MoveOn(r, status)
    BY <1>3, <1>10, Zenon DEF GiveUp, Reject, Unavailable, RefusedCall, SetSem
  <2>2. pc[r] \in UnderWay
    BY <2>1 DEF UnderWay
  <2>3. pc'[r] \in {"trying", "over"}
    BY <1>2, <2>1, <2>2, Zenon
  <2> QED
    BY <2>1, <2>3, GoingKeepsSlots, Zenon
<1>11. ASSUME \/ \E t \in Texts : Answer(r, t)
              \/ Cancel(r) /\ pc[r] # "waiting"
       PROVE  SlotMove(r)
  <2>1. \/ pc[r] = "queueing" /\ sem' = [sem EXCEPT ![At(r)] = Leave(sem[At(r)], r)]
        \/ pc[r] = "calling" /\ sem' = [sem EXCEPT ![At(r)] = Release(sem[At(r)])]
    BY <1>11 DEF Answer, Cancel, SetSem
  <2>2. pc'[r] \in {"trying", "over"}
    BY <1>4, <1>11, Zenon DEF Answer, Cancel
  <2> QED
    BY <2>1, <2>2, GoingKeepsSlots, Zenon
<1> QED
  BY <1>5, <1>6, <1>7, <1>8, <1>9, <1>10, <1>11, Zenon DEF Step, Proceed, CallEnds

LEMMA SlotStep ==
  ASSUME TasksType, SharedType, PlaceInv, SlotInv, [Next]_vars
  PROVE  SlotInv' /\ sem' \in [Enabled -> Semaphore]
<1>1. sem \in [Enabled -> Semaphore] /\ pc \in [Requests -> Stages]
  BY Zenon DEF SharedType, TasksType
<1>2. CASE UNCHANGED <<asked, pc, at, sem>>
  <2>1. asked' = asked /\ pc' = pc /\ at' = at /\ sem' = sem
    BY <1>2
  <2>2. \A p \in Enabled : Queueing(p)' = Queueing(p) /\ Calling(p)' = Calling(p)
    BY <2>1, Zenon DEF Queueing, Calling, At
  <2> QED
    BY <1>1, <2>1, <2>2, Zenon DEF SlotInv
<1>3. ASSUME NEW r \in Requests, OnlyTask(r), Slotless(r) \/ SlotMove(r)
      PROVE  SlotInv' /\ sem' \in [Enabled -> Semaphore]
  <2>1. ASSUME NEW q \in Requests, q # r
        PROVE  pc'[q] = pc[q] /\ At(q)' = At(q)
    BY <1>3, <2>1 DEF OnlyTask, At
  <2>2. CASE Slotless(r)
    <3>1. /\ sem' = sem /\ {pc[r], pc'[r]} \cap {"queueing", "calling"} = {}
      BY <2>2, Zenon DEF Slotless
    <3>2. ASSUME NEW p \in Enabled
          PROVE  Queueing(p)' = Queueing(p) /\ Calling(p)' = Calling(p)
      BY <2>1, <3>1 DEF Queueing, Calling
    <3> QED
      BY <1>1, <3>1, <3>2, Zenon DEF SlotInv
  <2>3. CASE SlotMove(r)
    <3>1. sem' \in [Enabled -> Semaphore]
      BY <2>3, Zenon DEF SlotMove
    <3>2. ASSUME NEW p \in Enabled
          PROVE  /\ Sane(sem'[p]) /\ ToSet(sem'[p].waiters) = Queueing(p)'
                 /\ IsFiniteSet(Calling(p)')
                 /\ sem'[p].free + sem'[p].handed + Cardinality(Calling(p)') = Concurrency[p]
      <4> DEFINE in == Calling(p)
                 in1 == Calling(p)'
                 old == sem[p]
                 new == sem'[p]
      <4>1. /\ Sane(old) /\ ToSet(old.waiters) = Queueing(p) /\ IsFiniteSet(in)
            /\ Total(old) + Cardinality(in) = Concurrency[p] /\ Total(old) \in Nat
        BY DEF SlotInv, Total, Sane, Semaphore
      <4>2. Cardinality(in) \in Nat
        BY <4>1, FS_CardinalityType
      <4>3. CASE p # At(r)
        <5>1. new = old
          BY <2>3, <4>3, Zenon DEF SlotMove
        <5>2. Queueing(p)' = Queueing(p) /\ Calling(p)' = Calling(p)
          <6>1. pc'[r] \in {"queueing", "calling"} => At(r)' # p
            BY <2>3, <4>3 DEF SlotMove
          <6> QED
            BY <2>1, <4>3, <6>1 DEF Queueing, Calling
        <5> QED
          BY <4>1, <5>1, <5>2 DEF Total
      <4>4. CASE p = At(r)
        <5>1. /\ Sane(new)
              /\ ToSet(new.waiters) = IF pc'[r] = "queueing" THEN ToSet(old.waiters) \cup {r}
                                      ELSE ToSet(old.waiters) \ {r}
              /\ Total(new) + InUse(pc'[r]) = Total(old) + InUse(pc[r])
              /\ pc'[r] \in {"queueing", "calling"} => At(r)' = p
          BY <2>3, <4>4, Zenon DEF SlotMove
        <5>2. Total(new) \in Nat
          BY <5>1 DEF Sane, Semaphore, Total
        <5>3. ASSUME NEW q
              PROVE  q \in ToSet(new.waiters) <=> q \in Queueing(p)'
          <6>1. q # r => (q \in Queueing(p)' <=> q \in Queueing(p))
            BY <2>1 DEF Queueing
          <6>2. r \in Queueing(p)' <=> pc'[r] = "queueing"
            BY <5>1 DEF Queueing
          <6> QED
            BY <4>1, <5>1, <6>1, <6>2
        <5>4. \A q : q # r => (q \in in1 <=> q \in in)
          BY <2>1 DEF Calling
        <5>5. (r \in in1 <=> pc'[r] = "calling") /\ (r \in in <=> pc[r] = "calling")
          BY <4>4, <5>1 DEF Calling
        <5> HIDE DEF in, in1, old, new
        <5>6. IsFiniteSet(in1) /\ Cardinality(in1) = Cardinality(in) + InUse(pc'[r]) - InUse(pc[r])
          <6>1. CASE r \in in1 /\ r \notin in
            <7>1. in1 = in \cup {r}
              BY <5>4, <6>1
            <7>2. IsFiniteSet(in1) /\ Cardinality(in1) = Cardinality(in) + 1
              BY <4>1, <6>1, <7>1, FS_AddElement
            <7> QED
              BY <4>2, <5>5, <6>1, <7>2 DEF InUse
          <6>2. CASE r \notin in1 /\ r \in in
            <7>1. in1 = in \ {r}
              BY <5>4, <6>2
            <7>2. IsFiniteSet(in1) /\ Cardinality(in1) = Cardinality(in) - 1
              BY <4>1, <6>2, <7>1, FS_RemoveElement
            <7> QED
              BY <4>2, <5>5, <6>2, <7>2 DEF InUse
          <6>3. CASE r \in in1 <=> r \in in
            <7>1. in1 = in
              BY <5>4, <6>3
            <7> QED
              BY <4>1, <4>2, <5>5, <6>3, <7>1 DEF InUse
          <6> QED
            BY <6>1, <6>2, <6>3
        <5>7. Total(new) + Cardinality(in1) = Concurrency[p]
          <6>1. InUse(pc[r]) \in {0, 1} /\ InUse(pc'[r]) \in {0, 1}
            BY DEF InUse
          <6> QED
            BY <4>1, <4>2, <5>1, <5>2, <5>6, <6>1
        <5> QED
          BY <5>1, <5>3, <5>6, <5>7 DEF Total, in1, new
      <4> QED
        BY <4>3, <4>4
    <3> QED
      BY <3>1, <3>2, Zenon DEF SlotInv
  <2> QED
    BY <1>3, <2>2, <2>3
<1>4. TimePasses \/ UNCHANGED vars => UNCHANGED <<asked, pc, at, sem>>
  BY Zenon DEF TimePasses, PauseEnds, ProbeLapses, vars
<1>5. \A r \in Requests : Step(r) => OnlyTask(r) /\ (Slotless(r) \/ SlotMove(r))
  BY StepMoves, SlotMoves, Zenon DEF TaskMove
<1> QED
  BY <1>2, <1>3, <1>4, <1>5, NextSteps, Zenon

-----------------------------------------------------------------------------
(* The cache.                                                              *)

\* Where the entry of a key is.
LEMMA EntryPlace ==
  ASSUME NEW key, Cached(key)
  PROVE  EntryOf(key) \in 1..Len(cache) /\ cache[EntryOf(key)].key = key
BY Zenon DEF Cached, EntryOf

\* What a sequence of entries holds is in the cache, or is this entry.
FromCache(s, e) == \A i \in 1..Len(s) : s[i] = e \/ \E j \in 1..Len(cache) : s[i] = cache[j]

LEMMA RemovedFromCache ==
  ASSUME SharedType, NEW i \in 1..Len(cache), NEW e \in Entry
  PROVE  LET s == Append(RemoveAt(cache, i), e) IN
         s \in Seq(Entry) /\ Len(s) = Len(cache) /\ FromCache(s, e)
<1> DEFINE left == RemoveAt(cache, i)
           s == Append(left, e)
<1>1. cache \in Seq(Entry) /\ Len(cache) \in Nat
  BY DEF SharedType
<1>2. /\ left \in Seq(Entry) /\ Len(left) = Len(cache) - 1
      /\ \A j \in 1..(Len(cache) - 1) : left[j] = IF j < i THEN cache[j] ELSE cache[j + 1]
  BY <1>1, RemoveAtPlaces
<1> HIDE DEF left
<1>3. /\ s \in Seq(Entry) /\ Len(s) = Len(left) + 1
      /\ \A j \in 1..Len(left) : s[j] = left[j]
      /\ s[Len(left) + 1] = e
  BY <1>2, AppendElements
<1> HIDE DEF s
<1>4. ASSUME NEW j \in 1..Len(s)
      PROVE  s[j] = e \/ \E n \in 1..Len(cache) : s[j] = cache[n]
  <2>1. CASE j = Len(left) + 1
    BY <1>3, <2>1
  <2>2. CASE j # Len(left) + 1
    <3>1. /\ j \in 1..(Len(cache) - 1) /\ s[j] = left[j]
          /\ j \in 1..Len(cache) /\ j + 1 \in 1..Len(cache)
      BY <1>1, <1>2, <1>3, <2>2
    <3>2. left[j] = cache[j] \/ left[j] = cache[j + 1]
      BY <1>2, <3>1
    <3> QED
      BY <3>1, <3>2, Zenon
  <2> QED
    BY <2>1, <2>2
<1>5. Len(s) = Len(cache)
  BY <1>1, <1>2, <1>3
<1> QED
  BY <1>3, <1>4, <1>5, Zenon DEF FromCache, s, left

LEMMA AddedToCache ==
  ASSUME SharedType, NEW e \in Entry
  PROVE  LET s == Append(cache, e) IN
         s \in Seq(Entry) /\ Len(s) = Len(cache) + 1 /\ FromCache(s, e)
<1> DEFINE s == Append(cache, e)
<1>1. cache \in Seq(Entry) /\ Len(cache) \in Nat
  BY DEF SharedType
<1>2. /\ s \in Seq(Entry) /\ Len(s) = Len(cache) + 1
      /\ \A j \in 1..Len(cache) : s[j] = cache[j]
      /\ s[Len(cache) + 1] = e
  BY <1>1, AppendElements
<1> HIDE DEF s
<1>3. \A j \in 1..Len(s) : s[j] = e \/ \E n \in 1..Len(cache) : s[j] = cache[n]
  BY <1>1, <1>2
<1> QED
  BY <1>2, <1>3, Zenon DEF FromCache, s

LEMMA TouchedEntries ==
  ASSUME SharedType, NEW key
  PROVE  /\ Touched(key) \in Seq(Entry) /\ Len(Touched(key)) <= MaxEntries
         /\ \A i \in 1..Len(Touched(key)) :
              \E j \in 1..Len(cache) : Touched(key)[i] = cache[j]
<1>1. cache \in Seq(Entry) /\ Len(cache) \in Nat /\ Len(cache) <= MaxEntries
  BY DEF SharedType
<1>2. CASE ~ Cached(key)
  <2>1. Touched(key) = cache
    BY <1>2, Zenon DEF Touched
  <2> QED
    BY <1>1, <2>1, Zenon
<1>3. CASE Cached(key)
  <2> DEFINE n == EntryOf(key)
             s == Append(RemoveAt(cache, n), cache[n])
  <2>1. n \in 1..Len(cache)
    BY <1>3, EntryPlace
  <2>2. cache[n] \in Entry
    BY <1>1, <2>1
  <2>3. s \in Seq(Entry) /\ Len(s) = Len(cache) /\ FromCache(s, cache[n])
    BY <2>1, <2>2, RemovedFromCache
  <2>4. Touched(key) = s
    BY <1>3, Zenon DEF Touched
  <2> HIDE DEF s, n
  <2>5. Len(s) <= MaxEntries
    BY <1>1, <2>3
  <2> QED
    BY <2>1, <2>3, <2>4, <2>5, Zenon DEF FromCache
<1> QED
  BY <1>2, <1>3

LEMMA PutEntries ==
  ASSUME SharedType, NEW key \in {k.key : k \in Kinds}, NEW p \in Enabled, NEW t \in Texts
  PROVE  /\ Put(key, p, t) \in Seq(Entry) /\ Len(Put(key, p, t)) <= MaxEntries
         /\ FromCache(Put(key, p, t), [key |-> key, by |-> p, text |-> t])
<1> DEFINE e == [key |-> key, by |-> p, text |-> t]
           w == With(key, p, t)
<1>1. cache \in Seq(Entry) /\ Len(cache) \in Nat /\ Len(cache) <= MaxEntries /\ MaxEntries \in Nat
  BY RouterAssumption DEF SharedType
<1>2. e \in Entry
  BY DEF Entry
<1>3. w \in Seq(Entry) /\ Len(w) <= Len(cache) + 1 /\ FromCache(w, e)
  <2>1. CASE Cached(key)
    <3> DEFINE s == Append(RemoveAt(cache, EntryOf(key)), e)
    <3>1. s \in Seq(Entry) /\ Len(s) = Len(cache) /\ FromCache(s, e)
      BY <1>2, <2>1, EntryPlace, RemovedFromCache
    <3>2. w = s
      BY <2>1, Zenon DEF With
    <3> HIDE DEF s, w
    <3> QED
      BY <1>1, <3>1, <3>2
  <2>2. CASE ~ Cached(key)
    <3> DEFINE s == Append(cache, e)
    <3>1. s \in Seq(Entry) /\ Len(s) = Len(cache) + 1 /\ FromCache(s, e)
      BY <1>2, AddedToCache
    <3>2. w = s
      BY <2>2, Zenon DEF With
    <3> HIDE DEF s, w
    <3> QED
      BY <1>1, <3>1, <3>2
  <2> QED
    BY <2>1, <2>2
<1> DEFINE q == Put(key, p, t)
<1>4. \/ MaxEntries = 0 /\ q = cache
      \/ MaxEntries # 0 /\ Len(w) > MaxEntries /\ q = Tail(w)
      \/ MaxEntries # 0 /\ ~ (Len(w) > MaxEntries) /\ q = w
  BY Zenon DEF Put
<1> HIDE DEF e, w, q
<1>5. Len(w) \in Nat
  BY <1>3
<1>6. CASE q = cache
  <2>1. FromCache(q, e)
    BY <1>6 DEF FromCache
  <2> QED
    BY <1>1, <1>6, <2>1, Zenon DEF q, e
<1>7. CASE Len(w) > MaxEntries /\ q = Tail(w)
  <2>1. /\ q \in Seq(Entry) /\ Len(q) = Len(w) - 1
        /\ \A i \in 1..(Len(w) - 1) : q[i] = w[i + 1]
    BY <1>1, <1>3, <1>5, <1>7
  <2>2. \A i \in 1..Len(q) : i + 1 \in 1..Len(w) /\ q[i] = w[i + 1]
    BY <1>5, <2>1
  <2>3. FromCache(q, e)
    BY <1>3, <2>2, Zenon DEF FromCache
  <2>4. Len(q) <= MaxEntries
    BY <1>1, <1>3, <1>5, <2>1
  <2> QED
    BY <2>1, <2>3, <2>4, Zenon DEF q, e
<1>8. CASE ~ (Len(w) > MaxEntries) /\ q = w
  <2>1. Len(q) <= MaxEntries
    BY <1>1, <1>5, <1>8
  <2> QED
    BY <1>3, <1>8, <2>1, Zenon DEF q, e
<1> QED
  BY <1>4, <1>6, <1>7, <1>8, Zenon

\* What was got stays got, for requests never change what they got.
LEMMA GotStays ==
  ASSUME TasksType, SharedType, PlaceInv, [Next]_vars, NEW key, NEW p, NEW t, Got(key, p, t)
  PROVE  Got(key, p, t)'
<1>1. PICK q \in Requests : /\ asked[q] \in Kinds /\ asked[q].key = key
                            /\ outcome[q] = AnswerOf(p, t)
  BY Zenon DEF Got
<1>2. outcome[q] # NoOutcome
  BY <1>1, OutcomeTypes, Zenon
<1>3. pc[q] = "over"
  BY <1>2 DEF PlaceInv, WellPlaced, TasksType, Stages, UnderWay
<1>4. asked'[q] = asked[q] /\ outcome'[q] = outcome[q]
  <2>1. CASE SameTasks
    BY <2>1, Zenon DEF SameTasks
  <2>2. ASSUME NEW r \in Requests, TaskMove(r)
        PROVE  asked'[q] = asked[q] /\ outcome'[q] = outcome[q]
    <3>1. pc[r] # "over"
      BY <2>2 DEF TaskMove, ServeMove, BeginMove, WaitMove, NextMove, AnswerMove, CancelMove, UnderWay
    <3> QED
      BY <1>3, <2>2, <3>1, Zenon DEF TaskMove, OnlyTask
  <2> QED
    BY <2>1, <2>2, TaskMoves, Zenon
<1> QED
  BY <1>1, <1>4, Zenon DEF Got

LEMMA CacheStep ==
  ASSUME TasksType, SharedType, PlaceInv, CacheInv, [Next]_vars
  PROVE  CacheInv' /\ cache' \in Seq(Entry) /\ Len(cache') <= MaxEntries
<1>1. cache \in Seq(Entry) /\ Len(cache) <= MaxEntries
  BY Zenon DEF SharedType
<1>2. \A key, p, t : Got(key, p, t) => Got(key, p, t)'
  BY GotStays, Zenon
<1>3. CASE cache' = cache
  BY <1>1, <1>2, <1>3, Zenon DEF CacheInv
<1>4. ASSUME NEW key, cache' = Touched(key)
      PROVE  CacheInv' /\ cache' \in Seq(Entry) /\ Len(cache') <= MaxEntries
  <2>1. /\ cache' \in Seq(Entry) /\ Len(cache') <= MaxEntries
        /\ \A i \in 1..Len(cache') : \E j \in 1..Len(cache) : cache'[i] = cache[j]
    BY <1>4, TouchedEntries, Zenon
  <2> QED
    BY <1>2, <2>1, Zenon DEF CacheInv
<1>5. ASSUME NEW r \in Requests, NEW t \in Texts, Answer(r, t)
      PROVE  CacheInv' /\ cache' \in Seq(Entry) /\ Len(cache') <= MaxEntries
  <2> DEFINE e == [key |-> asked[r].key, by |-> At(r), text |-> t]
  <2>1. pc[r] \in UnderWay /\ asked' = asked /\ End(r, AnswerOf(At(r), t))
        /\ cache' = Put(asked[r].key, At(r), t)
    BY <1>5 DEF Answer, UnderWay
  <2>2. asked[r] \in Kinds /\ At(r) \in Enabled
    BY <2>1, AtCandidate, Zenon
  <2>3. asked[r].key \in {k.key : k \in Kinds}
    BY <2>2
  <2>4. cache' \in Seq(Entry) /\ Len(cache') <= MaxEntries /\ FromCache(cache', e)
    BY <2>1, <2>2, <2>3, PutEntries, Zenon
  <2>5. outcome'[r] = AnswerOf(At(r), t) /\ asked'[r] = asked[r]
    BY <2>1 DEF End, TasksType
  <2>6. \A key, p : key = asked[r].key /\ p = At(r) => Got(key, p, t)'
    BY <2>2, <2>5, Zenon DEF Got
  <2>7. e.key = asked[r].key /\ e.by = At(r) /\ e.text = t
    OBVIOUS
  <2> HIDE DEF e
  <2> QED
    BY <1>2, <2>4, <2>6, <2>7, Zenon DEF CacheInv, FromCache
<1>6. TimePasses \/ UNCHANGED vars => cache' = cache
  BY Zenon DEF TimePasses, PauseEnds, ProbeLapses, vars
<1>7. ASSUME NEW r \in Requests, Step(r)
      PROVE  \/ cache' = cache
             \/ \E key : cache' = Touched(key)
             \/ \E t \in Texts : Answer(r, t)
  BY <1>7, Zenon DEF Step, Serve, Begin, Proceed, Skip, Reserve, TakeSlot, Queue, Resume,
                    GiveUp, CallEnds, Reject, Unavailable, RefusedCall, Cancel
<1> QED
  BY <1>3, <1>4, <1>5, <1>6, <1>7, NextSteps, Zenon

-----------------------------------------------------------------------------
(* Breakers.                                                               *)

BreakerType ==
  /\ breaker \in [Enabled -> {"closed", "open", "half", "probing"}]
  /\ resting \subseteq Enabled

LEMMA BreakerStep ==
  ASSUME TasksType, SharedType, PlaceInv, RestInv, [Next]_vars
  PROVE  BreakerType' /\ RestInv'
<1> DEFINE States == {"closed", "open", "half", "probing"}
<1>1. breaker \in [Enabled -> States] /\ resting \subseteq Enabled
      /\ \A p \in resting : breaker[p] = "open"
  BY DEF SharedType, RestInv
<1>2. ASSUME NEW p \in Enabled, NEW b \in States, SetBreaker(p, b),
             \/ resting' = resting /\ (breaker[p] = "open" => b = "open")
             \/ resting' = resting \cup {p} /\ b = "open"
             \/ resting' = resting \ {p}
      PROVE  BreakerType' /\ RestInv'
  <2>1. breaker' = [breaker EXCEPT ![p] = b]
    BY <1>2, Zenon DEF SetBreaker
  <2>2. /\ breaker' \in [Enabled -> States] /\ breaker'[p] = b
        /\ \A q \in Enabled : q # p => breaker'[q] = breaker[q]
    BY <1>1, <2>1
  <2>3. resting' \subseteq Enabled
    BY <1>1, <1>2
  <2>4. ASSUME NEW q \in resting'
        PROVE  breaker'[q] = "open"
    <3>1. q \in Enabled
      BY <2>3
    <3> QED
      BY <1>1, <1>2, <2>2, <2>4, <3>1
  <2> QED
    BY <2>2, <2>3, <2>4, Zenon DEF BreakerType, RestInv
<1>3. CASE breaker' = breaker /\ resting' = resting
  BY <1>1, <1>3 DEF BreakerType, RestInv
<1>4. UNCHANGED vars => breaker' = breaker /\ resting' = resting
  BY Zenon DEF vars
<1>5. CASE TimePasses
  <2>1. PICK p \in Enabled : PauseEnds(p) \/ ProbeLapses(p)
    BY <1>5, Zenon DEF TimePasses
  <2>2. /\ SetBreaker(p, "half")
        /\ resting' = resting \ {p} \/ (resting' = resting /\ breaker[p] # "open")
    BY <2>1 DEF PauseEnds, ProbeLapses
  <2> QED
    BY <1>2, <2>2
<1>6. ASSUME NEW r \in Requests, Step(r)
      PROVE  BreakerType' /\ RestInv'
  <2>1. CASE \/ \E k \in Kinds : Serve(r, k) \/ Begin(r, k)
             \/ Skip(r) \/ Reserve(r) \/ Queue(r) \/ GiveUp(r) \/ Cancel(r)
    BY <1>3, <2>1, Zenon DEF Serve, Begin, Skip, Reserve, Queue, GiveUp, Cancel
  <2>2. CASE pc[r] \in UnderWay /\ \E s : Admission(r, s) /\ resting' = resting
    <3>1. At(r) \in Enabled
      BY <2>2, AtCandidate, Zenon
    <3>2. \/ breaker' = breaker
          \/ Allows(At(r)) /\ SetBreaker(At(r), IF breaker[At(r)] = "half" THEN "probing" ELSE "closed")
      BY <2>2, Zenon DEF Admission, Refused
    <3> QED
      BY <1>2, <1>3, <2>2, <3>1, <3>2 DEF Allows
  <2>3. CASE CallEnds(r)
    <3>1. At(r) \in Enabled
      BY <2>3, AtCandidate DEF UnderWay, CallEnds, Answer, Reject, Unavailable, RefusedCall
    <3>2. breaker[At(r)] \in States
      BY <1>1, <3>1
    <3>3. CASE \E t \in Texts : Answer(r, t)
      <4>1. SetBreaker(At(r), AfterSuccess(At(r))) /\ resting' = resting
        BY <3>3, Zenon DEF Answer
      <4> QED
        BY <1>2, <3>1, <4>1 DEF AfterSuccess
    <3>4. CASE Reject(r)
      <4>1. /\ resting' = resting
            /\ SetBreaker(At(r), IF breaker[At(r)] = "probing" THEN "half" ELSE breaker[At(r)])
        BY <3>4, Zenon DEF Reject
      <4> QED
        BY <1>2, <3>1, <3>2, <4>1
    <3>5. CASE Unavailable(r) \/ RefusedCall(r)
      <4>1. \/ breaker' = breaker /\ resting' = resting
            \/ SetBreaker(At(r), "open") /\ resting' = resting \cup {At(r)}
        BY <3>5, Zenon DEF Unavailable, RefusedCall
      <4> QED
        BY <1>2, <1>3, <3>1, <4>1
    <3> QED
      BY <2>3, <3>3, <3>4, <3>5, Zenon DEF CallEnds
  <2>4. TakeSlot(r) \/ Resume(r) =>
          pc[r] \in UnderWay /\ \E s : Admission(r, s) /\ resting' = resting
    BY DEF TakeSlot, Resume, UnderWay
  <2> QED
    BY <1>6, <2>1, <2>2, <2>3, <2>4, Zenon DEF Step, Proceed
<1> QED
  BY <1>3, <1>4, <1>5, <1>6, NextSteps, Zenon

-----------------------------------------------------------------------------
(* The invariant.                                                          *)

LEMMA InitInv ==
  ASSUME Init
  PROVE  IInv
<1>1. TasksType
  BY OutcomeTypes DEF Init, TasksType, Stages, Status, Costs
<1>2. /\ Enabled \subseteq Providers /\ Concurrency \in [Providers -> Nat \ {0}]
      /\ MaxEntries \in Nat
  BY RouterAssumption, Zenon
<1>3. ASSUME NEW p \in Enabled
      PROVE  /\ sem[p] \in Semaphore /\ sem[p].free = Concurrency[p] /\ sem[p].handed = 0
             /\ sem[p].waiters = <<>>
  <2>1. Concurrency[p] \in Nat
    BY <1>2
  <2>2. sem[p] = [free |-> Concurrency[p], waiters |-> <<>>, handed |-> 0]
    BY DEF Init
  <2> QED
    BY <2>1, <2>2 DEF Semaphore
<1>4. SharedType
  <2>1. sem \in [Enabled -> Semaphore]
    BY <1>3 DEF Init
  <2> QED
    BY <1>2, <2>1 DEF Init, SharedType
<1>5. ASSUME NEW r \in Requests
      PROVE  /\ pc[r] = "idle" /\ asked[r] = Nothing /\ at[r] = 0 /\ outcome[r] = NoOutcome
             /\ \A p \in Enabled : records[r][p] = "none" /\ cost[r][p] = "none"
  BY DEF Init
<1>6. PlaceInv
  BY <1>5 DEF PlaceInv, WellPlaced, UnderWay
<1>7. CostsMatchRecords
  BY <1>5 DEF CostsMatchRecords
<1>8. SlotInv
  <2>1. ASSUME NEW p \in Enabled
        PROVE  /\ Sane(sem[p]) /\ ToSet(sem[p].waiters) = Queueing(p)
               /\ IsFiniteSet(Calling(p))
               /\ sem[p].free + sem[p].handed + Cardinality(Calling(p)) = Concurrency[p]
    <3>1. Queueing(p) = {} /\ Calling(p) = {}
      BY <1>5 DEF Queueing, Calling
    <3>2. ToSet(<<>>) = {} /\ IsInjective(<<>>)
      BY DEF ToSet, IsInjective
    <3>3. IsFiniteSet({}) /\ Cardinality({}) = 0
      BY FS_EmptySet
    <3>4. Concurrency[p] \in Nat
      BY <1>2
    <3>5. Sane(sem[p])
      BY <1>3, <3>2 DEF Sane
    <3> QED
      BY <1>3, <3>1, <3>2, <3>3, <3>4, <3>5
  <2> QED
    BY <2>1, Zenon DEF SlotInv
<1>9. CacheInv /\ RestInv
  BY DEF Init, CacheInv, RestInv
<1> QED
  BY <1>1, <1>4, <1>6, <1>7, <1>8, <1>9, Zenon DEF IInv

LEMMA StepInv ==
  ASSUME IInv, [Next]_vars
  PROVE  IInv'
<1>1. TasksType /\ SharedType /\ PlaceInv /\ CostsMatchRecords /\ SlotInv /\ CacheInv /\ RestInv
  BY Zenon DEF IInv
<1>2. TasksType'
  <2>1. SameTasks => TasksType'
    BY <1>1 DEF SameTasks, TasksType
  <2> QED
    BY <1>1, <2>1, TaskMoves, Zenon DEF TaskMove
<1>3. PlaceInv'
  BY <1>1, PlaceStep
<1>4. CostsMatchRecords'
  BY <1>1, CostStep
<1>5. SlotInv' /\ sem' \in [Enabled -> Semaphore]
  BY <1>1, SlotStep
<1>6. CacheInv' /\ cache' \in Seq(Entry) /\ Len(cache') <= MaxEntries
  BY <1>1, CacheStep
<1>7. BreakerType' /\ RestInv'
  BY <1>1, BreakerStep
<1>8. SharedType'
  BY <1>5, <1>6, <1>7, Zenon DEF SharedType, BreakerType
<1> QED
  BY <1>2, <1>3, <1>4, <1>5, <1>6, <1>7, <1>8, Zenon DEF IInv

\* Everything the properties below rest on.
THEOREM Invariant == Spec => []IInv
<1>1. Init => IInv
  BY InitInv
<1>2. IInv /\ [Next]_vars => IInv'
  BY StepInv
<1> QED
  BY <1>1, <1>2, PTL DEF Spec

-----------------------------------------------------------------------------
(* The properties.                                                         *)

\* Requests, semaphores, breakers and the cache keep their shape, and the cache its
\* size (router.py, cache.py), for any number of them.
THEOREM TypeCorrect == Spec => []TypeOK
<1>1. IInv => TypeOK
  BY Zenon DEF IInv, TasksType, SharedType, TypeOK, Stages, Outcomes, Semaphore, Entry
<1> QED
  BY <1>1, Invariant, PTL

\* No slot of a provider is lost or used twice, or lies idle while somebody could use it,
\* however calls end and whoever gives up or is cancelled (router.py:196-207).
THEOREM SlotsAreConserved == Spec => []SlotsConserved
<1>1. IInv => SlotsConserved
  BY Zenon DEF IInv, SlotInv, Sane, SlotsConserved
<1> QED
  BY <1>1, Invariant, PTL

\* What the limiters count for a request is what its records say (router.py:205-240).
THEOREM CostsAreRecorded == Spec => []CostsMatchRecords
<1>1. IInv => CostsMatchRecords
  BY Zenon DEF IInv
<1> QED
  BY <1>1, Invariant, PTL

\* No call to a provider begins while it is paused (router.py:200-204), for the breaker is
\* asked in the step in which the call begins.
THEOREM PauseIsKept == Spec => PausedProvidersRest
<1> DEFINE Begins(r) == pc[r] # "calling" /\ pc'[r] = "calling"
<1>1. ASSUME IInv, [Next]_vars, NEW r \in Requests, Begins(r)
      PROVE  At(r) \notin resting
  <2>1. TasksType /\ SharedType /\ PlaceInv /\ RestInv
    BY <1>1, Zenon DEF IInv
  <2>2. PICK q \in Requests : TaskMove(q)
    <3>1. ~ SameTasks
      BY <1>1 DEF SameTasks
    <3> QED
      BY <1>1, <2>1, <3>1, TaskMoves, Zenon
  <2>3. q = r
    BY <1>1, <2>2 DEF TaskMove, OnlyTask
  <2>4. Allows(At(r))
    BY <1>1, <2>2, <2>3 DEF TaskMove, ServeMove, BeginMove, WaitMove, NextMove, Advanced,
                            AnswerMove, CancelMove
  <2> QED
    BY <2>1, <2>4 DEF RestInv, Allows
<1>2. IInv /\ [Next]_vars => [\A r \in Requests :
         pc[r] # "calling" /\ pc'[r] = "calling" => At(r) \notin resting]_vars
  BY <1>1, Zenon
<1> QED
  BY <1>2, Invariant, PTL DEF Spec, PausedProvidersRest

-----------------------------------------------------------------------------
(* The refinement.  What Failover calls tried is whom a request has a      *)
(* record of, and what is left untried are the candidates from the one it  *)
(* is at on.                                                               *)

Tried(r) == {p \in Enabled : records[r][p] # "none"}
Offers(k) == {p \in Enabled : /\ OnRoute(k, p) \/ (k.restricted /\ p \in k.only)
                              /\ Permits(k, p)}

\* What changes nowhere but at r is changed there.
LEMMA ChangedOnlyThere ==
  ASSUME NEW T, NEW f \in [Requests -> T], NEW g \in [Requests -> T], NEW r \in Requests,
         \A q \in Requests : q # r => g[q] = f[q]
  PROVE  g = [f EXCEPT ![r] = g[r]]
OBVIOUS

LEMMA TriedChanges ==
  ASSUME NEW r \in Requests, \A q \in Requests : q # r => records'[q] = records[q]
  PROVE  [q \in Requests |-> Tried(q)]' = [[q \in Requests |-> Tried(q)] EXCEPT ![r] = Tried(r)']
<1>1. \A q \in Requests : q # r => Tried(q)' = Tried(q)
  BY Zenon DEF Tried
<1>2. [q \in Requests |-> Tried(q)]' = [q \in Requests |-> Tried(q)']
  OBVIOUS
<1> QED
  BY <1>1, <1>2

LEMMA OffersAreCandidates ==
  ASSUME NEW k \in Kinds, NEW p
  PROVE  p \in Offers(k) <=> p \in Enabled /\ \E j \in Candidates(k) : Name(k, j) = p
BY CandidatesAreOffered, Zenon DEF Offers, OfferedTo

\* What is untried at a candidate: that one and the later ones.
LEMMA UntriedAreLater ==
  ASSUME TasksType, PlaceInv, NEW r \in Requests, pc[r] \in UnderWay
  PROVE  /\ At(r) \in Offers(asked[r]) \ Tried(r)
         /\ Later(asked[r], at[r]) = {} <=> Offers(asked[r]) \ Tried(r) = {At(r)}
<1> DEFINE k == asked[r]
           left == Offers(k) \ Tried(r)
<1>1. /\ k \in Kinds /\ at[r] \in Candidates(k) /\ at[r] \in Nat /\ At(r) \in Enabled
      /\ records[r][At(r)] = "none" /\ At(r) = Name(k, at[r])
  BY AtCandidate, Zenon DEF At
<1>2. \A p \in Enabled : records[r][p] # "none" <=>
        \E j \in Candidates(k) : j < at[r] /\ Name(k, j) = p
  BY <1>1 DEF PlaceInv, WellPlaced
<1> HIDE DEF k
<1>3. /\ Candidates(k) \subseteq Nat
      /\ \A j \in Candidates(k) : Name(k, j) \in Enabled
  BY <1>1, KindType DEF Candidates, Later, MayServe
<1>4. At(r) \in left
  BY <1>1, OffersAreCandidates, Zenon DEF Tried
<1>5. ASSUME Later(k, at[r]) = {}, NEW p \in left
      PROVE  p = At(r)
  <2>1. p \in Enabled /\ records[r][p] = "none"
    BY <1>5 DEF Tried, Offers
  <2>2. PICK j \in Candidates(k) : Name(k, j) = p
    BY <1>1, <1>5, OffersAreCandidates, Zenon
  <2>3. ~ (j < at[r]) /\ ~ (at[r] < j)
    BY <1>1, <1>2, <1>5, <2>1, <2>2, LaterCandidates, Zenon
  <2>4. j = at[r]
    BY <1>1, <1>3, <2>3
  <2> QED
    BY <1>1, <2>2, <2>4
<1>6. ASSUME NEW j \in Later(k, at[r])
      PROVE  Name(k, j) \in left /\ Name(k, j) # At(r)
  <2>1. j \in Candidates(k) /\ at[r] < j
    BY <1>1, LaterCandidates, Zenon
  <2>2. ~ (j < at[r]) /\ j # at[r]
    BY <1>1, <1>3, <2>1
  <2>3. Name(k, j) # At(r)
    BY <1>1, <2>1, <2>2, CandidatesDiffer, Zenon
  <2>4. \A i \in Candidates(k) : Name(k, i) = Name(k, j) => i = j
    BY <1>1, <2>1, CandidatesDiffer, Zenon
  <2>5. records[r][Name(k, j)] = "none"
    BY <1>2, <1>3, <2>1, <2>2, <2>4, Zenon
  <2>6. Name(k, j) \in left
    BY <1>1, <1>3, <2>1, <2>5, OffersAreCandidates, Zenon DEF Tried
  <2> QED
    BY <2>3, <2>6
<1> QED
  BY <1>4, <1>5, <1>6 DEF k

\* The parts of Failover, in terms of this module.
LEMMA PromiseParts ==
  /\ Promise!vars = <<asked, [r \in Requests |-> Tried(r)], outcome>>
  /\ Promise!Failure = Failure /\ Promise!NoOutcome = NoOutcome /\ Promise!Cancelled = Cancelled
  /\ \A p, t : Promise!AnswerOf(p, t) = AnswerOf(p, t)
  /\ \A r \in Requests : asked[r] \in Kinds =>
       Promise!Untried(r) = Offers(asked[r]) \ Tried(r)
BY DEF Promise!vars, Promise!Failure, Promise!NoOutcome, Promise!Cancelled, Promise!AnswerOf,
       Promise!Untried, Failure, NoOutcome, Cancelled, AnswerOf, Tried, Offers

\* A request starts, perhaps with the answer to an earlier one.
LEMMA StartIsAsk ==
  ASSUME TasksType, SharedType, PlaceInv, CacheInv, NEW r \in Requests, NEW k \in Kinds,
         TaskMove(r), ServeMove(r, k) \/ BeginMove(r, k)
  PROVE  Promise!Ask(r, k)
<1>1. /\ pc[r] = "idle" /\ asked'[r] = k /\ records'[r] = records[r]
      /\ \A q \in Requests : q # r => /\ asked'[q] = asked[q] /\ records'[q] = records[q]
                                      /\ outcome'[q] = outcome[q]
      /\ TasksType'
  BY Zenon DEF TaskMove, OnlyTask, ServeMove, BeginMove
<1>2. asked[r] = Nothing /\ at[r] = 0 /\ outcome[r] = NoOutcome
  BY <1>1, Zenon DEF PlaceInv, WellPlaced
<1>3. /\ asked' = [asked EXCEPT ![r] = k]
      /\ outcome' = [outcome EXCEPT ![r] = outcome'[r]]
  <2>1. /\ asked \in [Requests -> Kinds \cup {Nothing}] /\ asked' \in [Requests -> Kinds \cup {Nothing}]
        /\ outcome \in [Requests -> Outcomes] /\ outcome' \in [Requests -> Outcomes]
    BY <1>1, Zenon DEF TasksType
  <2>2. asked' = [asked EXCEPT ![r] = asked'[r]]
    BY <1>1, <2>1, ChangedOnlyThere
  <2>3. outcome' = [outcome EXCEPT ![r] = outcome'[r]]
    BY <1>1, <2>1, ChangedOnlyThere
  <2> QED
    BY <1>1, <2>2, <2>3, Zenon
<1>4. [q \in Requests |-> Tried(q)]' = [q \in Requests |-> Tried(q)]
  <2>1. \A q \in Requests : records'[q] = records[q]
    BY <1>1, Zenon
  <2>2. \A q \in Requests : Tried(q)' = Tried(q)
    BY <2>1, Zenon DEF Tried
  <2>3. [q \in Requests |-> Tried(q)]' = [q \in Requests |-> Tried(q)']
    OBVIOUS
  <2> QED
    BY <2>2, <2>3
<1> DEFINE offered == [c \in Kinds |-> {p \in Enabled : /\ OnRoute(c, p) \/ (c.restricted /\ p \in c.only)
                                                       /\ Permits(c, p)}]
           permitted == [c \in Kinds |-> {p \in Enabled : Permits(c, p)}]
           usable == [c \in Kinds |-> c.accepts]
           keys == [c \in Kinds |-> c.key]
<1>5. /\ offered[k] = Offers(k) /\ permitted[k] = {p \in Enabled : Permits(k, p)}
      /\ usable[k] = k.accepts /\ \A c \in Kinds : keys[c] = c.key
  BY DEF Offers
<1> HIDE DEF offered, permitted, usable, keys
<1>6. \/ outcome' = outcome
      \/ offered[k] = {} /\ outcome' = [outcome EXCEPT ![r] = Failure]
      \/ \E p \in permitted[k], t \in usable[k] :
           /\ \E q \in Requests : /\ asked[q] # Nothing
                                  /\ keys[asked[q]] = keys[k]
                                  /\ outcome[q] = AnswerOf(p, t)
           /\ outcome' = [outcome EXCEPT ![r] = AnswerOf(p, t)]
  <2>1. CASE ServeMove(r, k)
    <3>1. PICK i \in 1..Len(cache) : /\ Servable(k, cache[i])
                                     /\ outcome'[r] = AnswerOf(cache[i].by, cache[i].text)
      BY <2>1, Zenon DEF ServeMove
    <3>2. /\ cache[i].by \in permitted[k] /\ cache[i].text \in usable[k]
          /\ cache[i].key = k.key
      BY <1>5, <3>1 DEF Servable, MayServe
    <3>3. PICK q \in Requests : /\ asked[q] \in Kinds /\ asked[q].key = cache[i].key
                                /\ outcome[q] = AnswerOf(cache[i].by, cache[i].text)
      BY Zenon DEF CacheInv, Got
    <3>4. asked[q] # Nothing
      BY <3>3, RouterAssumption, Zenon
    <3>5. keys[asked[q]] = keys[k]
      BY <1>5, <3>2, <3>3
    <3> QED
      BY <1>3, <3>1, <3>2, <3>3, <3>4, <3>5, Zenon
  <2>2. CASE BeginMove(r, k)
    <3>1. CASE Later(k, at[r]) = {} /\ outcome'[r] = Failure
      <4>1. Candidates(k) = {}
        BY <1>2, <3>1 DEF Candidates
      <4>2. \A p : p \notin offered[k]
        BY <1>5, <4>1, OffersAreCandidates, Zenon
      <4>3. offered[k] = {}
        BY <4>2
      <4> QED
        BY <1>3, <3>1, <4>3, Zenon
    <3>2. CASE outcome'[r] = outcome[r]
      <4>1. outcome \in [Requests -> Outcomes]
        BY Zenon DEF TasksType
      <4>2. outcome' = outcome
        BY <1>3, <3>2, <4>1
      <4> QED
        BY <4>2
    <3> QED
      BY <2>2, <3>1, <3>2, Zenon DEF BeginMove, Advanced
  <2> QED
    BY <2>1, <2>2
<1>7. \A p, t : Promise!Answered(k, p, t) <=>
        \E q \in Requests : /\ asked[q] # Nothing
                            /\ keys[asked[q]] = keys[k]
                            /\ outcome[q] = AnswerOf(p, t)
  BY PromiseParts, Zenon DEF Promise!Answered, keys
<1>8. \/ UNCHANGED outcome
      \/ offered[k] = {} /\ outcome' = [outcome EXCEPT ![r] = Promise!Failure]
      \/ \E p \in permitted[k], t \in usable[k] :
           /\ Promise!Answered(k, p, t)
           /\ outcome' = [outcome EXCEPT ![r] = Promise!AnswerOf(p, t)]
  <2>1. CASE outcome' = outcome
    BY <2>1
  <2>2. CASE offered[k] = {} /\ outcome' = [outcome EXCEPT ![r] = Failure]
    BY <2>2, PromiseParts, Zenon
  <2>3. CASE \E p \in permitted[k], t \in usable[k] :
               /\ \E q \in Requests : /\ asked[q] # Nothing
                                      /\ keys[asked[q]] = keys[k]
                                      /\ outcome[q] = AnswerOf(p, t)
               /\ outcome' = [outcome EXCEPT ![r] = AnswerOf(p, t)]
    <3>1. PICK p \in permitted[k], t \in usable[k] :
            /\ \E q \in Requests : /\ asked[q] # Nothing
                                   /\ keys[asked[q]] = keys[k]
                                   /\ outcome[q] = AnswerOf(p, t)
            /\ outcome' = [outcome EXCEPT ![r] = AnswerOf(p, t)]
      BY <2>3, Zenon
    <3>2. Promise!Answered(k, p, t)
      BY <1>7, <3>1, Zenon
    <3>3. Promise!AnswerOf(p, t) = AnswerOf(p, t)
      BY PromiseParts, Zenon
    <3> QED
      BY <3>1, <3>2, <3>3, Zenon
  <2> QED
    BY <1>6, <2>1, <2>2, <2>3, Zenon
<1>9. UNCHANGED [q \in Requests |-> {p \in Enabled : records[q][p] # "none"}]
  BY <1>4, Zenon DEF Tried
<1> QED
  BY <1>2, <1>3, <1>8, <1>9, Zenon DEF Promise!Ask, offered, permitted, usable

\* An attempt ends: the provider counts as tried, and the request goes on, fails or is served.
LEMMA AttemptIsTry ==
  ASSUME TasksType, PlaceInv, NEW r \in Requests, TaskMove(r), NextMove(r) \/ AnswerMove(r)
  PROVE  Promise!Try(r, At(r))
<1> DEFINE k == asked[r]
           p == At(r)
<1>1. /\ pc[r] \in UnderWay /\ asked'[r] = k
      /\ \A q \in Requests : q # r => /\ asked'[q] = asked[q] /\ records'[q] = records[q]
                                      /\ outcome'[q] = outcome[q]
      /\ TasksType'
  BY DEF TaskMove, OnlyTask, NextMove, AnswerMove, UnderWay
<1>2. /\ k \in Kinds /\ p \in Enabled /\ outcome[r] = NoOutcome
  BY <1>1, AtCandidate, Zenon
<1>3. /\ p \in Offers(k) \ Tried(r)
      /\ Later(k, at[r]) = {} <=> Offers(k) \ Tried(r) = {p}
  BY <1>1, UntriedAreLater, Zenon
<1>4. Tried(r)' = Tried(r) \cup {p}
  <2>1. records'[r][p] # "none" /\ \A n \in Enabled : n # p => records'[r][n] = records[r][n]
    BY DEF NextMove, AnswerMove, Recorded
  <2> HIDE DEF p
  <2> QED
    BY <1>2, <2>1 DEF Tried
<1>5. k # Nothing
  BY <1>2, RouterAssumption, Zenon
<1> HIDE DEF k, p
<1>6. /\ asked' = asked
      /\ outcome' = [outcome EXCEPT ![r] = outcome'[r]]
      /\ outcome'[r] = outcome[r] => outcome' = outcome
  <2>1. /\ asked \in [Requests -> Kinds \cup {Nothing}] /\ asked' \in [Requests -> Kinds \cup {Nothing}]
        /\ outcome \in [Requests -> Outcomes] /\ outcome' \in [Requests -> Outcomes]
    BY <1>1, Zenon DEF TasksType
  <2>2. \A q \in Requests : asked'[q] = asked[q]
    BY <1>1, Zenon DEF k
  <2>3. asked' = asked
    BY <2>1, <2>2
  <2>4. outcome' = [outcome EXCEPT ![r] = outcome'[r]]
    BY <1>1, <2>1, ChangedOnlyThere
  <2>5. outcome'[r] = outcome[r] => outcome' = outcome
    BY <2>1, <2>4
  <2> QED
    BY <2>3, <2>4, <2>5, Zenon
<1>7. [q \in Requests |-> Tried(q)]' =
        [[q \in Requests |-> Tried(q)] EXCEPT ![r] = [q \in Requests |-> Tried(q)][r] \cup {p}]
  <2>1. [q \in Requests |-> Tried(q)]' = [[q \in Requests |-> Tried(q)] EXCEPT ![r] = Tried(r)']
    BY <1>1, TriedChanges, Zenon
  <2>2. [q \in Requests |-> Tried(q)][r] = Tried(r)
    OBVIOUS
  <2> QED
    BY <1>4, <2>1, <2>2, Zenon
<1>8. \/ Offers(k) \ Tried(r) # {p} /\ outcome' = outcome
      \/ Offers(k) \ Tried(r) = {p} /\ outcome' = [outcome EXCEPT ![r] = Failure]
      \/ \E t \in k.accepts : outcome' = [outcome EXCEPT ![r] = AnswerOf(p, t)]
  <2>1. CASE NextMove(r)
    <3>1. Advanced(r, k)
      BY <2>1, Zenon DEF NextMove, k
    <3>2. \/ Later(k, at[r]) = {} /\ outcome'[r] = Failure
          \/ outcome'[r] = outcome[r] /\ at'[r] \in Later(k, at[r])
      BY <3>1, Zenon DEF Advanced
    <3>3. at'[r] \in Later(k, at[r]) => Later(k, at[r]) # {}
      OBVIOUS
    <3> QED
      BY <1>3, <1>6, <3>2, <3>3, Zenon
  <2>2. CASE AnswerMove(r)
    BY <1>6, <2>2, Zenon DEF AnswerMove, k, p
  <2> QED
    BY <2>1, <2>2
<1>9. [c \in Kinds |-> c.accepts][k] = k.accepts
  BY <1>2
<1>10. Promise!Pending(r) /\ Promise!Untried(r) = Offers(k) \ Tried(r)
  BY <1>2, <1>5, PromiseParts, Zenon DEF Promise!Pending, k
<1> QED
  BY <1>3, <1>6, <1>7, <1>8, <1>9, <1>10, PromiseParts, Zenon DEF Promise!Try, Tried, k, p

LEMMA CancelIsCancel ==
  ASSUME TasksType, PlaceInv, NEW r \in Requests, TaskMove(r), CancelMove(r)
  PROVE  Promise!Cancel(r)
<1>1. /\ pc[r] \in UnderWay /\ outcome'[r] = Cancelled
      /\ \A q \in Requests : asked'[q] = asked[q] /\ records'[q] = records[q]
      /\ \A q \in Requests : q # r => outcome'[q] = outcome[q]
      /\ TasksType'
  BY Zenon DEF TaskMove, OnlyTask, CancelMove
<1>2. asked[r] \in Kinds /\ outcome[r] = NoOutcome /\ asked[r] # Nothing
  BY <1>1, AtCandidate, RouterAssumption, Zenon
<1>3. /\ asked \in [Requests -> Kinds \cup {Nothing}] /\ asked' \in [Requests -> Kinds \cup {Nothing}]
      /\ outcome \in [Requests -> Outcomes] /\ outcome' \in [Requests -> Outcomes]
      /\ records \in [Requests -> [Enabled -> Status]] /\ records' \in [Requests -> [Enabled -> Status]]
  BY <1>1, Zenon DEF TasksType
<1>4. asked' = asked /\ records' = records
  BY <1>1, <1>3
<1>5. outcome' = [outcome EXCEPT ![r] = outcome'[r]]
  BY <1>1, <1>3, ChangedOnlyThere
<1>6. outcome' = [outcome EXCEPT ![r] = Promise!Cancelled]
  BY <1>1, <1>5, PromiseParts, Zenon
<1>7. UNCHANGED <<asked, [q \in Requests |-> {p \in Enabled : records[q][p] # "none"}]>>
  BY <1>4
<1>8. Promise!Pending(r)
  BY <1>2, PromiseParts, Zenon DEF Promise!Pending
<1> QED
  BY <1>6, <1>7, <1>8, Zenon DEF Promise!Cancel

\* Reserving, queueing and calling are nobody else's business.
LEMMA WaitIsStutter ==
  ASSUME TasksType, NEW r \in Requests, TaskMove(r), WaitMove(r)
  PROVE  UNCHANGED <<asked, records, outcome>>
<1>1. /\ \A q \in Requests : /\ asked'[q] = asked[q] /\ records'[q] = records[q]
                             /\ outcome'[q] = outcome[q]
      /\ TasksType'
  BY Zenon DEF TaskMove, OnlyTask, WaitMove
<1>2. /\ asked \in [Requests -> Kinds \cup {Nothing}] /\ asked' \in [Requests -> Kinds \cup {Nothing}]
      /\ outcome \in [Requests -> Outcomes] /\ outcome' \in [Requests -> Outcomes]
      /\ records \in [Requests -> [Enabled -> Status]] /\ records' \in [Requests -> [Enabled -> Status]]
  BY <1>1, Zenon DEF TasksType
<1>3. asked' = asked /\ records' = records /\ outcome' = outcome
  BY <1>1, <1>2
<1> QED
  BY <1>3

LEMMA StepKeepsPromise ==
  ASSUME TasksType, SharedType, PlaceInv, CacheInv, [Next]_vars
  PROVE  [Promise!Next]_Promise!vars
<1>1. ASSUME UNCHANGED <<asked, records, outcome>>
      PROVE  UNCHANGED Promise!vars
  <2>1. asked' = asked /\ records' = records /\ outcome' = outcome
    BY <1>1
  <2> QED
    BY <2>1 DEF Promise!vars
<1>2. SameTasks => UNCHANGED <<asked, records, outcome>>
  BY DEF SameTasks
<1>3. ASSUME NEW r \in Requests, TaskMove(r)
      PROVE  [Promise!Next]_Promise!vars
  <2>1. ASSUME NEW k \in Kinds, ServeMove(r, k) \/ BeginMove(r, k)
        PROVE  Promise!Next
    BY <1>3, <2>1, StartIsAsk, Zenon DEF Promise!Next
  <2>2. CASE NextMove(r) \/ AnswerMove(r)
    <3>1. At(r) \in Enabled
      BY <2>2, AtCandidate DEF NextMove, AnswerMove, UnderWay
    <3> QED
      BY <1>3, <2>2, <3>1, AttemptIsTry, Zenon DEF Promise!Next, Promise!Try
  <2>3. CASE CancelMove(r)
    BY <1>3, <2>3, CancelIsCancel, Zenon DEF Promise!Next
  <2>4. CASE WaitMove(r)
    BY <1>1, <1>3, <2>4, WaitIsStutter, Zenon
  <2> QED
    BY <1>3, <2>1, <2>2, <2>3, <2>4, Zenon DEF TaskMove
<1> QED
  BY <1>1, <1>2, <1>3, TaskMoves, Zenon

\* Router.complete keeps what Failover promises (router.py, cache.py, routing.md), for any
\* number of providers, requests and slots: consent, exclusions and restrictions are
\* respected even by cached answers, and no request fails before every provider it
\* offers itself to was tried.
THEOREM RouterImplementsFailover == Spec => ImplementsFailover
<1>1. Init => Promise!Init
  <2> SUFFICES ASSUME Init PROVE Promise!Init
    OBVIOUS
  <2>1. [r \in Requests |-> {p \in Enabled : records[r][p] # "none"}] = [r \in Requests |-> {}]
    BY DEF Init
  <2>2. asked = [r \in Requests |-> Nothing] /\ outcome = [r \in Requests |-> Promise!NoOutcome]
    BY DEF Init, Promise!NoOutcome, NoOutcome
  <2> QED
    BY <2>1, <2>2, Zenon DEF Promise!Init
<1>2. IInv /\ [Next]_vars => [Promise!Next]_Promise!vars
  BY StepKeepsPromise, Zenon DEF IInv
<1> QED
  BY <1>1, <1>2, Invariant, PTL DEF Spec, ImplementsFailover, Promise!Spec

=============================================================================

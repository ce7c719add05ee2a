------------------------------- MODULE Router -------------------------------
(***************************************************************************)
(* Router.complete (app/llm/router.py) for concurrent requests: the cache, *)
(* the candidates of a request, and for each candidate the breaker, the    *)
(* reservation, the concurrency slot and the call.  Slots are those of     *)
(* asyncio.Semaphore, which hands a slot that is released to the first     *)
(* task in line; that task may still be cancelled before it runs.          *)
(*                                                                         *)
(* The numbers are in other modules: how long a limiter makes a request    *)
(* wait is left open (RateLimiter), and so is how many failures open a     *)
(* breaker and how long it stays open (CircuitBreaker).  Actions are what  *)
(* happens between two awaits, save that a request moves on to its next    *)
(* candidate in a step of its own, which only adds interleavings.          *)
(***************************************************************************)
EXTENDS Naturals, FiniteSets, SequencesExt

CONSTANTS
  Requests,
  Names,        \* all provider names there are, sorted
  Enabled,      \* the providers of the router
  External,     \* those outside this machine
  Concurrency,  \* Concurrency[p]: slots of p's semaphore
  Kinds,        \* what requests may ask for
  Wants,        \* Wants[r]: the kinds request r may be of
  Texts,        \* answers, as far as validators tell them apart
  MaxEntries,   \* size of the response cache
  Nothing       \* no kind, provider or text

Providers == {Names[i] : i \in 1..Len(Names)}

\* A kind's route: the task's preferences, none of them twice; restricted, only:
\* only_providers, unless it is None; accepts: the answers the caller's
\* validator does not reject; key: see cache_key.
ASSUME RouterAssumption ==
  /\ Names \in Seq(Providers)
  /\ \A i, j \in 1..Len(Names) : Names[i] = Names[j] => i = j
  /\ Enabled \subseteq Providers
  /\ Concurrency \in [Providers -> Nat \ {0}]
  /\ MaxEntries \in Nat
  /\ Wants \in [Requests -> SUBSET Kinds]
  /\ \A k \in Kinds :
       /\ k.route \in Seq(Providers)
       /\ \A i, j \in 1..Len(k.route) : k.route[i] = k.route[j] => i = j
       /\ k.only \subseteq Providers
       /\ k.exclude \subseteq Providers
       /\ k.accepts \subseteq Texts
       /\ {k.restricted, k.consent, k.interactive} \subseteq BOOLEAN
  /\ Nothing \notin Kinds \cup Providers \cup Texts

VARIABLES
  asked,     \* asked[r]: the kind of request r
  pc,        \* where its task stands
  at,        \* at[r]: how far its candidates have been looked at
  records,   \* records[r][p]: status of the CallRecord for p
  outcome,   \* what complete() returned or raised
  cost,      \* cost[r][p]: what p's limiter still counts for r
  sem,       \* sem[p]: free slots, tasks in line, how many of these, from
             \* the first, have been handed a slot
  breaker,   \* breaker[p]: closed, open, half open, or that with a probe
  cache,     \* entries, least recently used first
  resting    \* history: providers whose pause is not over

vars == <<asked, pc, at, records, outcome, cost, sem, breaker, cache, resting>>

NoOutcome == [end |-> "none", by |-> Nothing, text |-> Nothing]
AnswerOf(p, t) == [end |-> "answer", by |-> p, text |-> t]
Failure == [NoOutcome EXCEPT !.end = "failed"]
Cancelled == [NoOutcome EXCEPT !.end = "cancelled"]

-----------------------------------------------------------------------------
(* _permits, _may_serve and _candidates.                                   *)

Permits(k, p) ==
  /\ p \notin k.exclude
  /\ k.restricted => p \in k.only
  /\ k.consent \/ p \notin External

MayServe(k, p) == p \in Enabled /\ Permits(k, p)

OnRoute(k, p) == \E i \in 1..Len(k.route) : k.route[i] = p

\* The order of candidates: the route, then all names, of which only those count
\* that the request names and that are not on the route.
Name(k, i) == IF i <= Len(k.route) THEN k.route[i] ELSE Names[i - Len(k.route)]

Listed(k, i) ==
  \/ i <= Len(k.route)
  \/ k.restricted /\ Name(k, i) \in k.only /\ ~ OnRoute(k, Name(k, i))

\* The generator's candidates after position i, and the first of them.
Later(k, i) ==
  {j \in (i + 1)..(Len(k.route) + Len(Names)) : Listed(k, j) /\ MayServe(k, Name(k, j))}

First(positions) == CHOOSE i \in positions : \A j \in positions : i <= j

\* The provider r is at.
At(r) == Name(asked[r], at[r])

-----------------------------------------------------------------------------
(* ResponseCache.  A key has at most one entry.                            *)

Cached(key) == \E i \in 1..Len(cache) : cache[i].key = key
EntryOf(key) == CHOOSE i \in 1..Len(cache) : cache[i].key = key

\* get: the entry becomes the most recently used one, served or not.
Touched(key) ==
  IF Cached(key) THEN Append(RemoveAt(cache, EntryOf(key)), cache[EntryOf(key)])
  ELSE cache

\* The entries once this one is the newest, none evicted.
With(key, p, t) ==
  Append(IF Cached(key) THEN RemoveAt(cache, EntryOf(key)) ELSE cache,
         [key |-> key, by |-> p, text |-> t])

\* A plausible slip: evicting once the cache is beyond its size.
PutOneTooMany(key, p, t) ==
  IF Len(With(key, p, t)) > MaxEntries + 1 THEN Tail(With(key, p, t))
  ELSE With(key, p, t)

\* put: the least recently used entry makes room.
Put(key, p, t) ==
  IF MaxEntries = 0 THEN cache
  ELSE IF Len(With(key, p, t)) > MaxEntries THEN Tail(With(key, p, t))
  ELSE With(key, p, t)

\* A plausible slip: the provider of a cached answer is not checked again.
ServableIfUsable(k, e) == e.key = k.key /\ e.text \in k.accepts

Servable(k, e) == e.key = k.key /\ MayServe(k, e.by) /\ e.text \in k.accepts

-----------------------------------------------------------------------------
(* asyncio.Semaphore.                                                      *)

Locked(s) == s.free = 0 \/ s.waiters # <<>>

\* Up to n tasks in line that have not been handed a slot get one.
Wake(s, n) ==
  LET idle == Len(s.waiters) - s.handed
      count == IF n <= idle THEN n ELSE idle
  IN  [s EXCEPT !.free = @ - count, !.handed = @ + count]

\* A plausible slip: nobody is told of the slot.
ReleaseSilently(s) == [s EXCEPT !.free = @ + 1]

Release(s) == Wake([s EXCEPT !.free = @ + 1], 1)

Place(s, r) == CHOOSE i \in 1..Len(s.waiters) : s.waiters[i] = r
Handed(s, r) == \E i \in 1..s.handed : s.waiters[i] = r

\* r leaves the line and keeps the slot it may have been handed.
OutOfLine(s, r) ==
  [free    |-> s.free,
   waiters |-> RemoveAt(s.waiters, Place(s, r)),
   handed  |-> IF Handed(s, r) THEN s.handed - 1 ELSE s.handed]

\* A task that was handed a slot runs; whoever came meanwhile is served too.
Arrive(s, r) == Wake(OutOfLine(s, r), s.free)

\* A plausible slip: a slot that was handed to a task which gives up is lost.
LeaveWithSlot(s, r) == Wake(OutOfLine(s, r), s.free)

\* A task in line is cancelled; a slot it was handed goes to the next.
Leave(s, r) ==
  LET free == IF Handed(s, r) THEN s.free + 1 ELSE s.free
  IN  Wake([OutOfLine(s, r) EXCEPT !.free = free], free)

-----------------------------------------------------------------------------
(* Steps of a request.                                                     *)

Init ==
  /\ asked = [r \in Requests |-> Nothing]
  /\ pc = [r \in Requests |-> "idle"]
  /\ at = [r \in Requests |-> 0]
  /\ records = [r \in Requests |-> [p \in Enabled |-> "none"]]
  /\ outcome = [r \in Requests |-> NoOutcome]
  /\ cost = [r \in Requests |-> [p \in Enabled |-> "none"]]
  /\ sem = [p \in Enabled |-> [free |-> Concurrency[p], waiters |-> <<>>, handed |-> 0]]
  /\ breaker = [p \in Enabled |-> "closed"]
  /\ cache = <<>>
  /\ resting = {}

\* r is over, with outcome o.
End(r, o) ==
  /\ pc' = [pc EXCEPT ![r] = "over"]
  /\ outcome' = [outcome EXCEPT ![r] = o]
  /\ UNCHANGED at

\* The next of the candidates, or AllProvidersUnavailableError.
NextCandidate(r, k) ==
  IF Later(k, at[r]) = {}
  THEN End(r, Failure)
  ELSE /\ pc' = [pc EXCEPT ![r] = "trying"]
       /\ at' = [at EXCEPT ![r] = First(Later(k, @))]
       /\ UNCHANGED outcome

\* complete() records the attempt and goes on.
MoveOn(r, status) ==
  /\ records' = [records EXCEPT ![r][At(r)] = status]
  /\ NextCandidate(r, asked[r])
  /\ UNCHANGED asked

SetCost(r, c) == cost' = [cost EXCEPT ![r][At(r)] = c]
SetSem(p, s) == sem' = [sem EXCEPT ![p] = s]
SetBreaker(p, b) == breaker' = [breaker EXCEPT ![p] = b]

\* complete() with a cached answer that may be served.
Serve(r, k) ==
  /\ pc[r] = "idle"
  /\ \E i \in 1..Len(cache) :
       /\ Servable(k, cache[i])
       /\ End(r, AnswerOf(cache[i].by, cache[i].text))
  /\ asked' = [asked EXCEPT ![r] = k]
  /\ cache' = Touched(k.key)
  /\ UNCHANGED <<records, cost, sem, breaker, resting>>

\* complete() without one.
Begin(r, k) ==
  /\ pc[r] = "idle"
  /\ \A i \in 1..Len(cache) : ~ Servable(k, cache[i])
  /\ asked' = [asked EXCEPT ![r] = k]
  /\ NextCandidate(r, k)
  /\ cache' = Touched(k.key)
  /\ UNCHANGED <<records, cost, sem, breaker, resting>>

\* _attempt's early returns: the breaker is open, or the wait too long.
Skip(r) ==
  /\ pc[r] = "trying"
  /\ MoveOn(r, "skipped")
  /\ UNCHANGED <<cost, sem, breaker, cache, resting>>

\* reserve, and then the wait, which may be none.
Reserve(r) ==
  /\ pc[r] = "trying"
  /\ breaker[At(r)] # "open"
  /\ SetCost(r, "estimate")
  /\ pc' = [pc EXCEPT ![r] = "waiting"]
  /\ UNCHANGED <<asked, at, records, outcome, sem, breaker, cache, resting>>

\* CircuitBreaker.allows: every call when closed, one probe when half open.
Allows(p) == breaker[p] \in {"closed", "half"}

\* A plausible slip: a call the breaker refuses keeps its reservation.
RefusedKeepingCost(r, s) ==
  /\ SetSem(At(r), Release(s))
  /\ MoveOn(r, "skipped")
  /\ UNCHANGED <<cost, breaker>>

\* The breaker refuses: the reservation and the slot are given back.
Refused(r, s) ==
  /\ SetSem(At(r), Release(s))
  /\ SetCost(r, "none")
  /\ MoveOn(r, "skipped")
  /\ UNCHANGED breaker

\* With its slot, the request asks the breaker and calls in the same step.
Admission(r, s) ==
  \/ /\ Allows(At(r))
     /\ SetSem(At(r), s)
     /\ SetBreaker(At(r), IF breaker[At(r)] = "half" THEN "probing" ELSE "closed")
     /\ pc' = [pc EXCEPT ![r] = "calling"]
     /\ UNCHANGED <<asked, at, records, outcome, cost>>
  \/ ~ Allows(At(r)) /\ Refused(r, s)

\* The wait is over and a slot is free.
TakeSlot(r) ==
  /\ pc[r] = "waiting"
  /\ ~ Locked(sem[At(r)])
  /\ Admission(r, [sem[At(r)] EXCEPT !.free = @ - 1])
  /\ UNCHANGED <<cache, resting>>

\* The wait is over and the provider is busy.
Queue(r) ==
  /\ pc[r] = "waiting"
  /\ Locked(sem[At(r)])
  /\ SetSem(At(r), [sem[At(r)] EXCEPT !.waiters = Append(@, r)])
  /\ pc' = [pc EXCEPT ![r] = "queueing"]
  /\ UNCHANGED <<asked, at, records, outcome, cost, breaker, cache, resting>>

\* The task runs again with the slot it was handed.
Resume(r) ==
  /\ pc[r] = "queueing"
  /\ Handed(sem[At(r)], r)
  /\ Admission(r, Arrive(sem[At(r)], r))
  /\ UNCHANGED <<cache, resting>>

\* The wait budget of an interactive request is spent.
GiveUp(r) ==
  /\ pc[r] = "queueing"
  /\ asked[r].interactive
  /\ SetSem(At(r), Leave(sem[At(r)], r))
  /\ SetCost(r, "none")
  /\ MoveOn(r, "skipped")
  /\ UNCHANGED <<breaker, cache, resting>>

-----------------------------------------------------------------------------
(* Outcomes of a call, each of which gives the slot back.                  *)

\* A plausible slip: any success closes the breaker.
AlwaysCloses(p) == "closed"

\* record_success: a success from before the pause does not end it.
AfterSuccess(p) == IF breaker[p] = "open" THEN "open" ELSE "closed"

\* settle, if the answer says what it used.
Answer(r, t) ==
  /\ pc[r] = "calling"
  /\ t \in asked[r].accepts
  /\ SetBreaker(At(r), AfterSuccess(At(r)))
  /\ \E c \in {"used", "estimate"} : SetCost(r, c)
  /\ SetSem(At(r), Release(sem[At(r)]))
  /\ cache' = Put(asked[r].key, At(r), t)
  /\ records' = [records EXCEPT ![r][At(r)] = "ok"]
  /\ End(r, AnswerOf(At(r), t))
  /\ UNCHANGED <<asked, resting>>

\* The provider rejects the request or the validator its answer.
Reject(r) ==
  /\ pc[r] = "calling"
  /\ SetBreaker(At(r), IF breaker[At(r)] = "probing" THEN "half" ELSE breaker[At(r)])
  /\ SetSem(At(r), Release(sem[At(r)]))
  /\ MoveOn(r, "rejected")
  /\ UNCHANGED <<cost, cache, resting>>

\* A timeout or an error that may pass: enough of them open a closed breaker.
Unavailable(r) ==
  /\ pc[r] = "calling"
  /\ \/ SetBreaker(At(r), "open") /\ resting' = resting \cup {At(r)}
     \/ breaker[At(r)] = "closed" /\ UNCHANGED <<breaker, resting>>
  /\ SetSem(At(r), Release(sem[At(r)]))
  /\ MoveOn(r, "unavailable")
  /\ UNCHANGED <<cost, cache>>

\* A rate limit, a quota, a rejected key or a wrong configuration: the provider
\* is paused, and the tokens come back.
RefusedCall(r) ==
  /\ pc[r] = "calling"
  /\ SetBreaker(At(r), "open")
  /\ resting' = resting \cup {At(r)}
  /\ SetCost(r, "slot")
  /\ SetSem(At(r), Release(sem[At(r)]))
  /\ MoveOn(r, "refused")
  /\ UNCHANGED cache

\* The scan is cancelled while the request awaits something.
Cancel(r) ==
  /\ pc[r] \in {"waiting", "queueing", "calling"}
  /\ sem' = [sem EXCEPT ![At(r)] = CASE pc[r] = "waiting"  -> @
                                     [] pc[r] = "queueing" -> Leave(@, r)
                                     [] pc[r] = "calling"  -> Release(@)]
  /\ End(r, Cancelled)
  /\ UNCHANGED <<asked, records, cost, breaker, cache, resting>>

\* Time passes: a pause is over, or the time of a probe.
PauseEnds(p) ==
  /\ breaker[p] = "open"
  /\ SetBreaker(p, "half")
  /\ resting' = resting \ {p}
  /\ UNCHANGED <<asked, pc, at, records, outcome, cost, sem, cache>>

ProbeLapses(p) ==
  /\ breaker[p] = "probing"
  /\ SetBreaker(p, "half")
  /\ UNCHANGED <<asked, pc, at, records, outcome, cost, sem, cache, resting>>

CallEnds(r) ==
  \/ \E t \in Texts : Answer(r, t)
  \/ Reject(r)
  \/ Unavailable(r)
  \/ RefusedCall(r)

Proceed(r) ==
  Skip(r) \/ Reserve(r) \/ TakeSlot(r) \/ Queue(r) \/ Resume(r) \/ GiveUp(r) \/ CallEnds(r)

Next ==
  \/ \E r \in Requests :
       \/ \E k \in Wants[r] : Serve(r, k) \/ Begin(r, k)
       \/ Proceed(r)
       \/ Cancel(r)
  \/ \E p \in Enabled : PauseEnds(p) \/ ProbeLapses(p)

\* The event loop runs every task that can go on, waits are bounded by
\* max_wait_seconds, and asyncio.timeout ends every call.
Fairness == \A r \in Requests : WF_vars(Proceed(r))

Spec == Init /\ [][Next]_vars /\ Fairness

-----------------------------------------------------------------------------
(* Properties.                                                             *)

Status == {"none", "skipped", "refused", "rejected", "unavailable", "ok"}
Costs == {"none", "estimate", "slot", "used"}

\* The state has the shape of the code's; the cache never outgrows its size.
TypeOK ==
  /\ asked \in [Requests -> Kinds \cup {Nothing}]
  /\ pc \in [Requests -> {"idle", "trying", "waiting", "queueing", "calling", "over"}]
  /\ at \in [Requests -> Nat]
  /\ records \in [Requests -> [Enabled -> Status]]
  /\ outcome \in [Requests -> [end : {"none", "answer", "failed", "cancelled"},
                               by : Enabled \cup {Nothing},
                               text : Texts \cup {Nothing}]]
  /\ cost \in [Requests -> [Enabled -> Costs]]
  /\ sem \in [Enabled -> [free : Nat, waiters : Seq(Requests), handed : Nat]]
  /\ breaker \in [Enabled -> {"closed", "open", "half", "probing"}]
  /\ cache \in Seq([key : {k.key : k \in Kinds}, by : Enabled, text : Texts])
  /\ Len(cache) <= MaxEntries
  /\ resting \subseteq Enabled

Calling(p) == {r \in Requests : pc[r] = "calling" /\ At(r) = p}

\* router.py:196-207 with asyncio.Semaphore: whatever is cancelled, refused or
\* given up, and whenever, no slot of a provider is lost or used twice, and none
\* lies idle while a request that no other precedes could use it.
SlotsConserved ==
  \A p \in Enabled :
    /\ sem[p].free + sem[p].handed + Cardinality(Calling(p)) = Concurrency[p]
    /\ sem[p].free > 0 /\ sem[p].waiters # <<>> => sem[p].handed > 0

\* routing.md:50-51 and :70, router.py:225: what the limiters count for a request
\* is what its records say, however an attempt ended: nothing when the provider
\* was not asked, no tokens when it refused, the estimate when nobody knows.
CostsMatchRecords ==
  \A r \in Requests : \A p \in Enabled :
    cost[r][p] \in CASE records[r][p] = "skipped" -> {"none"}
                     [] records[r][p] = "refused" -> {"slot"}
                     [] records[r][p] \in {"rejected", "unavailable"} -> {"estimate"}
                     [] records[r][p] = "ok" -> {"used", "estimate"}
                     [] OTHER -> IF outcome[r] = Cancelled THEN {"none", "estimate"}
                                 ELSE IF pc[r] \in {"waiting", "queueing", "calling"} /\ At(r) = p
                                 THEN {"estimate"} ELSE {"none"}

\* router.py:200-204, routing.md:50 and :72: from the moment a provider is paused until
\* the pause is over no call to it begins, not even of requests that were under
\* way already, and not after a call from before the pause succeeds.
PausedProvidersRest ==
  [][\A r \in Requests :
       pc[r] # "calling" /\ pc'[r] = "calling" => At(r) \notin resting]_vars

\* Router.complete keeps the promise of Failover: consent, exclusions and
\* restrictions are respected even by answers out of the cache, answers are
\* usable, and a request fails only after every provider it permits was tried.
Promise == INSTANCE Failover WITH
  tried <- [r \in Requests |-> {p \in Enabled : records[r][p] # "none"}],
  Providers <- Enabled,
  Offered <- [k \in Kinds |-> {p \in Enabled :
                /\ OnRoute(k, p) \/ (k.restricted /\ p \in k.only)
                /\ Permits(k, p)}],
  Permitted <- [k \in Kinds |-> {p \in Enabled : Permits(k, p)}],
  Usable <- [k \in Kinds |-> k.accepts],
  Key <- [k \in Kinds |-> k.key]

ImplementsFailover == Promise!Spec

\* Every request ends, however slots, pauses and cancellations interleave.
EveryRequestEnds == \A r \in Requests : pc[r] # "idle" ~> pc[r] = "over"

=============================================================================

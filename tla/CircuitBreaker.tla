--------------------------- MODULE CircuitBreaker ---------------------------
(***************************************************************************)
(* One provider's CircuitBreaker (app/llm/breaker.py) under the calls that *)
(* Router._attempt and Router._call (app/llm/router.py) make of it.  Calls *)
(* run concurrently, so an outcome may report on a call that started long  *)
(* before the state it is recorded in.                                     *)
(*                                                                         *)
(* The code keeps the clock times at which pauses and probes end; the      *)
(* model keeps how far ahead they are, so that time needs no bound.  The   *)
(* failure count stops at the threshold, above which it is not told apart. *)
(***************************************************************************)
EXTENDS Integers

CONSTANTS
  Calls,             \* calls that may be in flight at once, reused when over
  FailureThreshold,  \* failures without a success between that open it
  Cooldown,          \* length of the pause after failures
  MaxBackoff,        \* longest backoff after rate limits that name no delay
  MaxExponent,       \* _MAX_BACKOFF_EXPONENT, which keeps 2.0**n from overflowing
  CallTimeout,       \* the provider's timeout, which is also the probe timeout
  RetryAfters,       \* delays that rate-limit responses may name
  Pauses             \* pauses of exhausted quotas, rejected keys, bad config

ASSUME BreakerAssumption ==
  /\ FailureThreshold \in Nat \ {0}
  /\ Cooldown \in Nat \ {0}
  /\ MaxBackoff \in Nat \ {0}
  /\ MaxExponent \in Nat \ {0}
  /\ CallTimeout \in Nat \ {0}
  /\ RetryAfters \subseteq Nat
  /\ Pauses \subseteq Nat

VARIABLES
  failures,    \* _failures, up to the threshold
  rateLimits,  \* _rate_limits, up to the largest exponent
  openLeft,    \* _open_until: ticks from now, Past once over, or None
  probeLeft,   \* _probe_until: ticks from now, 0 once over, or None
  left,        \* left[c]: ticks until call c times out, or Idle
  promised,    \* history: longest pause asked for so far, ticks from now
  probes,      \* history: calls in flight admitted as probes since the last pause
  unanswered   \* history: those of them after whose admission nothing reported

breaker == <<failures, rateLimits, openLeft, probeLeft>>
vars == <<failures, rateLimits, openLeft, probeLeft, left, promised, probes,
          unanswered>>

Past == -1
None == -2
Idle == -1

Least(a, b) == IF a <= b THEN a ELSE b
Greatest(a, b) == IF a >= b THEN a ELSE b

InFlight == {c \in Calls : left[c] # Idle}

-----------------------------------------------------------------------------
(* CircuitBreaker.state and allows().                                      *)

Closed == openLeft = None
Open == openLeft > 0
HalfOpen == ~ Closed /\ ~ Open

\* A plausible slip: a probe keeps its slot until it reports.
AllowsNextAfterReport == Closed \/ (HalfOpen /\ probeLeft = None)

\* What allows() answers: all calls when closed, none when open, and one probe
\* for each probe timeout when half open.
Allows == Closed \/ (HalfOpen /\ probeLeft \in {None, 0})

\* A plausible slip: the constructor's default, the cooldown, for the slot.
ProbeSlotForCooldown == IF HalfOpen THEN Cooldown ELSE probeLeft

\* What allows() does when it answers yes.
ProbeSlotTaken == IF HalfOpen THEN CallTimeout ELSE probeLeft

-----------------------------------------------------------------------------
(* The breaker's reactions.  A pause of 0 ticks is half open at once.      *)

\* A plausible slip: the latest pause wins, however short.
LatestPause(ticks) == ticks > 0 \/ openLeft <= 0

\* _open_for's early return: a longer or equal pause is in force already.
Lengthens(ticks) == openLeft < ticks

\* A plausible slip: a new pause leaves the probe slot of the last one taken.
OpenForKeepingProbe(ticks) ==
  /\ promised' = Greatest(promised, ticks)
  /\ openLeft' = IF Lengthens(ticks) THEN ticks ELSE openLeft
  /\ UNCHANGED probeLeft

OpenFor(ticks) ==
  /\ promised' = Greatest(promised, ticks)
  /\ IF Lengthens(ticks)
     THEN openLeft' = ticks /\ probeLeft' = None
     ELSE UNCHANGED <<openLeft, probeLeft>>

\* A plausible slip: an exponent that grows with every rate limit.
Unbounded(n) == n

\* The exponent of the backoff, and the backoff: 2, 4, 8 ... up to MaxBackoff.
Exponent(n) == Least(n, MaxExponent)
Backoff(n) == Least(2 ^ n, MaxBackoff)

RecordSuccess ==
  /\ IF Open
     THEN UNCHANGED breaker
     ELSE failures' = 0 /\ rateLimits' = 0 /\ openLeft' = None /\ probeLeft' = None
  /\ UNCHANGED promised

RecordRejection ==
  /\ probeLeft' = None
  /\ UNCHANGED <<failures, rateLimits, openLeft, promised>>

\* Whether a failure, counted already, opens the breaker.
OpensAt(count) == HalfOpen \/ count >= FailureThreshold

RecordFailure ==
  /\ failures' = Least(failures + 1, FailureThreshold)
  /\ IF OpensAt(failures')
     THEN OpenFor(Cooldown)
     ELSE UNCHANGED <<openLeft, probeLeft, promised>>
  /\ UNCHANGED rateLimits

\* retry_after given: the pause is what the provider asks for.
RecordRateLimit(ticks) ==
  /\ rateLimits' = Exponent(rateLimits + 1)
  /\ OpenFor(ticks)
  /\ UNCHANGED failures

RecordRateLimitWithoutDelay ==
  /\ rateLimits' = Exponent(rateLimits + 1)
  /\ OpenFor(Backoff(rateLimits'))
  /\ UNCHANGED failures

Pause(ticks) ==
  /\ OpenFor(ticks)
  /\ UNCHANGED <<failures, rateLimits>>

-----------------------------------------------------------------------------
(* Calls.                                                                  *)

Init ==
  /\ failures = 0
  /\ rateLimits = 0
  /\ openLeft = None
  /\ probeLeft = None
  /\ left = [c \in Calls |-> Idle]
  /\ promised = 0
  /\ probes = {}
  /\ unanswered = {}

\* Router._attempt asks allows() and calls the provider in the same step.
Start(c) ==
  /\ left[c] = Idle
  /\ Allows
  /\ probeLeft' = ProbeSlotTaken
  /\ left' = [left EXCEPT ![c] = CallTimeout]
  /\ probes' = IF HalfOpen THEN probes \cup {c} ELSE probes
  /\ unanswered' = IF HalfOpen THEN unanswered \cup {c} ELSE unanswered
  /\ UNCHANGED <<failures, rateLimits, openLeft, promised>>

\* The histories after call c reports: a pause that begins has no probes yet.
Reported(c) ==
  /\ left' = [left EXCEPT ![c] = Idle]
  /\ probes' = IF openLeft' # openLeft THEN {} ELSE probes \ {c}
  /\ unanswered' = {}

Succeed(c) == c \in InFlight /\ RecordSuccess /\ Reported(c)
Reject(c) == c \in InFlight /\ RecordRejection /\ Reported(c)
\* Any transient failure, the timeout of Router._call among them.
Fail(c) == c \in InFlight /\ RecordFailure /\ Reported(c)
RateLimited(c) ==
  /\ c \in InFlight
  /\ \/ \E ticks \in RetryAfters : RecordRateLimit(ticks)
     \/ RecordRateLimitWithoutDelay
  /\ Reported(c)
\* open_for(seconds), and open_until(moment), which pauses for the cooldown
\* when the moment is sooner.
OutOfService(c) ==
  /\ c \in InFlight
  /\ \E ticks \in Pauses : Pause(ticks) \/ Pause(Greatest(ticks, Cooldown))
  /\ Reported(c)

\* The scan is cancelled: the call reports nothing.
Vanish(c) ==
  /\ c \in InFlight
  /\ left' = [left EXCEPT ![c] = Idle]
  /\ probes' = probes \ {c}
  /\ unanswered' = unanswered \ {c}
  /\ UNCHANGED <<failures, rateLimits, openLeft, probeLeft, promised>>

\* Time passes, but asyncio.timeout ends every call in time.
Tick ==
  /\ \A c \in InFlight : left[c] > 0
  /\ openLeft' = IF Closed THEN None ELSE Greatest(openLeft - 1, Past)
  /\ probeLeft' = IF probeLeft = None THEN None ELSE Greatest(probeLeft - 1, 0)
  /\ promised' = Greatest(promised - 1, 0)
  /\ left' = [c \in Calls |-> IF left[c] = Idle THEN Idle ELSE left[c] - 1]
  /\ UNCHANGED <<failures, rateLimits, probes, unanswered>>

Next ==
  \/ Tick
  \/ \E c \in Calls :
       \/ Start(c)
       \/ Succeed(c)
       \/ Reject(c)
       \/ Fail(c)
       \/ RateLimited(c)
       \/ OutOfService(c)
       \/ Vanish(c)

\* Time goes on, and a call whose time is up fails.
Fairness ==
  /\ WF_vars(Tick)
  /\ \A c \in Calls : WF_vars(left[c] = 0 /\ Fail(c))

Spec == Init /\ [][Next]_vars /\ Fairness

-----------------------------------------------------------------------------
(* Properties.                                                             *)

\* The state has the shape of the code's; above all the exponent of the backoff
\* stays small however many rate limits follow one another.
TypeOK ==
  /\ failures \in 0..FailureThreshold
  /\ rateLimits \in 0..MaxExponent
  /\ openLeft \in Nat \cup {Past, None}
  /\ probeLeft \in 0..CallTimeout \cup {None}
  /\ left \in [Calls -> 0..CallTimeout \cup {Idle}]
  /\ promised \in Nat
  /\ probes \subseteq InFlight
  /\ unanswered \subseteq probes

\* breaker.py:9-11: every pause that was asked for lasts as long as was asked,
\* whatever shorter pauses and late successes are recorded meanwhile.
PausesHonoured == promised > 0 => openLeft >= promised

\* breaker.py:79-81: with no report in between, a second probe is only let
\* through after the first one's time is up.
OneUnansweredProbe ==
  \A c, d \in unanswered : left[c] > 0 /\ left[d] > 0 => c = d

\* breaker.py:66-74, 147-153: the probe slot belongs to one recovery, so the
\* recovery after a new pause is not held up by a probe of the last one.
ProbeSlotEndsWithRecovery == probeLeft # None => HalfOpen

\* breaker.py:80-82: no outcomes that come late, again and again, and no probe
\* that never reports can keep the provider from being asked for ever.
EventuallyAsked == []<>Allows

\* routing.md:50: a provider whose pause just ended receives a single recovery
\* probe until that probe reports back or its timeout passes.
SingleProbe ==
  \A c, d \in probes : left[c] > 0 /\ left[d] > 0 => c = d

=============================================================================

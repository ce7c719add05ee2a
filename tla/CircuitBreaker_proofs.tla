------------------------ MODULE CircuitBreaker_proofs ------------------------
(***************************************************************************)
(* What CircuitBreaker guarantees for every number of calls in flight and  *)
(* every threshold, timeout and pause: the safety properties its run       *)
(* checks.  The only fact that has to be added to make them inductive is   *)
(* that a probe nothing has answered is covered by the probe slot.         *)
(***************************************************************************)
EXTENDS CircuitBreaker, TLAPS

USE BreakerAssumption

\* The probe slot lasts at least as long as the probes it was taken for.
ProbesCovered == \A c \in unanswered : left[c] <= probeLeft

IInv ==
  /\ TypeOK
  /\ PausesHonoured
  /\ ProbeSlotEndsWithRecovery
  /\ ProbesCovered
  /\ OneUnansweredProbe

\* The part of the invariant the breaker itself keeps, whoever reports.
BreakerInv ==
  /\ failures \in 0..FailureThreshold
  /\ rateLimits \in 0..MaxExponent
  /\ openLeft \in Nat \cup {Past, None}
  /\ probeLeft \in 0..CallTimeout \cup {None}
  /\ promised \in Nat
  /\ PausesHonoured
  /\ ProbeSlotEndsWithRecovery

LEMMA BreakerPart == IInv => BreakerInv
BY Zenon DEF IInv, BreakerInv, TypeOK

\* A pause never cuts another one short and empties the probe slot.
LEMMA OpenForInv ==
  ASSUME BreakerInv, NEW ticks \in Int, OpenFor(ticks),
         failures' \in 0..FailureThreshold, rateLimits' \in 0..MaxExponent
  PROVE  BreakerInv'
BY DEF BreakerInv, OpenFor, Lengthens, Greatest, PausesHonoured,
       ProbeSlotEndsWithRecovery, HalfOpen, Open, Closed, Past, None

LEMMA BackoffType ==
  ASSUME NEW n \in Nat
  PROVE  Backoff(n) \in Int
<1>1. 2 ^ n \in Int
  BY SMT
<1> QED
  BY <1>1 DEF Backoff, Least

LEMMA RecordSuccessInv ==
  ASSUME BreakerInv, RecordSuccess
  PROVE  BreakerInv'
<1>1. CASE Open
  BY <1>1 DEF RecordSuccess, BreakerInv, breaker, PausesHonoured,
              ProbeSlotEndsWithRecovery, HalfOpen, Open, Closed
<1>2. CASE ~ Open
  BY <1>2 DEF RecordSuccess, BreakerInv, PausesHonoured,
              ProbeSlotEndsWithRecovery, HalfOpen, Open, Closed, None, Past
<1> QED
  BY <1>1, <1>2

LEMMA RecordRejectionInv ==
  ASSUME BreakerInv, RecordRejection
  PROVE  BreakerInv'
BY DEF RecordRejection, BreakerInv, PausesHonoured, ProbeSlotEndsWithRecovery

LEMMA RecordFailureInv ==
  ASSUME BreakerInv, RecordFailure
  PROVE  BreakerInv'
<1>1. failures' \in 0..FailureThreshold /\ rateLimits' \in 0..MaxExponent
  BY DEF RecordFailure, BreakerInv, Least
<1>2. CASE OpensAt(failures')
  <2>1. OpenFor(Cooldown) /\ Cooldown \in Int
    BY <1>2 DEF RecordFailure
  <2> QED
    BY <1>1, <2>1, OpenForInv
<1>3. CASE ~ OpensAt(failures')
  <2>1. UNCHANGED <<openLeft, probeLeft, promised>>
    BY <1>3 DEF RecordFailure
  <2> QED
    BY <1>1, <2>1 DEF BreakerInv, PausesHonoured, ProbeSlotEndsWithRecovery,
                      HalfOpen, Open, Closed
<1> QED
  BY <1>2, <1>3

LEMMA RateLimitInv ==
  ASSUME BreakerInv,
         \/ \E ticks \in RetryAfters : RecordRateLimit(ticks)
         \/ RecordRateLimitWithoutDelay
  PROVE  BreakerInv'
<1>1. /\ failures' \in 0..FailureThreshold
      /\ rateLimits' \in 0..MaxExponent
  BY DEF RecordRateLimit, RecordRateLimitWithoutDelay, BreakerInv, Exponent, Least
<1>2. ASSUME NEW ticks \in RetryAfters, RecordRateLimit(ticks) PROVE BreakerInv'
  BY <1>1, <1>2, OpenForInv DEF RecordRateLimit
<1>3. CASE RecordRateLimitWithoutDelay
  <2>1. Backoff(rateLimits') \in Int
    BY <1>1, BackoffType
  <2> QED
    BY <1>1, <1>3, <2>1, OpenForInv DEF RecordRateLimitWithoutDelay
<1> QED
  BY <1>2, <1>3

LEMMA PauseInv ==
  ASSUME BreakerInv, NEW ticks \in Int, Pause(ticks)
  PROVE  BreakerInv'
<1>1. failures' \in 0..FailureThreshold /\ rateLimits' \in 0..MaxExponent
  BY DEF Pause, BreakerInv
<1> QED
  BY <1>1, OpenForInv DEF Pause

\* A report ends its call and leaves no probe unanswered, so only the breaker's
\* own part of the invariant remains to be shown.
LEMMA ReportedInv ==
  ASSUME IInv, NEW c \in InFlight, Reported(c), BreakerInv'
  PROVE  IInv'
<1>1. /\ left' = [left EXCEPT ![c] = Idle]
      /\ probes' \subseteq probes \ {c}
      /\ unanswered' = {}
  BY DEF Reported
<1>2. left \in [Calls -> 0..CallTimeout \cup {Idle}] /\ probes \subseteq InFlight
  BY Zenon DEF IInv, TypeOK
<1>3. left' \in [Calls -> 0..CallTimeout \cup {Idle}]
  BY <1>1, <1>2 DEF InFlight
<1>4. probes' \subseteq InFlight'
  BY <1>1, <1>2 DEF InFlight
<1>5. TypeOK'
  BY <1>1, <1>3, <1>4, Zenon DEF TypeOK, BreakerInv
<1>6. ProbesCovered' /\ OneUnansweredProbe'
  BY <1>1, Zenon DEF ProbesCovered, OneUnansweredProbe
<1> QED
  BY <1>5, <1>6, Zenon DEF IInv, BreakerInv

-----------------------------------------------------------------------------

LEMMA InitInv == Init => IInv
BY DEF Init, IInv, TypeOK, PausesHonoured, ProbeSlotEndsWithRecovery,
       ProbesCovered, OneUnansweredProbe, InFlight, Idle, None, Past

LEMMA StartInv ==
  ASSUME IInv, NEW c \in Calls, Start(c)
  PROVE  IInv'
<1>1. /\ left[c] = Idle /\ Allows
      /\ probeLeft' = ProbeSlotTaken
      /\ left' = [left EXCEPT ![c] = CallTimeout]
      /\ UNCHANGED <<failures, rateLimits, openLeft, promised>>
  BY DEF Start
<1>2. /\ left \in [Calls -> 0..CallTimeout \cup {Idle}]
      /\ probes \subseteq InFlight /\ unanswered \subseteq probes
      /\ openLeft \in Nat \cup {Past, None}
      /\ probeLeft \in 0..CallTimeout \cup {None}
  BY DEF IInv, TypeOK
<1>3. left' \in [Calls -> 0..CallTimeout \cup {Idle}]
  BY <1>1, <1>2
<1>4. \A d \in Calls : d # c => left'[d] = left[d]
  BY <1>1, <1>2
<1>5. InFlight' = InFlight \cup {c}
  BY <1>1, <1>2, <1>4 DEF InFlight, Idle
<1>6. c \notin unanswered
  BY <1>1, <1>2 DEF InFlight
<1>7. PausesHonoured'
  BY <1>1 DEF IInv, PausesHonoured
<1>8. CASE HalfOpen
  <2>1. /\ probes' = probes \cup {c} /\ unanswered' = unanswered \cup {c}
        /\ probeLeft' = CallTimeout
        /\ probeLeft \in {None, 0}
    BY <1>1, <1>8 DEF Start, ProbeSlotTaken, Allows, HalfOpen
  <2>2. \A d \in unanswered : d \in Calls /\ left'[d] = left[d] /\ left[d] <= 0
    BY <1>2, <1>4, <1>6, <2>1 DEF IInv, ProbesCovered, InFlight, None
  <2>3. left'[c] = CallTimeout
    BY <1>1, <1>2
  <2>4. TypeOK'
    BY <1>1, <1>2, <1>3, <1>5, <2>1 DEF IInv, TypeOK
  <2>5. ProbesCovered'
    <3>1. \A d \in unanswered : left'[d] <= CallTimeout
      BY <1>2, <2>2 DEF Idle
    <3>2. left'[c] <= CallTimeout
      BY <2>3
    <3> QED
      BY <2>1, <3>1, <3>2, Zenon DEF ProbesCovered
  <2>6. OneUnansweredProbe'
    <3>1. SUFFICES ASSUME NEW d \in unanswered', NEW e \in unanswered',
                          left'[d] > 0, left'[e] > 0
                   PROVE  d = e
      BY Zenon DEF OneUnansweredProbe
    <3>2. ASSUME NEW f \in unanswered, left'[f] > 0 PROVE FALSE
      BY <3>2, <2>2, <1>2 DEF Idle
    <3> QED
      BY <2>1, <3>1, <3>2
  <2>7. ProbeSlotEndsWithRecovery'
    BY <1>1, <1>8 DEF ProbeSlotEndsWithRecovery, HalfOpen, Open, Closed
  <2> QED
    BY <1>7, <2>4, <2>5, <2>6, <2>7, Zenon DEF IInv
<1>9. CASE ~ HalfOpen
  <2>1. probes' = probes /\ unanswered' = unanswered /\ probeLeft' = probeLeft
    BY <1>1, <1>9 DEF Start, ProbeSlotTaken
  <2>2. \A d \in unanswered : d \in Calls /\ left'[d] = left[d]
    BY <1>2, <1>4, <1>6 DEF InFlight
  <2>3. TypeOK'
    BY <1>1, <1>2, <1>3, <1>5, <2>1 DEF IInv, TypeOK
  <2>4. ProbesCovered' /\ OneUnansweredProbe'
    BY <2>1, <2>2 DEF ProbesCovered, OneUnansweredProbe, IInv
  <2>5. ProbeSlotEndsWithRecovery'
    BY <1>1, <2>1 DEF ProbeSlotEndsWithRecovery, HalfOpen, Open, Closed, IInv
  <2> QED
    BY <1>7, <2>3, <2>4, <2>5, Zenon DEF IInv
<1> QED
  BY <1>8, <1>9

LEMMA VanishInv ==
  ASSUME IInv, NEW c \in Calls, Vanish(c)
  PROVE  IInv'
<1>1. /\ left' = [left EXCEPT ![c] = Idle]
      /\ probes' = probes \ {c} /\ unanswered' = unanswered \ {c}
      /\ UNCHANGED <<failures, rateLimits, openLeft, probeLeft, promised>>
  BY DEF Vanish
<1>2. /\ left \in [Calls -> 0..CallTimeout \cup {Idle}]
      /\ probes \subseteq InFlight /\ unanswered \subseteq probes
  BY DEF IInv, TypeOK
<1>3. left' \in [Calls -> 0..CallTimeout \cup {Idle}]
  BY <1>1, <1>2
<1>4. probes' \subseteq InFlight' /\ unanswered' \subseteq probes'
  BY <1>1, <1>2 DEF InFlight
<1>5. TypeOK'
  BY <1>1, <1>3, <1>4 DEF IInv, TypeOK
<1>6. \A d \in unanswered' : d \in unanswered /\ left'[d] = left[d]
  BY <1>1, <1>2 DEF InFlight
<1>7. ProbesCovered' /\ OneUnansweredProbe'
  BY <1>1, <1>6 DEF ProbesCovered, OneUnansweredProbe, IInv
<1>8. PausesHonoured' /\ ProbeSlotEndsWithRecovery'
  BY <1>1 DEF PausesHonoured, ProbeSlotEndsWithRecovery, HalfOpen, Open, Closed, IInv
<1> QED
  BY <1>5, <1>7, <1>8, Zenon DEF IInv

LEMMA TickInv ==
  ASSUME IInv, Tick
  PROVE  IInv'
<1>1. /\ \A c \in InFlight : left[c] > 0
      /\ openLeft' = IF Closed THEN None ELSE Greatest(openLeft - 1, Past)
      /\ probeLeft' = IF probeLeft = None THEN None ELSE Greatest(probeLeft - 1, 0)
      /\ promised' = Greatest(promised - 1, 0)
      /\ left' = [c \in Calls |-> IF left[c] = Idle THEN Idle ELSE left[c] - 1]
      /\ UNCHANGED <<failures, rateLimits, probes, unanswered>>
  BY DEF Tick
<1>2. /\ left \in [Calls -> 0..CallTimeout \cup {Idle}]
      /\ probes \subseteq InFlight /\ unanswered \subseteq probes
      /\ openLeft \in Nat \cup {Past, None}
      /\ probeLeft \in 0..CallTimeout \cup {None}
      /\ promised \in Nat
  BY DEF IInv, TypeOK
<1>3. \A c \in Calls : left[c] # Idle => left'[c] = left[c] - 1 /\ left[c] \in 1..CallTimeout
  BY <1>1, <1>2 DEF InFlight, Idle
<1>4. \A c \in Calls : left[c] = Idle => left'[c] = Idle
  BY <1>1
<1>5. left' \in [Calls -> 0..CallTimeout \cup {Idle}]
  <2>1. \A c \in Calls : left'[c] \in 0..CallTimeout \cup {Idle}
    BY <1>2, <1>3, <1>4 DEF Idle
  <2> QED
    BY <1>1, <2>1, Zenon
<1>6. InFlight' = InFlight
  BY <1>3, <1>4 DEF InFlight, Idle
<1>7. /\ openLeft' \in Nat \cup {Past, None}
      /\ probeLeft' \in 0..CallTimeout \cup {None}
      /\ promised' \in Nat
  BY <1>1, <1>2 DEF Greatest, Past, None, Closed
<1>8. TypeOK'
  BY <1>1, <1>2, <1>5, <1>6, <1>7, Zenon DEF IInv, TypeOK
<1>9. PausesHonoured'
  BY <1>1, <1>2 DEF PausesHonoured, IInv, Greatest, Past, None, Closed
<1>10. ProbeSlotEndsWithRecovery'
  BY <1>1, <1>2 DEF ProbeSlotEndsWithRecovery, IInv, Greatest, Past, None,
                    Closed, Open, HalfOpen
<1>11. \A c \in unanswered : c \in Calls /\ left'[c] = left[c] - 1 /\ left[c] \in 1..CallTimeout
  BY <1>2, <1>3 DEF InFlight
<1>12. ProbesCovered'
  <2>1. ASSUME NEW c \in unanswered PROVE left'[c] <= probeLeft'
    <3>1. left[c] <= probeLeft
      BY DEF IInv, ProbesCovered
    <3> QED
      BY <1>1, <1>2, <1>11, <3>1 DEF Greatest, None
  <2> QED
    BY <1>1, <2>1 DEF ProbesCovered
<1>13. OneUnansweredProbe'
  <2>1. ASSUME NEW c \in unanswered, NEW d \in unanswered PROVE c = d
    <3>1. left[c] > 0 /\ left[d] > 0
      BY <1>11
    <3> QED
      BY <3>1, Zenon DEF IInv, OneUnansweredProbe
  <2> QED
    BY <1>1, <2>1, Zenon DEF OneUnansweredProbe
<1> QED
  BY <1>8, <1>9, <1>10, <1>12, <1>13, Zenon DEF IInv

LEMMA NextInv == IInv /\ [Next]_vars => IInv'
<1> SUFFICES ASSUME IInv, [Next]_vars PROVE IInv'
  OBVIOUS
<1>1. BreakerInv
  BY BreakerPart
<1>2. CASE Tick
  BY <1>2, TickInv
<1>3. ASSUME NEW c \in Calls, Start(c) PROVE IInv'
  BY <1>3, StartInv
<1>4. ASSUME NEW c \in Calls, Succeed(c) PROVE IInv'
  BY <1>1, <1>4, RecordSuccessInv, ReportedInv DEF Succeed
<1>5. ASSUME NEW c \in Calls, Reject(c) PROVE IInv'
  BY <1>1, <1>5, RecordRejectionInv, ReportedInv DEF Reject
<1>6. ASSUME NEW c \in Calls, Fail(c) PROVE IInv'
  BY <1>1, <1>6, RecordFailureInv, ReportedInv DEF Fail
<1>7. ASSUME NEW c \in Calls, RateLimited(c) PROVE IInv'
  BY <1>1, <1>7, RateLimitInv, ReportedInv DEF RateLimited
<1>8. ASSUME NEW c \in Calls, OutOfService(c) PROVE IInv'
  <2>1. PICK ticks \in Pauses : Pause(ticks) \/ Pause(Greatest(ticks, Cooldown))
    BY <1>8 DEF OutOfService
  <2>2. ticks \in Int /\ Greatest(ticks, Cooldown) \in Int
    BY DEF Greatest
  <2>3. BreakerInv'
    BY <1>1, <2>1, <2>2, PauseInv
  <2> QED
    BY <1>8, <2>3, ReportedInv DEF OutOfService
<1>9. ASSUME NEW c \in Calls, Vanish(c) PROVE IInv'
  BY <1>9, VanishInv
<1>10. CASE UNCHANGED vars
  BY <1>10 DEF vars, IInv, TypeOK, PausesHonoured, ProbeSlotEndsWithRecovery,
               ProbesCovered, OneUnansweredProbe, HalfOpen, Open, Closed, InFlight
<1> QED
  BY <1>2, <1>3, <1>4, <1>5, <1>6, <1>7, <1>8, <1>9, <1>10, Zenon DEF Next

LEMMA Invariance == Spec => []IInv
BY InitInv, NextInv, PTL DEF Spec

-----------------------------------------------------------------------------

\* The state always has its type; the exponent of the backoff stays in range.
THEOREM TypeCorrect == Spec => []TypeOK
<1>1. IInv => TypeOK
  BY Zenon DEF IInv
<1> QED
  BY <1>1, Invariance, PTL

\* No later pause and no late success cuts a pause short.
THEOREM PausesAreHonoured == Spec => []PausesHonoured
<1>1. IInv => PausesHonoured
  BY Zenon DEF IInv
<1> QED
  BY <1>1, Invariance, PTL

\* Without a report in between, two probes are never in flight in time.
THEOREM AtMostOneUnansweredProbe == Spec => []OneUnansweredProbe
<1>1. IInv => OneUnansweredProbe
  BY Zenon DEF IInv
<1> QED
  BY <1>1, Invariance, PTL

\* The probe slot never outlives the recovery it belongs to.
THEOREM ProbeSlotBelongsToRecovery == Spec => []ProbeSlotEndsWithRecovery
<1>1. IInv => ProbeSlotEndsWithRecovery
  BY Zenon DEF IInv
<1> QED
  BY <1>1, Invariance, PTL

=============================================================================

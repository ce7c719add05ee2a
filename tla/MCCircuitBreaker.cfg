\* Pauses of 0 to 4 ticks against calls of up to 3.
SPECIFICATION Spec
CONSTANTS
  Calls = {c1, c2, c3}
  FailureThreshold = 2
  Cooldown = 2
  MaxBackoff = 3
  MaxExponent = 2
  CallTimeout = 3
  RetryAfters = {0, 1}
  Pauses = {1, 4}
INVARIANTS
  TypeOK
  PausesHonoured
  OneUnansweredProbe
  ProbeSlotEndsWithRecovery
PROPERTIES
  EventuallyAsked

\* A late refusal from before the pause frees the slot of the probe after it.
SPECIFICATION Spec
CONSTANTS
  Calls = {c1, c2}
  FailureThreshold = 2
  Cooldown = 2
  MaxBackoff = 3
  MaxExponent = 2
  CallTimeout = 3
  RetryAfters = {1}
  Pauses = {1, 4}
INVARIANTS
  SingleProbe

\* A scan that the server's stop interrupts has no done or failed event.
SPECIFICATION Spec
CONSTANTS
  Children = {a, b}
  Run = run
  Clients = {x}
  MaxEvents = 1
  MaxFailures = 0
  MaxRestarts = 1
  MaxDrops = 0
INVARIANT StreamEndsWithVerdict
CHECK_DEADLOCK FALSE

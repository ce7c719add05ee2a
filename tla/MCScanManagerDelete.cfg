\* A request that loads a scan while it is being deleted brings it back.
SPECIFICATION Spec
CONSTANTS
  Scans = {s}
  Requests = {p, q}
  None = None
  MaxConcurrent = 1
  MaxPending = 5
  MaxFailures = 0
  MaxRestarts = 0
INVARIANT DeletedIsGone
CHECK_DEADLOCK FALSE

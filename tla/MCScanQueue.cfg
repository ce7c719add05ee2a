\* Two scans compete for one slot while a client deletes, reads and decides.
SPECIFICATION Spec
CONSTANTS
  Scans = {s, t}
  Requests = {p}
  None = None
  MaxConcurrent = 1
  MaxPending = 5
  MaxFailures = 0
  MaxRestarts = 0
INVARIANT RunningLimit
PROPERTY EveryRunEnds
CHECK_DEADLOCK FALSE

\* One scan: two clients read, decide and delete, the purge runs, one write
\* fails and the server stops once.
SPECIFICATION Spec
CONSTANTS
  Scans = {s}
  Requests = {p, q}
  None = None
  MaxConcurrent = 1
  MaxPending = 5
  MaxFailures = 1
  MaxRestarts = 1
INVARIANTS
  TypeOK
  AcceptedIsFound
  DecisionsKept
  DeleteStops
  ReportOnlyWhenDone
CHECK_DEADLOCK FALSE

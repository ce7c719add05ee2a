\* Two children with two events each and the last status; a failed write, a
\* cancellation, a restart and two lost connections.
SPECIFICATION Spec
CONSTANTS
  Children = {a, b}
  Run = run
  Clients = {x}
  MaxEvents = 2
  MaxFailures = 1
  MaxRestarts = 1
  MaxDrops = 2
INVARIANTS
  TypeOK
  SeenIsOnDisk
  ResumesExactly
  NothingAfterVerdict
PROPERTIES
  EndedMeansComplete
  FollowersReleased
CHECK_DEADLOCK FALSE

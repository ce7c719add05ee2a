CONSTANTS
  r1 = r1
  r2 = r2
  r3 = r3
  r4 = r4
  Requests = {r1, r2, r3, r4}
  Windows <- MCWindows
  Length <- MCLength
  Capacity <- MCCapacity
  TokenCapacity = 2
  Estimates = {1, 3}
  Usages = {0, 3}
  MaxWait = 3
  MaxTime = 3
SPECIFICATION Spec
SYMMETRY Symmetry
INVARIANTS
  TypeOK
  NeverOverbooked
  NoTokensMinted
PROPERTIES
  PaidWhenDue
CHECK_DEADLOCK FALSE

SPECIFICATION Spec
CONSTANTS
  User = {u1, u2}
  Request = {r1, r2}
  None = None
  MaxSessions = 1
  MaxPassword = 2
  MaxIssued = 2
SYMMETRY AccountSymmetry
INVARIANTS
  TypeOK
  OwnerRemains
  SessionsWithinLimit
  OldPasswordEnds
PROPERTY SuspensionHolds
CHECK_DEADLOCK FALSE

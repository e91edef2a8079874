SPECIFICATION Spec
CONSTANTS
  Upload = {u1, u2}
  Part = {n1, n2}
  Content = {c1, c2}
  None = None
  Scanning = TRUE
  EarlyAbort = FALSE
  LostCommit = FALSE
SYMMETRY ContentSymmetry
INVARIANTS
  TypeOK
  Integrity
  AvailableIsStored
  CompletedIsNoFailure
PROPERTY OutcomeIsFinal
CHECK_DEADLOCK FALSE

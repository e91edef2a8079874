SPECIFICATION FairSpec
CONSTANTS
  Upload = {u1}
  Part = {n1, n2}
  Content = {c1, c2}
  None = None
  Scanning = FALSE
  EarlyAbort = TRUE
  LostCommit = TRUE
PROPERTIES
  EveryUploadSettles
  ClosedIsReclaimed
CHECK_DEADLOCK FALSE

SPECIFICATION FairSpec
CONSTANTS
  Worker = {w1, w2}
  Scheduled = {cleanup}
  Manual = {backup}
  BackupJobs = {backup}
  Chunks = 1
  MaxAttempts = 2
  MaxAsks = 2
  MaxMishaps = 2
  None = None
INVARIANTS
  TypeOK
  AtWorkHoldsLease
  BackupIsWhole
PROPERTY NoRequestIsLost
CHECK_DEADLOCK FALSE

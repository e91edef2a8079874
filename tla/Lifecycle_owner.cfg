SPECIFICATION FairSpec
CONSTANTS
  File = {f1, f2, f3}
  Object = {o1}
  None = None
  MaxAttempts = 2
  Ops = {"delete", "restore", "copy", "purge", "scan", "crash", "fail", "retry"}
INVARIANTS
  ReferencedIsStored
  InfectedIsNotOffered
PROPERTY UnreferencedIsPurged
CHECK_DEADLOCK FALSE

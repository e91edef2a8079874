SPECIFICATION Spec
CONSTANTS
  File = {f1, f2}
  Object = {o1}
  None = None
  MaxAttempts = 2
  Ops = {"copy", "purge", "expiry", "trash", "folder", "renew", "moderate", "crash"}
SYMMETRY Symmetry
INVARIANT OrphanIsAwaited
PROPERTY OnlyUnreferencedRemoved
CHECK_DEADLOCK FALSE

SPECIFICATION Spec
CONSTANTS
  Transfer = {1, 2, 3}
  Parts = 1
  MaxLimit = 1
  MaxRuntimes = 3
  MaxUpsets = 2
INVARIANTS
  TypeOK
  CompletesWhatIsStored
  ShownHasPump
  WaiterHasWaker
CHECK_DEADLOCK FALSE

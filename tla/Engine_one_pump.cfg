SPECIFICATION Spec
CONSTANTS
  Transfer = {1, 2}
  Parts = 1
  MaxLimit = 1
  MaxRuntimes = 2
  MaxUpsets = 2
INVARIANT OnePump
CHECK_DEADLOCK FALSE

SPECIFICATION Spec
CONSTANTS
  Exceptions = {14}
  MaxNesting = 1
INVARIANTS LineReachesItsHandler
CHECK_DEADLOCK FALSE

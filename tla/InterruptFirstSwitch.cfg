SPECIFICATION Spec
CONSTANTS
  Exceptions = {14}
  MaxNesting = 1
INVARIANTS FirstSwitchEnters
CHECK_DEADLOCK FALSE

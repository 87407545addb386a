SPECIFICATION TasksSpec
CONSTANTS
  MaxTasks = 4
  MaxQueue = 4
  Quantum = 1
  Priorities = {}
  Signals = {}
  Protected = 2
  STACKS = 3
  RESERVED = 2
CHECK_DEADLOCK FALSE
INVARIANTS
  StacksReserved
  HandlerReturns
  OthersCanBeKilled

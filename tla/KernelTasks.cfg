SPECIFICATION TasksSpec
CONSTANTS
  MaxTasks = 7
  MaxQueue = 7
  Quantum = 1
  Priorities = {}
  Signals = {}
  Protected = 2
  STACKS = 6
  RESERVED = 2
CHECK_DEADLOCK FALSE
INVARIANTS
  CurrentExecutes
  NoSelfDeadlock
  SpinsOnlyInShell
  QueueIsExact
PROPERTIES
  QueuedTasksRun
  KillIsFinal

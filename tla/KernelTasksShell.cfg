SPECIFICATION TasksSpec
CONSTANTS
  MaxTasks = 2
  MaxQueue = 2
  Quantum = 1
  Priorities = {}
  Signals = {}
  Protected = 2
  STACKS = 3
  RESERVED = 2
CHECK_DEADLOCK FALSE
PROPERTIES
  ShellIsScheduled

SPECIFICATION Spec
CONSTANTS
  MaxTasks = 2
  MaxQueue = 2
  Quantum = 1
  Priorities = {2}
  Signals = {9, 20}
  Protected = 1
INVARIANTS
  SingleRunning
  ReadyIsQueued
PROPERTIES
  DispatchIsHighest

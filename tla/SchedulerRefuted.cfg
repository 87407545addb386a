SPECIFICATION Spec
CONSTANTS
  MaxTasks = 2
  MaxQueue = 2
  Quantum = 3
  Priorities = {0}
  Signals = {20}
  Protected = 1
PROPERTIES
  PickIsComplete
  KilledStaysDead
  FgResumes
  QuantumIsRespected

SPECIFICATION Spec
CONSTANTS
    Platforms <- MCAll
    MAX_OVERRIDES = 2
INVARIANTS RsdpIsFound OneTimerSource EarlyKeysArrive KeysFallBackToPic
PROPERTIES FallsBackToPic ShellStarts
CHECK_DEADLOCK FALSE

SPECIFICATION Spec
CONSTANTS
  BUFFER_SIZE = 3
  LINE_MAX = 2
INVARIANTS NoEmptyRead
PROPERTIES RingIsFifo KeysAreKept

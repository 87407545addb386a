SPECIFICATION Spec
CONSTANTS
  BUFFER_SIZE = 3
  LINE_MAX = 2
PROPERTIES CapsLockCapitalises KeysAreRead

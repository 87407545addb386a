SPECIFICATION Spec
CONSTANTS
  SLAB_MIN_SIZE = 2
  SLAB_MAX_SIZE = 4
  SLAB_CLASSES = 2
  MAX_BLOCKS_PER_CLASS = 3
  PAGE = 4
  start = 8
  size = 24
  Layouts <- MCLayouts
INVARIANTS AlignmentHonoured FallsBackToBump

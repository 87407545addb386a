SPECIFICATION ScanSpec
CONSTANTS
  PAGE_SIZE = 2
  MAX_PAGES = 8
  BITMAP_BASE = 8
  base_addr = 4
  memory_size = 11
  MaxCount = 3
  Addresses <- MCAddresses
  Sizes <- MCSizes
INVARIANTS
  CountMatchesBitmap
  GrantCanBeFreed
  ReserveCoversRange
PROPERTIES
  ScanImplementsPmm
  Refinement
  ScanReturns

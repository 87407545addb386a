SPECIFICATION Spec
CONSTANTS
    PAGE_ENTRIES = 2
    PoolFrames = 4
    Virts = {4, 8, 9}
    Physes = {3}
    Ranges <- MCRanges
INVARIANTS TablesAreATree TlbCoherent BootMapIntact
PROPERTIES Refinement

SPECIFICATION Spec
CONSTANTS
    PAGE_ENTRIES = 2
    PoolFrames = 4
    Virts = {0, 1}
    Physes = {3}
    Ranges <- MCBootRanges
PROPERTIES MapTakesEffect

SPECIFICATION Spec
CONSTANTS
    Platforms <- MCAll
    MAX_OVERRIDES = 2
INVARIANTS EoiReachesController FirmwareIsUsed KeysReachCpu
PROPERTIES BootCompletes TicksContinue
CHECK_DEADLOCK FALSE

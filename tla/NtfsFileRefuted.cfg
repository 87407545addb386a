SPECIFICATION Spec
CONSTANTS
    NIBBLE = 4
    WORD = 3
    cluster_size = 2
    Records <- MCRefuting
    RecordLengths <- MCRecordLengths
    MFT_RECORD_SIZE = 150
    ATTRS_OFFSET = 8
    FileOffsets <- MCFileOffsets
    BufferLengths <- MCBufferLengths
INVARIANTS ReadIsComplete SizeIsOfData WideRunsInvert
CHECK_DEADLOCK FALSE

SPECIFICATION LibsSpec
CONSTANTS
    Msgs = {msg, second}
    MaxBytes = 4
    MaxChunk = 2
    MaxChunks = 3
    Width = 4
    AcrossChunks = FALSE
INVARIANTS
    LengthIsContent
PROPERTIES
    ImplementsByteStrings
CHECK_DEADLOCK FALSE

SPECIFICATION Spec
CONSTANTS
    Msgs = {msg, second}
    MaxBytes = 4
    MaxChunk = 2
    MaxChunks = 3
    Width = 4
    AcrossChunks = TRUE
INVARIANTS
    LengthIsContent
CHECK_DEADLOCK FALSE

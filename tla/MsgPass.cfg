SPECIFICATION FairSpec
CONSTANTS
    Apps = {5, 8}
    MaxMsgs = 1
    PayloadLen = 100
    Workers = {w1, w2}
    NetCap = 2
    Strays <- Foreigners
    MaxStrays = 1
INVARIANTS
    TypeOK
    WellFormed
    Unwrapped
    NeverAhead
PROPERTIES
    ImplementsLossyBag
    ArrivedIsReceived

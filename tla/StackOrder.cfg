SPECIFICATION Spec
CONSTANTS
    Apps = {5}
    MaxMsgs = 2
    PayloadLen = 100
    PipeSlots = 2
    SlotUnits = 1
    NetCap = 1
    Strays <- Foreigners
    MaxStrays = 1
    Cold <- OneLate
    Started <- WarmStages
INVARIANTS
    TypeOK
    CountedAll
    InOrder
    PeerHeaders
    NoPipeStall
PROPERTIES
    ImplementsLossyFifo
ACTION_CONSTRAINT
    IntrudersWait

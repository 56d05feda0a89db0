SPECIFICATION FairSpec
CONSTANTS
    Apps = {5, 7}
    MaxMsgs = 1
    PayloadLen = 100
    PipeSlots = 1
    SlotUnits = 1
    NetCap = 2
    Strays = {}
    MaxStrays = 0
    Cold = {}
    Started <- WarmStages
INVARIANTS
    PeerHeaders
    MutualExclusion
PROPERTIES
    AllReceived

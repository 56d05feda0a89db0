SPECIFICATION Spec
CONSTANTS
    Apps = {5}
    MaxMsgs = 1
    PayloadLen = 100
    PipeSlots = 2
    SlotUnits = 2
    NetCap = 2
    Strays = {}
    MaxStrays = 0
    Cold <- FtpDown
    Started <- WarmStages
INVARIANTS
    MutualExclusion

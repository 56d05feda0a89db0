SPECIFICATION Spec
CONSTANTS
    Apps = {5}
    MaxMsgs = 5
    PayloadLen = 100
    PipeSlots = 1
    SlotUnits = 2
    NetCap = 5
    Strays = {}
    MaxStrays = 0
    Cold = {}
    Started <- WarmStages
INVARIANTS
    NoPipeStall

SPECIFICATION FairSpec
CONSTANTS
    Workers = {w1, w2, w3}
    Job = {ping, pong}
    MaxJobs = 4
INVARIANTS
    TypeOK
    IdleCount
    WorkConserving
PROPERTIES
    ServesInOrder
    JobsReturn
CHECK_DEADLOCK FALSE

SPECIFICATION FairSpec
CONSTANTS
    Workers = {w1, w2}
    Job = {ping}
    MaxJobs = 2
PROPERTIES
    DestructorReturns
CHECK_DEADLOCK FALSE

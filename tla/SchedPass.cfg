SPECIFICATION FairSpec
CONSTANTS
    Callers = {c1, c2}
    Workers = {w1}
    MaxEvents = 1
    Second = 3
    Timeouts = {0, 2}
    MaxIds = 3
    MaxTime = 4
INVARIANTS
    TypeOK
    WithinLimit
    QueueCount
    LessThanASecondLate
PROPERTIES
    ImplementsAlarms
    ScheduledRuns
    DispatcherEnds
CHECK_DEADLOCK FALSE

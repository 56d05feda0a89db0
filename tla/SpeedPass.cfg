SPECIFICATION FairSpec
CONSTANTS
    Apps = {ftp, dns}
    Size = 2
    Threshold = 2
    Workers = {w1}
INVARIANTS
    TypeOK
    NeverAhead
    Accounted
PROPERTIES
    FirstTwoPhases
    ThirdPhaseIfDrained
    MainEnds
CHECK_DEADLOCK FALSE

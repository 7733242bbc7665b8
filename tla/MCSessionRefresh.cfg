SPECIFICATION FairSpec
CONSTANTS
    Requests = {r1, r2, r3}
    Workload = {"refresh"}
    MaxTime = 2
    Faults = TRUE
    SlowHolder = FALSE
    SessionEnds = FALSE
    NoSession = NoSession
    Free = Free

PROPERTIES OnlyLoginInstalls LockRecovered
CHECK_DEADLOCK FALSE

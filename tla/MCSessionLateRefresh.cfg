SPECIFICATION Spec
CONSTANTS
    Requests = {r1, r2}
    Workload = {"login", "refresh"}
    MaxTime = 2
    Faults = FALSE
    SlowHolder = FALSE
    SessionEnds = FALSE
    NoSession = NoSession
    Free = Free

PROPERTY OnlyLoginInstalls
CHECK_DEADLOCK FALSE

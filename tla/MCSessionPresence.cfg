SPECIFICATION Spec
CONSTANTS
    Requests = {r1, r2, r3}
    Workload = {"login", "loginV1", "logout"}
    MaxTime = 2
    Faults = TRUE
    SlowHolder = FALSE
    SessionEnds = TRUE
    NoSession = NoSession
    Free = Free
SYMMETRY RequestSymmetry
INVARIANT PresenceWhenQuiet
CHECK_DEADLOCK FALSE

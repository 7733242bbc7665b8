SPECIFICATION Spec
CONSTANTS
    Requests = {r1, r2, r3}
    Workload = {"login", "loginV1", "logout", "refresh"}
    MaxTime = 2
    Faults = TRUE
    SlowHolder = FALSE
    SessionEnds = TRUE
    NoSession = NoSession
    Free = Free
SYMMETRY RequestSymmetry
INVARIANTS TypeOK RefreshExclusion LockNotLeaked TokensMatch
CHECK_DEADLOCK FALSE

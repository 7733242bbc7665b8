SPECIFICATION Spec
CONSTANTS
    Requests = {r1, r2, r3}
    MaxMessage = 2
    Batches <- MCBatches
    ReplyTo <- MCReply
    Resets = {0, 1}
    Agents = TRUE
    Syncs = TRUE
    Faults = TRUE
SYMMETRY RequestSymmetry
INVARIANTS TypeOK AckedIsHandled UnreadIsExact
PROPERTY KeepsPromise
CHECK_DEADLOCK FALSE

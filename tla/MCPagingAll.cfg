SPECIFICATION Spec
CONSTANTS
    Rows <- MCRows
    Keys <- MCKeys
    Out = Out
    Limit = 1
INVARIANTS TypeOK NothingSkipped NothingTwice

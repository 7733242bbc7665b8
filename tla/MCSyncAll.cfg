SPECIFICATION FairSpec
CONSTANTS
    Runs = {r1, r2}
    Dialogs = 2
    MaxMessages <- MCMaxMessages
    PageSize = 2
    Workers = 2
    ReplyTo <- MCReplyTo
    Bare <- MCBare
INVARIANTS TypeOK SyncingHasRun ShownIsStatus SuccessIsComplete
PROPERTIES KeepsHistory SyncingEnds
CHECK_DEADLOCK FALSE

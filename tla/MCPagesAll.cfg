SPECIFICATION Spec
CONSTANTS
    f1 = f1
    f2 = f2
    Requests = {r1, r2, r3}
    Users = {u1}
    FacebookPages = {f1, f2}
    TelegramPages = {t1}
    Accounts <- MCAccounts
    NoToken = NoToken
SYMMETRY Symmetry
INVARIANTS TypeOK TokenlessIsLost TokenOrigin AnsweredIsConnected RowsAreUnique
PROPERTIES LostForever KeepsRegister
CHECK_DEADLOCK FALSE

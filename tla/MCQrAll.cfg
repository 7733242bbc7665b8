SPECIFICATION FairSpec
CONSTANTS
    a1 = a1
    a2 = a2
    a3 = a3
    k1 = k1
    k2 = k2
    Attempts = {a1, a2, a3}
    Keys = {k1, k2}
    Key <- SharedKey
    Nobody = Nobody

INVARIANTS TypeOK SuccessIsConnected
PROPERTIES FinalIsKept WatchedSettles
CHECK_DEADLOCK FALSE

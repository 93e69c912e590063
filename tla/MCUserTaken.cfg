SPECIFICATION USpec
CONSTANTS
    t1 = t1
    t2 = t2
    t3 = t3
    ann = ann
    bob = bob
    x = x
    y = y
    Missing = Missing
    Threads <- MCThreads
    Keys <- MCNames
    Values <- MCPasswords
    Capacity = 1
    MaxConn = 2
    UniqueKey = TRUE
    MayFail = FALSE
    MaxCalls = 2
CHECK_DEADLOCK FALSE
INVARIANTS
    RegisteredIsStored

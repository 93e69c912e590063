SPECIFICATION Spec
CONSTANTS
    t1 = t1
    t2 = t2
    t3 = t3
    h1 = h1
    h2 = h2
    h3 = h3
    h4 = h4
    NoHandle = NoHandle
    Threads <- MCThreads
    Handles <- MCHandles
    MaxConn = 2
INVARIANTS
    LentOnce
    NoFreedHandle
    NoIdleConnectionWhileWaiting
    CapacityKept
PROPERTIES
    NothingLentAfterClose
    CloseWakesWaiters

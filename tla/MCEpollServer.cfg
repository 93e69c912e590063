SPECIFICATION Spec
CONSTANTS
    a = a
    b = b
    w1 = w1
    w2 = w2
    Nobody = Nobody
    NoTask = NoTask
    Conns <- TwoConns
    Workers <- OneWorker
    Listener <- MCListener
    Fds <- TwoFds
    MaxReq <- TwoAndOne
    MaxIdle = 1
    Interval = 1
    AgeCap = 2
    MaxEvents = 3
    MayFail = TRUE
    Json <- SecondOfA
    Static <- FirstOfB
CHECK_DEADLOCK FALSE
INVARIANTS
    FramingExact
    TablesAgree
    EdgeNotLost
PROPERTIES
    ClosesForAReason

SPECIFICATION Spec
CONSTANTS
    a = a
    b = b
    w1 = w1
    w2 = w2
    Nobody = Nobody
    NoTask = NoTask
    Conns <- TwoConns
    Workers <- OneWorker
    Listener <- MCListener
    Fds <- OneFd
    MaxReq <- OneEach
    MaxIdle = 1
    Interval = 1
    AgeCap = 2
    MaxEvents = 2
    MayFail = FALSE
    Json = {}
    Static = {}
CHECK_DEADLOCK FALSE
INVARIANTS
    ResponsesReachTheirClient

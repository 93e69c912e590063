SPECIFICATION FewSpec
CONSTANTS
    a = a
    b = b
    w1 = w1
    w2 = w2
    Nobody = Nobody
    NoTask = NoTask
    Conns <- TwoConns
    Workers <- TwoWorkers
    Listener <- MCListener
    Fds <- OneFd
    MaxReq <- ThreeAndOne
    MaxIdle = 1
    Interval = 1
    AgeCap = 2
    MaxEvents = 2
    MayFail = FALSE
    Json <- SecondOfA
    Static <- ThirdOfA
CHECK_DEADLOCK FALSE
INVARIANTS
    EdgeNotLost
    AnswersNearlyInOrder
PROPERTIES
    RequestsAnswered

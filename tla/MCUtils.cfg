SPECIFICATION UtilsSpec
CONSTANTS
    w1 = w1
    w2 = w2
    c1 = c1
    c2 = c2
    t1 = t1
    t2 = t2
    t3 = t3
    NoTask = NoTask
    Workers <- MCWorkers
    Clients <- MCClients
    Tasks <- MCTasks
    p1 = p1
    p2 = p2
    NoMsg = NoMsg
    Producers <- MCProducers
    MaxLogs = 2
    k1 = k1
    k2 = k2
    k3 = k3
    k4 = k4
    v1 = v1
    v2 = v2
    n1 = n1
    n2 = n2
    n3 = n3
    n4 = n4
    Keys <- MCKeys
    Values <- MCValues
    Nodes <- MCNodes
    Missing = Missing
    Null = Null
    Capacity = 3
CHECK_DEADLOCK FALSE
INVARIANTS
    TypeOK
    NoLostWakeup
    LogInOrder
    StopFlushes
    OneWriter
    CacheSound
PROPERTIES
    AcceptedTasksRun
    StopReturns
    ImplementsTaskPool
    MessagesWritten
    ImplementsLRU

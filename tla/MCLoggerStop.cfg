SPECIFICATION LoggerSpec
CONSTANTS
    p1 = p1
    p2 = p2
    NoMsg = NoMsg
    Producers <- MCProducers
    MaxLogs = 2
CHECK_DEADLOCK FALSE
PROPERTIES
    LoggerStopReturns

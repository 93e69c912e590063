SPECIFICATION Spec
CONSTANTS
    c = c
    d = d
    w1 = w1
    w2 = w2
    Workers <- MCWorkers
    Clients <- TwoClients
    Gone <- OneClient
    Kinds <- Routes
    Room = 1
    Length = 2
    MaxReq = 2
    Limit = 64
    StaticRoot <- Root
    Files <- OneFile
    Samples <- SampleRequests
    Streams <- SomeStreams
CHECK_DEADLOCK FALSE
INVARIANTS
    StreamSplit
    RequestUnderstood
    NeverUndercounts
    ResponsesWhole
PROPERTY HandlersEnd

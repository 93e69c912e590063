SPECIFICATION Spec
CONSTANTS
    Connections = 2
    Fds = {3, 4}
    Pipeline = 2
    Length = 2
    MaxTrouble = 1
    MaxHeader = 60
    MaxLength = 999
    MaxPort = 65535
    Responses <- SomeResponses
    Requests <- SomeRequests
    Urls <- SomeUrls
CHECK_DEADLOCK FALSE
INVARIANTS
    ResponsesUnderstood
    CommandUnderstood
    ConnectionsKept
PROPERTY RunEnds

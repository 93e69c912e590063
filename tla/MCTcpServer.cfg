SPECIFICATION Spec
CONSTANTS
    a = a
    b = b
    w1 = w1
    Nobody = Nobody
    NoTask = NoTask
    None = None
    File = File
    Static <- FirstOfB
    Conns <- TwoConns
    MaxReq <- OneAndTwo
    Cutters <- JustA
    Closing <- SecondOfB
    Long <- OnlyOfA
    Fds <- TwoFds
    Listener <- MCListener
    Workers <- OneWorker
CHECK_DEADLOCK FALSE
INVARIANTS
    ModesSound
PROPERTIES
    ChildrenReaped
    PoliteClientsAnswered

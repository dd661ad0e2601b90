CONSTANTS
    RingSize = 12
    Servers = {4, 8}
    Keys = {2}
    LongKeys = {}
    Values = {v1}
    Null = null
    Clients = {c1, c2}
    Brokerless = {}
    MayCrash = FALSE
    Commands = {"addNode", "removeNode", "start", "stop"}
    MaxFaults = 0
    ClientRequests <- AllRequests
    Overlap = FALSE
    ReplyBeforeExit = TRUE
SPECIFICATION Spec
PROPERTY ImplementsMap
CONSTRAINT HeirStarted

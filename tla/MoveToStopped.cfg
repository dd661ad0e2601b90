CONSTANTS
    RingSize = 12
    Servers = {4, 8}
    Keys = {2}
    LongKeys = {}
    Values = {v1}
    Null = null
    Clients = {c1}
    Brokerless = {}
    MayCrash = FALSE
    Commands = {"addNode", "removeNode", "stop"}
    MaxFaults = 0
    ClientRequests <- AllRequests
    Overlap = FALSE
    ReplyBeforeExit = TRUE
SPECIFICATION Spec
INVARIANT FlushedIsTransferred

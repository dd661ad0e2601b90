CONSTANTS
    RingSize = 12
    Servers = {4, 8}
    Keys = {2}
    LongKeys = {}
    Values = {v1, v2}
    Null = null
    Clients = {c1}
    Brokerless = {}
    MayCrash = FALSE
    Commands = {"addNode", "removeNode"}
    MaxFaults = 0
    ClientRequests <- AllRequests
    Overlap = TRUE
    ReplyBeforeExit = TRUE
SPECIFICATION Spec
PROPERTY ReadsLastWrite

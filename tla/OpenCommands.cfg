CONSTANTS
    Relaunch = TRUE
    RingSize = 12
    Servers = {4}
    Keys = {2, 3}
    LongKeys = {3}
    Values = {v1}
    Null = null
    Clients = {c1}
    Brokerless = {}
    MayCrash = TRUE
    ClientRequests <- AllRequests
    AdminMsgs <- AllMsgs
SPECIFICATION Spec
INVARIANT ServerInv
CHECK_DEADLOCK FALSE

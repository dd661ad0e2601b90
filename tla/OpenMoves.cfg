CONSTANTS
    Relaunch = FALSE
    RingSize = 12
    Servers = {4, 8}
    Keys = {2, 3}
    LongKeys = {}
    Values = {v1}
    Null = null
    Clients = {c1}
    Brokerless = {}
    MayCrash = FALSE
    ClientRequests <- MoveRequests
    AdminMsgs <- MoveMsgs
SPECIFICATION FairSpec
INVARIANT MoveAwaitsService
PROPERTIES MoveDrainsWriters RequestAnswered MoveEnds
CONSTRAINT ToOther
CHECK_DEADLOCK FALSE

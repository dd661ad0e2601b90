CONSTANTS
    RingSize = 12
    Servers = {4, 8}
    Keys = {2}
    LongKeys = {}
    Values = {v1}
    Null = null
    Clients = {c1}
    Brokerless = {}
    MayCrash = FALSE
    Commands = {"addNode", "removeNode", "shutDown"}
    MaxFaults = 0
    ClientRequests <- PutsAndGets
    Overlap = TRUE
    ReplyBeforeExit = TRUE
SPECIFICATION FairSpec
INVARIANTS MetadataAgreement LockOnlyWhileMoving
PROPERTIES ServersAreOpen RequestEnds

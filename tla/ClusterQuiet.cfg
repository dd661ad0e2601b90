CONSTANTS
    RingSize = 16
    Servers = {4, 8, 12}
    Keys = {2, 10}
    LongKeys = {}
    Values = {v1}
    Null = null
    Clients = {c1}
    Brokerless = {}
    MayCrash = FALSE
    Commands = {"addNode", "removeNode", "start", "quit"}
    MaxFaults = 0
    ClientRequests <- AllRequests
    Overlap = FALSE
    ReplyBeforeExit = TRUE
SPECIFICATION Spec
INVARIANTS ClusterTypeOK Placement LastAnnouncementIsCurrent FlushedIsTransferred IdleIsDown RegisteredWhileUp
PROPERTIES ReadsLastWrite ImplementsMap

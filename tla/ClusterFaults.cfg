CONSTANTS
    RingSize = 12
    Servers = {4, 8}
    Keys = {2}
    LongKeys = {}
    Values = {v1}
    Null = null
    Clients = {c1}
    Brokerless = {4}
    MayCrash = TRUE
    Commands = {"addNode", "removeNode"}
    MaxFaults = 1
    ClientRequests <- OnlyPuts
    Overlap = FALSE
    ReplyBeforeExit = FALSE
SPECIFICATION FairSpec
INVARIANT ServersAccountedFor
PROPERTY CommandEnds
CONSTRAINT ClientsAway

CONSTANTS
    Servers = {s1}
    PerServer = 3
    Clients = {c1}
    Subscriptions = 2
    BrokerFails = TRUE
SPECIFICATION FairSpec
INVARIANTS TypeOK StoredWasAnnounced HearsSegment OneMoreAtMost OneListener
PROPERTIES WaitingIsPrinted ToldEnds
CHECK_DEADLOCK FALSE

CONSTANTS
    Peers = {p1, p2}
    Secrets = {0, 5, 6}
    Prime = 23
    Generator = 2
    Backlog = 1
SPECIFICATION FairSpec
INVARIANTS TypeOK KeysAgree RequestReadable NoMutualWait
PROPERTIES ExchangeEnds ShutdownEnds
CHECK_DEADLOCK FALSE

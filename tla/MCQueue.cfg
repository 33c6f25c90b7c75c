CONSTANTS
    a = a
    b = b
    c = c
    p = p
    NoRank = NoRank
    Me = 1
    Peers = {0, 2}
    Dirs = {a, b, p}
    Below <- Parts
    Pin <- PinOfP
    Home <- Homes
    Limit = 0
    MapLimit = 0
    MaxOrders = 1
    MaxTrouble = 1
SPECIFICATION FairSpec
INVARIANTS
    TypeOK
    AssertsHold
    NothingLeftBehind
    FewAtOnce
    QueueServed
PROPERTY
    StopsUnlessStranded
CHECK_DEADLOCK FALSE

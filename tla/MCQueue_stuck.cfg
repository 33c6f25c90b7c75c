CONSTANTS
    a = a
    b = b
    c = c
    p = p
    NoRank = NoRank
    Me = 1
    Peers = {0, 2}
    Dirs = {a, b, c, p}
    Below <- Parts
    Pin <- PinOfP
    Home <- Homes
    Limit = 0
    MapLimit = 0
    MaxOrders = 0
    MaxTrouble = 1
SPECIFICATION FairSpec
PROPERTY
    Stops
CHECK_DEADLOCK FALSE

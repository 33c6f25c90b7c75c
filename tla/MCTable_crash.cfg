CONSTANTS
    r0 = r0
    r1 = r1
    Ranks = {r0, r1}
    TableServer = r0
    MaxPrepare = 2
    MaxUpdate = 1
    MaxFail = 1
SPECIFICATION FairSpec
INVARIANTS
    NothingLost
    ReplayContinues
PROPERTY Settles
CHECK_DEADLOCK FALSE

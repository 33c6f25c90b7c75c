CONSTANTS
    r0 = r0
    r1 = r1
    Ranks = {r0, r1}
    TableServer = r0
    MaxPrepare = 2
    MaxUpdate = 0
    MaxFail = 2
SPECIFICATION Spec
INVARIANTS
    TypeOK
    SnapsJournalled
    TidsDurable
    AssertsHold
CHECK_DEADLOCK FALSE

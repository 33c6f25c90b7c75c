CONSTANTS
    i1 = i1
    i2 = i2
    Item = {i1, i2}
    Period = 3
    MaxHeads = 1
    Files = 2
    Ops = {3}
    OpsOf <- OpsOfFile
    MaxEntries = 3
    MaxCrashes = 1
    MaxChanges = 0
SPECIFICATION Spec
INVARIANTS TypeOK AssertsHold ReportedIsDurable HeadsFindTheLog ExpiredIsDone NoLeak
CHECK_DEADLOCK FALSE

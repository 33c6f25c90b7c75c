CONSTANTS
    i1 = i1
    i2 = i2
    Item = {i1}
    Period = 3
    MaxHeads = 1
    Files = 2
    Ops = {3}
    OpsOf <- OpsOfFile
    MaxEntries = 2
    MaxCrashes = 1
    MaxChanges = 1
SPECIFICATION FairSpec
PROPERTIES StraysGo ObjectsGo
CHECK_DEADLOCK FALSE

CONSTANTS
    N = 3
    Threshold = 8
    Interval = 2
    IntSpan = 64
    Precision = 4
    Ulps = {1, 2, 4, 8, 16}
    Urgency <- UrgencyOf3
    Profiles <- SomeProfiles
    MaxTick = 3
    MaxTrouble = 1
SPECIFICATION Spec
INVARIANT SharesOfExporter
CHECK_DEADLOCK FALSE

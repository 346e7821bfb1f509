SPECIFICATION FairSpec
CONSTANTS
    j1 = j1
    j2 = j2
    None = None
    Jobs = {j1}
    Subs = {s1}
    Slots = {w1}
    Requests = {r1}
    QualityOnly <- mcNone
    ShimRetry = TRUE
    MaxRedeliveries = 0
    MaxFaults = 1
    MaxOverrides = 0
PROPERTY JobTerminates
CHECK_DEADLOCK FALSE

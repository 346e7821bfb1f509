SPECIFICATION FairSpec
CONSTANTS
    j1 = j1
    j2 = j2
    None = None
    Jobs = {j1}
    Subs = {s1}
    Slots = {w1, w2}
    Requests = {}
    QualityOnly <- mcNone
    ShimRetry = TRUE
    MaxRedeliveries = 1
    MaxFaults = 2
    MaxOverrides = 0
INVARIANT TypeOK
INVARIANT AttemptLog
INVARIANT CompletedHasGrade
INVARIANT GradesPerDelivery
PROPERTY OnlyFaultsLoseJobs
PROPERTY JobTerminatesOrIsLost
CHECK_DEADLOCK FALSE

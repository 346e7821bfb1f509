SPECIFICATION Spec
CONSTANTS
    j1 = j1
    j2 = j2
    None = None
    Jobs = {j1, j2}
    Subs = {s1}
    Slots = {w1, w2}
    Requests = {r1}
    QualityOnly <- mcQualityOnly
    ShimRetry = TRUE
    MaxRedeliveries = 0
    MaxFaults = 0
    MaxOverrides = 0
INVARIANT OneActiveGrade
CHECK_DEADLOCK FALSE

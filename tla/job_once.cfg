SPECIFICATION Spec
CONSTANTS
    j1 = j1
    j2 = j2
    None = None
    Jobs = {j1, j2}
    Subs = {s1}
    Slots = {w1, w2}
    Requests = {r1}
    QualityOnly <- mcNone
    ShimRetry = TRUE
    MaxRedeliveries = 0
    MaxFaults = 1
    MaxOverrides = 1
INVARIANT GradingIsUnfinished
PROPERTY RefinesLifecycle
PROPERTY RefinesLedger
SYMMETRY Interchangeable
CHECK_DEADLOCK FALSE

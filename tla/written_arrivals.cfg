SPECIFICATION FairSpec
CONSTANTS
    OcrSlots = {o1}
    GradeSlots = {g1}
    Handlers = {h1}
    MaxOcrRetries = 1
    MaxGradeRetries = 1
    MaxFaults = 1
    Limit <- mcArrivals
INVARIANT TypeOK
PROPERTY Settles
CHECK_DEADLOCK FALSE

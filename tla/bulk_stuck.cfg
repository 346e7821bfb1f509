SPECIFICATION Spec
CONSTANTS
    OcrSlots = {o1}
    GradeSlots = {g1}
    Handlers = {h1}
    MaxOcrRetries = 1
    MaxGradeRetries = 1
    MaxFaults = 0
    Limit <- mcBulk
INVARIANT GradingInProgress
CHECK_DEADLOCK FALSE

SPECIFICATION Spec
CONSTANTS
    OcrSlots = {o1}
    GradeSlots = {g1}
    Handlers = {h1, h2}
    MaxOcrRetries = 0
    MaxGradeRetries = 1
    MaxFaults = 0
    Limit <- mcEdits
INVARIANT GradeIsCurrent
INVARIANT GradingInProgress
CHECK_DEADLOCK FALSE

SPECIFICATION Spec
CONSTANTS
    OcrSlots = {o1}
    GradeSlots = {g1, g2}
    Handlers = {h1}
    MaxOcrRetries = 1
    MaxGradeRetries = 1
    MaxFaults = 0
    Limit <- mcCorrect
INVARIANT GradeIsCurrent
CHECK_DEADLOCK FALSE

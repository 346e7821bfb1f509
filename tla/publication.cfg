SPECIFICATION Spec
CONSTANTS
    v1 = v1
    v2 = v2
    image = image
    old = old
    new = new
    Versions = {v1, v2}
    Builders = {b1, b2}
    NoKey = NoKey
    NoVersion = NoVersion
    MaxRequests = 3
    MaxFaults = 1
    Stages <- mcStages
INVARIANT PublicationTypeOK
INVARIANT ReadyHasKey
INVARIANT ApprovedWasReviewed
INVARIANT ApprovedIsCovered
INVARIANT JobIsFrozen
INVARIANT JobTestsWereReviewed
PROPERTY BuildsEnd
CHECK_DEADLOCK FALSE

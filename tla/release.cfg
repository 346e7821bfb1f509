SPECIFICATION Spec
CONSTANTS
    s1 = s1
    s2 = s2
    Subs = {s1, s2}
    MaxRequests = 3
    MaxFaults = 1
    Courses <- mcCourses
INVARIANT ReleaseTypeOK
INVARIANT ReleasedWasReturned
INVARIANT ReturnedIsRecorded
INVARIANT ReleasedActiveIsShown
INVARIANT DeleteIsWhole
INVARIANT IngestedIsSent
PROPERTY IngestIsIdempotent
CHECK_DEADLOCK FALSE

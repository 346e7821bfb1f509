SPECIFICATION Spec
CONSTANTS
    w1 = w1
    w2 = w2
    Workers = {w1, w2}
    MaxKills = 1
    MaxFaults = 1
    Quota = 2
    Grace = 2
    VsockWait = 3
    BridgeWait = 3
    Marks = 10
    Scenarios <- mcScenarios
INVARIANT EvaluationTypeOK
INVARIANT OneVM
INVARIANT NothingLeft
INVARIANT CreditIsDeserved
INVARIANT DeservedIsCredited
INVARIANT SameProgramSameScore
INVARIANT RetryHelps
INVARIANT WithinMarks
PROPERTY StaleLockIsForever
PROPERTY SandboxSpec
PROPERTY TasksEnd
CHECK_DEADLOCK FALSE

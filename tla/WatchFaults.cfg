SPECIFICATION FairSpec
CONSTANTS
    Limit = 1
    MaxWrite = 2
    MaxSent = 2
    CpuLimit = 2
    WallLimit = 3
    CtxDeadline = 4
    MaxDelay = 1
    MaxTime = 4
    Faults = {"start", "metrics", "kill", "stuck", "exit", "drain"}
INVARIANTS
    TypeOK
    VerdictSeesAllOutput
    VerdictIsEarned
    NoTaskLeftRunning
    ErrorsComeFromFaults
PROPERTIES
    EventuallyReturns

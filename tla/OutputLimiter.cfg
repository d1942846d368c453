SPECIFICATION LimiterSpec
CONSTANTS
    Limit = 4
    MaxWrite = 3
    MaxSent = 6
INVARIANTS
    SharedBudget
    ExactCapture
    OverflowIsExact
    UnmarkedStreamIsWhole
CHECK_DEADLOCK FALSE

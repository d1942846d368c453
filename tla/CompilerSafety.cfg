SPECIFICATION FairSpec
CONSTANTS
    a = a
    b = b
    c = c
    s1 = s1
    s2 = s2
    NoOne = NoOne
    Callers <- MCCallers
    Sources <- MCSources
    Broken = {}
    Capacity = 1
    MaxCalls <- MCMaxCalls
INVARIANTS
    TypeOK
    OneCompilePerSource
    AnswerIsForOwnSource
    RebuiltOnlyAfterEviction
PROPERTIES
    EveryCallReturns

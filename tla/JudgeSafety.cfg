SPECIFICATION FairSpec
CONSTANTS
    r1 = r1
    r2 = r2
    r3 = r3
    r4 = r4
    s1 = s1
    NoOne = NoOne
    Requests <- MCRequests
    CasesOf <- MCCasesOf
    Invalid = {r4}
    Inline = {r2}
    Checkers = {s1}
    CheckerOf <- MCCheckerOf
    MaxJudges = 2
    MaxConcurrent = 2
    Cancellable = {r3}
INVARIANTS
    TypeOK
    StatusIsOwed
    AnsweredIsQuiet
PROPERTIES
    EveryRequestAnswered

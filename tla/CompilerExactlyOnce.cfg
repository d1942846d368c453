SPECIFICATION Spec
CONSTANTS
    a = a
    b = b
    c = c
    s1 = s1
    s2 = s2
    NoOne = NoOne
    Callers <- TwoCallers
    Sources = {s1}
    Broken = {s1}
    Capacity = 1
    MaxCalls <- TwoMaxCalls
INVARIANT
    CompiledOnceAcrossConcurrent

SPECIFICATION Spec
CONSTANTS
    e1 = e1
    e2 = e2
    e3 = e3
    c1 = c1
    c2 = c2
    NoCPU = NoCPU
    Execs <- MCExecs
    Compiles <- MCCompiles
    Expiring <- MCExpiring
    MaxConcurrent = 2
    CPUs <- TwoCPUs
    Faults = {"cleanup", "watch"}
SYMMETRY RunSymmetry
INVARIANT
    RunningContainersBounded

SPECIFICATION Spec
CONSTANTS
    NPROC = 4
    CPU = {c1, c2}
    NoCPU = NoCPU
    MaxPid = 4
    KillPids = {3}
SYMMETRY Symmetry
INVARIANTS
    StackExclusive
    NoLostExit

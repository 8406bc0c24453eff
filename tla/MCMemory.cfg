SPECIFICATION Spec
CONSTANTS
    Proc = {p1, p2, p3}
    Initproc = p1
    NPAGE = 21
    PGSIZE = 2
    FANOUT = 4
    USERSTACK = 1
    UINT64 = 128
    MaxSz = 5
    MaxSegs = 2
    MaxArg = 1
SYMMETRY Symmetry
INVARIANTS
    PagesConserved
    SpaceExact
    NoVmPanic

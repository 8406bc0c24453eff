SPECIFICATION Spec
CONSTANTS
    Proc = {p1, p2, p3}
    Block = {b1, b2, b3}
    Val = {v0, v1}
    NoBuf = NoBuf
    MAXOPBLOCKS = 2
    LOGSIZE = 4
    NLOG = 4
    OPBLOCKS = 2
SYMMETRY Symmetry
INVARIANTS
    CommitQuiescent
    PinsMatchLog
    SleepersMustWait
PROPERTY CrashAtomic

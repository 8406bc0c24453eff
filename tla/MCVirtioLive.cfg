SPECIFICATION FairSpec
CONSTANTS
    Proc = {p1, p2, p3}
    NoProc = NoProc
    NUM = 4
    UINT16 = 8
INVARIANT AllocatorsMustWait
PROPERTY RequestDone

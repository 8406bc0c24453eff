SPECIFICATION Spec
CONSTANTS
    Proc = {p1, p2}
    NoProc = NoProc
    NUM = 6
    UINT16 = 12
SYMMETRY Symmetry
INVARIANTS
    DescOwned
    HandlerSafe
    NoLostInterrupt
PROPERTY NoEarlyReturn

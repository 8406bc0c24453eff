SPECIFICATION Spec
CONSTANTS
    p1 = p1
    p2 = p2
    a = a
    b = b
    Proc = {p1, p2}
    Name = {a, b}
    NINODES = 3
    Requests <- DotDotRequests
INVARIANT
    IlockFindsType

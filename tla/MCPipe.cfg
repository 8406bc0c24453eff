SPECIFICATION Spec
CONSTANTS
    Proc = {p1, p2, p3}
    First = p1
    Killable = {p1}
    Byte = {b1, b2}
    PIPESIZE = 2
    UINT = 4
    MaxN = 2
SYMMETRY Symmetry
INVARIANTS
    NoUseAfterFree
    ReaderMustWait
    WriterMustWait
PROPERTY PipeIsFifo
\* A process that holds both ends may wait for itself for ever.
CHECK_DEADLOCK FALSE

SPECIFICATION FairSpec
CONSTANTS
    Reader = {r1, r2}
    Writer = {w1, w2}
    x = x
    y = y
    Text = {x, y}
    INPUT_BUF_SIZE = 2
    UART_TX_BUF_SIZE = 2
    UINT = 4
    TXFIFO = 3
    Works <- MCWorks
    ReadLens = {1, 2}
    WriteLens = {2}
    PrintLens = {1}
INVARIANTS
    ReaderMustWait
    NeverWedged
    NoOverrun
PROPERTIES
    IsTerminal
    WritesEnd

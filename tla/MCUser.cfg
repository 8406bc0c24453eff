SPECIFICATION FairSpec
CONSTANTS
    NPROC = 9
    NOFILE = 7
    PIPESIZE = 2
    MAXARGS = 4
    MaxNum = 8
    MaxLine = 5
    Contents <- MCContents
    Scripts <- MCScripts
    Tokens <- MCTokens
INVARIANTS
    ParserAgrees
    OnlyStdFds
    ForegroundDone
    OutputRight
PROPERTY Terminates
\* The shell waits at its prompt when the script is over.
CHECK_DEADLOCK FALSE

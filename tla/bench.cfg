SPECIFICATION FairSpec
CONSTANTS
    NumThreads = 2
    Connections = 3
    Requests = 2
    MsgLen = 4
    UpBuf = 2
    DownBuf = 1
    HoldMax = 1
    Faulty = TRUE
INVARIANTS
    TypeOK
    ReplyIsOwn
    CountsAddUp
PROPERTY
    BenchEnds
\* the benchmark ends
CHECK_DEADLOCK FALSE

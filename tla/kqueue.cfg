SPECIFICATION FairSpec
CONSTANTS
    Clients = {c1, c2}
    Workers = {w1}
    NumFDs = 1
    MaxBytes = 2
    BufSize = 2
    SndBuf = 1
    MaxEvents = 2
    Aborting = {c1, c2}
    ResetIsPipe = TRUE
    AddMayFail = FALSE
    NoTask = NoTask
    None = None
INVARIANTS
    FdAccounted
    EchoHitsOwnConnection
PROPERTIES
    IsEchoService
    EveryByteEchoed
\* clients may fall silent, and a stopped or killed server rests
CHECK_DEADLOCK FALSE

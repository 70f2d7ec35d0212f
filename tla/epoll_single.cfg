SPECIFICATION FairSpec
CONSTANTS
    Clients = {c1, c2}
    Workers = {w1}
    NumFDs = 1
    MaxBytes = 2
    BufSize = 2
    SndBuf = 1
    MaxEvents = 2
    Aborting <- NoClients
    ResetIsPipe = FALSE
    AddMayFail = FALSE
    NoTask = NoTask
    None = None
INVARIANT
    EchoHitsOwnConnection
PROPERTIES
    IsEchoService
    EveryByteEchoed
    EveryClientAccepted
    ShutdownEnds
\* clients may fall silent, and a stopped or killed server rests
CHECK_DEADLOCK FALSE

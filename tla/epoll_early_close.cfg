SPECIFICATION Spec
CONSTANTS
    Clients = {c1, c2}
    Workers = {w1, w2}
    NumFDs = 1
    MaxBytes = 1
    BufSize = 1
    SndBuf = 2
    MaxEvents = 2
    Aborting <- NoClients
    ResetIsPipe = FALSE
    AddMayFail = FALSE
    NoTask = NoTask
    None = None
INVARIANT
    EchoHitsOwnConnection
\* clients may fall silent, and a stopped or killed server rests
CHECK_DEADLOCK FALSE

SPECIFICATION Spec
CONSTANTS
    Clients = {c1, c2}
    Workers = {w1, w2}
    NumFDs = 2
    MaxBytes = 2
    BufSize = 2
    SndBuf = 2
    MaxEvents = 2
    Aborting <- AllClients
    ResetIsPipe = FALSE
    AddMayFail = TRUE
    NoTask = NoTask
    None = None
SYMMETRY Symmetry
INVARIANTS
    TypeOK
    FdAccounted
    CloseHitsOwnConnection
    EventsAreFresh
    NoByteEchoedTwice
\* clients may fall silent, and a stopped or killed server rests
CHECK_DEADLOCK FALSE

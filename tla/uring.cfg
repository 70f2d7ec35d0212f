SPECIFICATION FairSpec
CONSTANTS
    Clients = {c1, c2}
    NumFDs = 2
    MaxBytes = 1
    BufSize = 2
    SndBuf = 1
    SqDepth = 1
    Aborting = {c1}
    ResetIsPipe = FALSE
    None = None
    NoReq = NoReq
INVARIANTS
    TypeOK
    RequestOwnsFd
    OneAccept
PROPERTIES
    IsEchoService
    EveryByteEchoed
    ForgottenOnlyThen
    AcceptRetried
    ShutdownEnds
\* clients may fall silent, and a stopped server rests
CHECK_DEADLOCK FALSE

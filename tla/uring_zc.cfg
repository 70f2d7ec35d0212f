SPECIFICATION Spec
CONSTANTS
    Clients = {c1}
    NumFDs = 1
    MaxBytes = 1
    BufSize = 1
    SndBuf = 1
    SqDepth = 2
    Aborting = {}
    ResetIsPipe = FALSE
    None = None
    NoReq = NoReq
PROPERTY
    IsEchoService
\* clients may fall silent, and a stopped server rests
CHECK_DEADLOCK FALSE

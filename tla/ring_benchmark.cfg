SPECIFICATION FairSpec
CONSTANTS
    Size = 4
    IdxMod = 8
    Messages = 10
INVARIANTS
    TypeOK
    NoDataRace
    Drained
PROPERTIES
    IsBoundedQueue
    MutexIsBoundedQueue
    BenchmarkEnds
\* main() ends
CHECK_DEADLOCK FALSE

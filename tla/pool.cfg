SPECIFICATION FairSpec
CONSTANTS
    Workers = {w1, w2}
    Tasks = {t1, t2, t3}
    NoTask = NoTask
    Main = Main
    Nobody = Nobody
    StopAt <- AnyPoint
INVARIANTS
    TypeOK
    NoStrandedTask
    TaskConserved
PROPERTIES
    IsTaskQueue
    EveryTaskRuns
    StopReturnsWhenSeen
\* once stopped, workers and Main come to rest
CHECK_DEADLOCK FALSE

SPECIFICATION FairSpec
CONSTANTS
    Workers = {w1, w2}
    Tasks = {t1}
    NoTask = NoTask
    Main = Main
    Nobody = Nobody
    StopAt <- OutsideEnqueue
PROPERTY
    StopReturns
CHECK_DEADLOCK FALSE

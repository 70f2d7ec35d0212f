SPECIFICATION Spec
CONSTANTS
    Workers = {w1}
    Tasks = {t1}
    NoTask = NoTask
    Main = Main
    Nobody = Nobody
    StopAt <- AnyPoint
INVARIANT
    JoinCanReturn
CHECK_DEADLOCK FALSE

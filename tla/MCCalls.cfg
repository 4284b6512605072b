CONSTANTS
    AppThreads = {"t1", "t2"}
    Signaling = "signaling"
    MayCall <- MCMayCall
    MaxChanges = 1
SPECIFICATION Spec
INVARIANTS
    TypeOK
    QuietAfterClose
PROPERTIES
    EveryCallReturns
    NothingEndsSelfWait
CHECK_DEADLOCK FALSE

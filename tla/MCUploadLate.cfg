SPECIFICATION Spec
CONSTANTS
    i1 = i1
    i2 = i2
    i3 = i3
    t1 = t1
    t2 = t2
    t3 = t3
    Items <- TwoItems
    Tasks <- TwoTasks
    None = None
    RETRY_QUEUE_LIMIT = 1
    MaxStops = 1
    MaxShows = 0
    WakeLockSupported = TRUE
CHECK_DEADLOCK FALSE
SYMMETRY Symmetric
PROPERTY LateCallbacksInert

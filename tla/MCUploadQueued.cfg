SPECIFICATION FairSpec
CONSTANTS
    i1 = i1
    i2 = i2
    i3 = i3
    t1 = t1
    t2 = t2
    t3 = t3
    Items <- ThreeItems
    Tasks <- TwoTasks
    None = None
    RETRY_QUEUE_LIMIT = 2
    MaxStops = 1
    MaxShows = 1
    WakeLockSupported = TRUE
CHECK_DEADLOCK FALSE
PROPERTY ClicksServed

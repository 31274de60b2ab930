\* Every operation of two tabs of one device ends: they share a lock, a queue
\* and a mark; a request that outlives its tab competes with the other, and
\* one of them opens galleries.
CONSTANTS
    d1 = d1
    d2 = d2
    t1 = t1
    t2 = t2
    t3 = t3
    old = old
    photo = photo
    video = video
    None = None
    Devices = {d1, d2}
    Tabs = {t1, t2}
    DeviceOf <- HomeOf
    Media = {old, photo}
    InitialMedia = {old}
    Parts <- PartsOf
    MaxOps = 3
    MetaOps = 2
    MaxItems = 2
    MaxPointers = 3
    MaxDeleteOps = 5
    MaxRebase = 1
    DeleteAttempts = 2
    AttrsAtStart = {TRUE, FALSE}
    GalleryTabs = {t2}
    MaxCommits = 2
    MaxFaults = 2

SPECIFICATION FairSpec

PROPERTY OperationsEnd

\* Once the bounds are reached every tab is idle for good.
CHECK_DEADLOCK FALSE

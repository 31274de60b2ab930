\* Two devices with one tab each and one failure of any kind, or two tabs of
\* one device and none, the second of which also opens galleries.
CONSTANTS
    d1 = d1
    d2 = d2
    t1 = t1
    t2 = t2
    t3 = t3
    old = old
    photo = photo
    video = video
    None = None
    Devices = {d1, d2}
    Tabs = {t1, t2, t3}
    DeviceOf <- HomeOf
    Media = {old, photo, video}
    InitialMedia = {old}
    Parts <- PartsOf
    MaxOps = 3
    MetaOps = 2
    MaxItems = 2
    MaxPointers = 3
    MaxDeleteOps = 5
    MaxRebase = 1
    DeleteAttempts = 2
    AttrsAtStart = {TRUE, FALSE}
    GalleryTabs = {t2}
    MaxCommits = 3
    MaxCompeted = 2
    MaxFaults = 1

SPECIFICATION PairsSpec

INVARIANT TypeOK
INVARIANT EntriesHavePointers
INVARIANT RevisionOrdersHistory
INVARIANT StagedNeverLost
INVARIANT NeighboursAgree
INVARIANT MarkBehindHead
PROPERTY RebaseOnNewerHead
PROPERTY VaultRefined

\* Once the bounds are reached every tab is idle for good.
CHECK_DEADLOCK FALSE

\* Does VAULT_ROLLBACK only report a vault that was rolled back?
CONSTANTS
    d1 = d1
    d2 = d2
    t1 = t1
    t2 = t2
    t3 = t3
    old = old
    photo = photo
    video = video
    None = None
    Devices = {d1, d2}
    Tabs = {t1, t2, t3}
    DeviceOf <- HomeOf
    Media = {old, photo}
    InitialMedia = {old}
    Parts <- PartsOf
    MaxOps = 3
    MetaOps = 2
    MaxItems = 2
    MaxPointers = 3
    MaxDeleteOps = 5
    MaxRebase = 1
    DeleteAttempts = 2
    AttrsAtStart = {TRUE}
    GalleryTabs = {t2}
    MaxCommits = 2
    MaxFaults = 0

SPECIFICATION Spec

INVARIANT RefusedOnlyIfRolledBack

\* Once the bounds are reached every tab is idle for good.
CHECK_DEADLOCK FALSE

CONSTANTS
    \* Three service workers take over one after the other; one fault.
    MaxWorkers = 3
    MaxFaults = 1
    NoRegistration = NoRegistration
    \* More tasks than two workers can take.
    CryptoTasks = {q1, q2, q3, q4}
    POOL_SIZE = 2
    MaxShutdowns = 1
    NoTask = NoTask
    \* Three media; the largest fills the cache, the others share it.
    big = big
    small = small
    tiny = tiny
    Media = {big, small, tiny}
    SizeOf <- SizesOf
    MAX_ITEMS = 2
    MAX_BYTES = 2
    MAX_PREFETCHES = 2
    MaxLoads = 3
    NoMedia = NoMedia
    \* Two entries in two pages; two loads of the gallery.
    NewestFirst <- TwoEntries
    PageIndex <- TwoPages
    MaxRevision = 2
    MaxGalleryLoads = 2
    NoManifest = NoManifest
    \* Pages of two thumbnails; two devices publish four media.
    d1 = d1
    d2 = d2
    Rows <- QueuedRows
    ThumbLength <- Lengths
    BUNDLE_PAGE_SIZE = 2
    MAX_FINALIZE_REBASE = 1
    MaxChanges = 4
    OldMedium = "o"
    NoPage = NoPage
    \* Four calls, two at a time, fill the cache of files and evict from it,
    \* with one reload anywhere.
    large = large
    Files = {large, f1, f2}
    FileSize <- SizesOfFiles
    OPFS_BYTE_CAP = 2
    Calls = {c1, c2}
    MaxCalls = 4
    MaxReloads = 1

SPECIFICATION Spec

INVARIANTS PageTypeOK
           StreamClientIsJust PoolIsJust ShownIsJust 
PROPERTY PageWorkEnds

\* Once the bounds are reached a page is at rest.
CHECK_DEADLOCK FALSE

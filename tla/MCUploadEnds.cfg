SPECIFICATION FairSpec
CONSTANTS
    big = big
    small = small
    t1 = t1
    t2 = t2
    p1 = p1
    p2 = p2
    s1 = s1
    s2 = s2
    orig = orig
    other = other
    Ids = {big, small}
    Chunked = {big}
    ChunkCount = 1
    Tabs = {t1}
    Procs = {p1, p2}
    Sources = {orig}
    Original = orig
    None = None
    Syncs = {s1, s2}
    CHUNK_UPLOAD_CONCURRENCY = 2
    MAX_BACKGROUND_ATTEMPTS = 1
    Faults <- AllFaults
    MaxFaults = 1
CHECK_DEADLOCK FALSE
INVARIANT BackgroundBounded
PROPERTIES UploadsEnd CalledOffLeaves GoneStaysGone

SPECIFICATION Spec
CONSTANTS
    big = big
    small = small
    t1 = t1
    t2 = t2
    p1 = p1
    p2 = p2
    s1 = s1
    s2 = s2
    orig = orig
    other = other
    Ids = {big}
    Chunked = {big}
    ChunkCount = 2
    Tabs = {t1}
    Procs = {p1, p2}
    Sources = {orig, other}
    Original = orig
    None = None
    Syncs = {}
    CHUNK_UPLOAD_CONCURRENCY = 1
    MAX_BACKGROUND_ATTEMPTS = 2
    Faults <- AllFaults
    MaxFaults = 2
SYMMETRY Symmetry
CHECK_DEADLOCK FALSE
INVARIANTS TypeOK WrongFileNeedsTwoTries PublishedIsWhole
           RowsKeptUntilPublished
PROPERTY GoneStaysGone

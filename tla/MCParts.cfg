\* The planner's real limit of 40; 45 pages overrun it, 170 pointers need five
\* commits.  The grouping's 250 items and 1800 pointers are scaled down so that
\* either limit can be the one that cuts, several times in one batch.
CONSTANTS
    MaxOps = 40
    MaxPages = 45
    MaxPointerOps = 170
    MaxItems = 3
    MaxPointers = 4
    MaxLen = 6
    \* Two sessions of a medium of two chunks, the second one shorter; a cache
    \* that holds one of them; one permit for all.
    StreamIds = {x1, x2}
    Clients = {c1}
    MaxSessions = 2
    MaxBodies = 2
    Absent = Absent
    ChunkSize = 2
    MediaSize = 3
    RangeHeaders <- OneRange
    MAX_STREAM_CACHE_BYTES = 2
    MAX_CONCURRENT_STREAM_FETCHES = 1
    \* Two keys; a set may be used for one more tick than it is fresh.
    k1 = k1
    k2 = k2
    Kids = {k1, k2}
    Tokens <- SomeTokens
    Environments = {"ok", "no_aud"}
    MaxWaiting = 2
    MaxTime = 5
    Nothing = Nothing
    JWKS_TTL = 1
    JWKS_STALE = 2
    JWKS_FETCH_TIMEOUT = 1
    FORCED_REFRESH_MIN_INTERVAL = 1
    CLOCK_SKEW = 0
    \* Two first pages, served by two isolates.
    Pages = {p1, p2}
    Isolates = {i1, i2}
    MAX_COMMIT_ATTEMPTS = 2
    MaxMishaps = 2
    NoSalt = NoSalt
    OldSalt = OldSalt
    \* Two uploads of one object.
    Uploads = {u1, u2}
    DeclaredSize = 1

SPECIFICATION Spec

INVARIANTS PartsTypeOK
           CutsAreRight RangesRight
           LoadsAccountedFor KeysAreReachable CacheBounded
           AccessIsJust VaultInitIsJust WorkerUploadIsJust
PROPERTIES ClosedSendsNothing WorkEnds

\* The enumeration ends at the bounds; a worker nobody asks is at rest.
CHECK_DEADLOCK FALSE

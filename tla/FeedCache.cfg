CONSTANTS
    u1 = u1
    u2 = u2
    shared = shared
    Url <- OneUrl
    FileOf <- OwnFile
    Version = {v1, v2}
    Junk = Junk
    NotJson = NotJson
    None = None
    Garbled = Garbled
    TwoHeaders = {TRUE}
    RedisUrl = TRUE
    Ttl = 1
    Retries = 1
    Task = {t1, t2}
    MaxAttempts = 1
    Window = 1
    MaxTime = 2
SPECIFICATION Spec
SYMMETRY Symmetry
INVARIANTS TypeOK RateBound ServedRecent FetchedIsCurrent
CHECK_DEADLOCK FALSE

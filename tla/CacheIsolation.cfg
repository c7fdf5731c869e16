CONSTANTS
    u1 = u1
    u2 = u2
    shared = shared
    Url <- TwoUrls
    FileOf <- SharedFile
    Version = {v1, v2}
    Junk = Junk
    NotJson = NotJson
    None = None
    Garbled = Garbled
    TwoHeaders = {TRUE}
    RedisUrl = FALSE
    Ttl = 1
    Retries = 1
    Task = {t1}
    MaxAttempts = 1
    Window = 1
    MaxTime = 2
SPECIFICATION Spec
INVARIANT IsolatesCaches
CHECK_DEADLOCK FALSE

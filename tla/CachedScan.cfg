CONSTANTS
    Feed <- Feeds
    List <- Lists
    Hash <- Hashes
    Task = {t1, t2}
    Keychain = TRUE
    None = None
    Torn = Torn
    EmptyFeed <- NoRules
    MaxScans = 2
    MaxPublished = 1
    MaxRepublished = 0
    Threshold = 8
    Workers = 2
    Proc = {p1}
    NoToken = NoToken
    CommandLine <- MCCommandLine
    MaxOutages = 0
    LogEntry = {1}
    Writer = {w1}
    Setup <- MCSetup
    MaxCalls = 0
    MaxPolls = 1
SPECIFICATION MCSpec
INVARIANT CachedScanSurvives
CHECK_DEADLOCK FALSE

CONSTANTS
    Feed <- Feeds
    List <- Lists
    Hash <- Hashes
    Task = {t1, t2}
    Keychain = TRUE
    None = None
    Torn = Torn
    EmptyFeed <- NoRules
    MaxScans = 2
    MaxPublished = 1
    MaxRepublished = 1
    Threshold = 8
    Workers = 2
    Proc = {p1, p2}
    NoToken = NoToken
    CommandLine <- MCCommandLine
    MaxOutages = 1
    LogEntry = {1, 2}
    Writer = {w1, w2}
    Setup <- MCSetup
    MaxCalls = 1
    MaxPolls = 2
SPECIFICATION MCSpec
SYMMETRY Symmetry
INVARIANTS MCTypeOK FeedIsGenuine ReportedMeansBlocked HookCommandsHold SqliteLogHolds
CHECK_DEADLOCK FALSE

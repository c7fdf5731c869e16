CONSTANTS
    a1 = a1
    a2 = a2
    d1 = d1
    d2 = d2
    Domain = {d1, d2}
    AuditFile = {a1, a2}
    Config <- MCConfig
    Absent = Absent
    Broken = Broken
    Nothing = Nothing
    MaxEdits = 2
    MaxScans = 1
    Tool = {t1, t2}
    Portions = 2
    Buffer = 1
    File = {f1, f2}
    Key = {k1, k2, k3, k4}
    NoKey = NoKey
    NoFile = NoFile
    MaxCrashes = 1
    MaxKeyChanges = 2
    QrDomain = {d1, d2}
    Command = {c1, c2}
    MaxRotations = 1
    MaxKills = 1
    NoImage = NoImage
    HalfImage = HalfImage
    Service = {s1, s2}
    VaultCommand = {v1}
    Session = {i1, i2}
    NoSession = NoSession
    NoBody = NoBody
    First = First
    Empty = Empty
    Pending = Pending
    MaxLocks = 1
    Id = {d1, d2}
    Process = {p1, p2}
    Content <- MCContent
    NoId = NoId
    Unreadable = Unreadable
    Gone = Gone
    FirstFiles <- MCFirstFiles
    FirstVaults <- MCFirstVaults
    FileChange <- MCFileChange
    VaultChange <- MCVaultChange
    RunSetting = {"terminal", "pipe"}
    MaxFileChanges = 2
    MaxDoctorKills = 1
    MaxMishaps = 2
    MaxBustle = 4
    MaxMessages = 3
    FeedSetting <- MCFeedSetting
    Body <- MCBody
    WorkerCount = {0, 1, 2}
    Text <- MCText
    MaxStoreChanges = 2
    Page <- MCPage
    NoPage = NoPage
SPECIFICATION Spec
INVARIANTS
    TypeOK
    EveryScanIsAccounted PromptHoldsNothing
    InventoryNeverLost LoadNeverWrong
    QrCommandsHold
    PassedMeansEntitled
    CleanExitMeansClean UnchangedIsQuiet
    CleanScanMeansClean ReportIsHonest
PROPERTIES
    ToolsAreReported MigrationConverges FeedLoadsHold PassedMeansTrusted
CHECK_DEADLOCK FALSE

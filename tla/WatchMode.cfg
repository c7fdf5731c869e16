CONSTANTS
    l1 = l1
    l2 = l2
    None = None
    Garbled = Garbled
    Threshold = 2
    Workers = 2
    Log = {l1, l2}
    Feed <- Feeds
    Slot = {s1, s2}
    List <- Lists
    Domain <- Domains
    HostConfig <- HostConfigs
    HostPolicy <- HostPolicies
    MaxChanges = 2
    MaxDomains = 1
    MaxHost = 1
SPECIFICATION FairSpec
INVARIANTS TypeOK AllowedMeansCleanOneRule LogHoldsItsScans OneScanAfterStop ReturnedMeansRecorded
PROPERTY ChangesAreScanned
CHECK_DEADLOCK FALSE

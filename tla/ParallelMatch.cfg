CONSTANTS
    l1 = l1
    l2 = l2
    None = None
    Garbled = Garbled
    Threshold = 2
    Workers = 2
    Log = {l1, l2}
    Feed <- Feeds
    Slot = {s1, s2}
    List <- Lists
    Domain <- Domains
    HostConfig <- HostConfigs
    HostPolicy <- HostPolicies
    MaxChanges = 2
    MaxDomains = 0
    MaxHost = 0
SPECIFICATION Spec
INVARIANT AllowedMeansClean
CHECK_DEADLOCK FALSE

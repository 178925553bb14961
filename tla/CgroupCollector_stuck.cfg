SPECIFICATION LiveSpec
CONSTANTS
    pod = pod
    system = system
    d1 = d1
    Ids <- IdsSys
    Pods <- PodsSys
    Permanent <- PermanentSys
    Keys <- KeysSys
    None = None
    cgroupRefreshInterval = 1
    cgroupRefreshMinGap = 0
    RefreshWithin = 1
    deadCgroupRetention = 3
    unresolvedGrace = 3
    pruneInterval = 1
    PruneWithin = 1
    MaxCount = 1
PROPERTIES
    EitherSideDeadPruned

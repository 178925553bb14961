SPECIFICATION EventsSpec
CONSTANTS
    pod = pod
    d1 = d1
    d2 = d2
    Ids <- IdsThree
    Pods <- PodsOne
    Permanent <- PermanentOne
    Keys <- KeysBehind
    None = None
    cgroupRefreshInterval = 1
    cgroupRefreshMinGap = 0
    RefreshWithin = 1
    deadCgroupRetention = 3
    unresolvedGrace = 3
    pruneInterval = 1
    PruneWithin = 1
    MaxCount = 1
PROPERTIES
    QuietPollsCountAll

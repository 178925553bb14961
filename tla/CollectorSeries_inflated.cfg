SPECIFICATION SeriesSpec
CONSTANTS
    pod = pod
    d1 = d1
    d2 = d2
    unresolved = unresolved
    Ids <- IdsThree
    Pods <- IdsThree
    Permanent <- PermanentOne
    Keys <- KeysBehind
    LabelOf <- OwnLabel
    None = None
    cgroupRefreshInterval = 1
    cgroupRefreshMinGap = 0
    RefreshWithin = 1
    deadCgroupRetention = 3
    unresolvedGrace = 3
    pruneInterval = 1
    PruneWithin = 1
    MaxCount = 1
INVARIANTS
    NothingInflated

SPECIFICATION LiveChargeSpec
CONSTANTS
    c1 = c1
    p1 = p1
    p2 = p2
    g1 = g1
    CPUs <- OneCPU
    Pids <- TwoPids
    Cgroups <- OneCgroup
    Root = Root
    Idle = Idle
    None = None
    Faults <- AllFaults
    Skew = 1
    MIN_RUNQ_LAT_NS = 2
    MAX_PLAUSIBLE_RUNQ_LAT_NS = 2
    NsPerUs = 1
    NUM_BUCKETS = 1
    MAX_TASK_ENTRIES = 1
    MAX_HIST_ENTRIES = 1
    U64 = 16
    MaxTime = 2
INVARIANTS
    ExitHookMopsUp
PROPERTIES
    ChargeBounded
    EntriesDrain

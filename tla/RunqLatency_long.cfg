SPECIFICATION Spec
CONSTANTS
    c1 = c1
    p1 = p1
    p2 = p2
    g1 = g1
    CPUs <- OneCPU
    Pids <- TwoPids
    Cgroups <- OneCgroup
    Root = Root
    Idle = Idle
    None = None
    Faults <- NoFaults
    Skew = 0
    MIN_RUNQ_LAT_NS = 1
    MAX_PLAUSIBLE_RUNQ_LAT_NS = 2
    NsPerUs = 1
    NUM_BUCKETS = 3
    MAX_TASK_ENTRIES = 2
    MAX_HIST_ENTRIES = 2
    U64 = 16
    MaxTime = 4
PROPERTIES
    TrueMagnitudeSurvives

SPECIFICATION TwoCome
CONSTANTS
    d = d
    m = m
    u = u
    v = v
    w = w
    None = None
    External <- Five
    RouteOf <- Asks
    NoNumber = NoNumber
    Kilo = 3
    Int64 = 16
    Query <- Asked
    Default <- OneEach
    Least <- OneEach
    Most <- FourEach
    N <- TwoByDefault
    Timeout <- OneByDefault
    Target <- Named
    TargetQuery <- NamedQuery
    Burst <- OneEach
    Rate <- OneEach
    DisableRateLimit = FALSE
    ShutdownTimeout = 2
CHECK_DEADLOCK FALSE
INVARIANTS
    SizeAsAsked

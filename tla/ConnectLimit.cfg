SPECIFICATION Spec
CONSTANTS
    Instances = {i1, i2}
    Strategies <- TcpThenUdp
    PortsOf <- PortOfEach
    i1 = i1
    i2 = i2
    p1 = p1
    p2 = p2
    NullPort = NullPort
    NoPort = NoPort
    MayAsk = TRUE
    MayDeny = TRUE
    Visits = {}
    MayLeave = TRUE
    MayRecreate = TRUE
    MayForget = FALSE
    MayReopen = FALSE
    MaxPosts = 1
    MaxCalls = 0
    MaxLeft = 1
    MaxDying = 1
    MaxEvents = 1
INVARIANT TypeOK
INVARIANT UpIsLimited
CHECK_DEADLOCK FALSE
SYMMETRY Symmetry

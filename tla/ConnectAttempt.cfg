SPECIFICATION FairSpec
CONSTANTS
    Instances = {i1}
    Strategies <- TcpThenUdp
    PortsOf <- PortOfEach
    i1 = i1
    i2 = i2
    p1 = p1
    p2 = p2
    NullPort = NullPort
    NoPort = NoPort
    MayAsk = FALSE
    MayDeny = FALSE
    Visits = {"list", "offer"}
    MayLeave = TRUE
    MayRecreate = FALSE
    MayForget = FALSE
    MayReopen = TRUE
    MaxPosts = 1
    MaxCalls = 0
    MaxLeft = 1
    MaxDying = 1
    MaxEvents = 1
INVARIANT ConnectingIsWatched
PROPERTY ConnectingEnds
CHECK_DEADLOCK FALSE

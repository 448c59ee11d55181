SPECIFICATION FairSpec
CONSTANTS
    BinderThreads = {}
    Networks = {wifi, cell}
    NoNetwork = NoNetwork
    Unsettled = Unsettled
    ScreenOffPref = TRUE
    NetChangeReconnect = TRUE
    Orderly = TRUE
    MaxPosts = 1
    MaxQueue = 1
INVARIANTS TypeOK HoldCanBeEnded NoStuckHold HoldInv
PROPERTY ResumesEventually

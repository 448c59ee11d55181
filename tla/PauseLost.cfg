SPECIFICATION Spec
CONSTANTS
    BinderThreads = {}
    Networks = {wifi}
    NoNetwork = NoNetwork
    Unsettled = Unsettled
    ScreenOffPref = FALSE
    NetChangeReconnect = TRUE
    Orderly = TRUE
    MaxPosts = 1
    MaxQueue = 1
INVARIANT PausedIsHeld

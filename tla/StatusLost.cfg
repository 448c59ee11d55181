SPECIFICATION Spec
CONSTANTS
    States <- MCStates
    None = None
    MaxPosted = 2
    MaxCalls = 1
    MaxLevels = 1
INVARIANT UpdatesReceived

SPECIFICATION FairSpec
CONSTANTS
    States <- MCStates
    None = None
    MaxPosted = 2
    MaxCalls = 1
    MaxLevels = 1
INVARIANTS TypeOK UpToDate
PROPERTY InformedAtLast

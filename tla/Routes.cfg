SPECIFICATION FairSpec
CONSTANTS
    Bits = 3
    MaxNets = 4
    NoNet = NoNet
INVARIANTS TypeOK DoneDisjoint PositiveIsExact RoutesAreValid
PROPERTY Terminates

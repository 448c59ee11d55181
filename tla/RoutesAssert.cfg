SPECIFICATION Spec
CONSTANTS
    Bits = 3
    MaxNets = 3
    NoNet = NoNet
INVARIANT NextBeginsLater

SPECIFICATION FairSpec
CONSTANTS
    d1 = d1
    d2 = d2
    d3 = d3
    Data <- MCData
    Stream <- MCStream
    Half = 16
    SendSize = 2
    RecSize = 2
    AckSize = 1
    CONTROL_SEND_ACK_MAX = 1
    N_ACK_RETRANSMIT = 1
    RecordPackets = 2
    xmit_hold = TRUE
    MaxPackets = 2
    MaxRecords = 1
INVARIANTS TypeOK NothingForgotten WindowOpen AvailableIsFree
PROPERTIES FifoChannel Acknowledged
CHECK_DEADLOCK FALSE

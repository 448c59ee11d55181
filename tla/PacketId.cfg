SPECIFICATION Spec
CONSTANTS
    Backtracks = {0, 2}
    time_backtrack = 1
    SEQ_REAP_INTERVAL = 2
    PACKET_ID_MAX = 3
    MaxNow = 5
INVARIANTS TypeOK NoReplay InTimeIsAccepted LateIsRejected NoReuse
CHECK_DEADLOCK FALSE

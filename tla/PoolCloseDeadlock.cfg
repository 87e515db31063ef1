SPECIFICATION FairSpec
CONSTANTS
    Requests = {r1, r2}
    Conns = {c1}
    NoConn = none
    Size = 1
    Block = TRUE
    KeepAlive = 1
    Interval = 1
    MaxDrained = 2

PROPERTY WaitingEnds
CHECK_DEADLOCK FALSE

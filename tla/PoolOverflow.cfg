SPECIFICATION Spec
CONSTANTS
    Requests = {r1, r2}
    Conns = {c1, c2, c3}
    NoConn = none
    Size = 1
    Block = FALSE
    KeepAlive = 2
    Interval = 1
    MaxDrained = 2
SYMMETRY PoolSymmetry
INVARIANTS
    SlotsConserved
    NothingLeftOpen
CHECK_DEADLOCK FALSE

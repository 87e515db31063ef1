SPECIFICATION FairSpec
CONSTANTS
    Requests = {r1, r2, r3}
    Conns = {c1, c2}
    NoConn = none
    Size = 2
    Block = TRUE
    KeepAlive = 1
    Interval = 1
    MaxDrained = 2
INVARIANTS
    TypeOK
    SlotsConserved
    OneOwner
    IdleBounded
    NothingLeftOpen
PROPERTIES
    FreshCheckout
    WaitersServed
CHECK_DEADLOCK FALSE

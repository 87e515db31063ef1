SPECIFICATION FairSpec
CONSTANTS
    Threads = {t1, t2}
    Keys = {k1, k2}
    None = None
    Faulty = {"http"}
    Hanging = {k2}
    MaxCalls = 3
INVARIANTS
    TypeOK
    LiveIsCached
    NeverHandsOutClosed
    NothingLeaks
    PublisherStopsFirst
PROPERTY OthersNotBlocked
CHECK_DEADLOCK FALSE

SPECIFICATION Spec
CONSTANTS
    t1 = t1
    t2 = t2
    None = None
    NotJson = NotJson
    Undecodable = Undecodable
    NoCall = NoCall
    Threads = {t1, t2}
    Menu <- AllForOne
    Operations <- MCOperations
    Callbacks <- MCCallbacks
    Bodies <- MCBodies
    Errors <- MCErrors
    TransportErrors <- MCTransportErrors
    FetchErrors <- MCFetchErrors
    should_publish_events = TRUE
    MaxVersion = 2
    MaxCalls = 2
INVARIANTS
    TypeOK
    CardDataStaysOnPciHost
    EventTracesCall
    CauseKept
    RejectedTokenReplaced
    AcceptedCallsReturn
PROPERTY KeepsContract
CHECK_DEADLOCK FALSE

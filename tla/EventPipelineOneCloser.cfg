SPECIFICATION FairSpec
CONSTANTS
    Producers = {p1, p2}
    Flusher = flusher
    Closers = {k1}
    Capacity = 3
    MaxBatch = 2
    MaxEvents = 5
INVARIANTS
    TypeOK
    QueueBounded
    SenderOutlivesFlush
PROPERTIES
    DeliveredAtMostOnceInOrder
    CloseEnds
    EventsLeave
CHECK_DEADLOCK FALSE

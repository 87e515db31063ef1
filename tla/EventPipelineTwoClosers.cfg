SPECIFICATION Spec
CONSTANTS
    Producers = {p1, p2}
    Flusher = flusher
    Closers = {k1, k2}
    Capacity = 2
    MaxBatch = 2
    MaxEvents = 2
SYMMETRY ProducerSymmetry
PROPERTY CloseWaitsForFlush
CHECK_DEADLOCK FALSE

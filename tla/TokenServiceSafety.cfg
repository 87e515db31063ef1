SPECIFICATION Spec
CONSTANTS
    Callers = {c1, c2}
    Closers = {k1}
    Bg = bg
    NoThread = none
    Lifetimes = {2, 4}
    Skews = {0}
    Malformed = FALSE
    MinPause = 1
    MaxPause = 2
    BaseDelay = 1
    MaxDelay = 2
    MaxTime = 3
    MaxVersion = 2
SYMMETRY ThreadSymmetry
INVARIANTS
    TypeOK
    FetchUnderLock
    TokenNeverLost
    StopNotMissed
    NeverOversleeps
PROPERTIES
    NoBlindOverwrite
    TornReadIsSafe
CHECK_DEADLOCK FALSE

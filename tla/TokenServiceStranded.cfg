SPECIFICATION RecoveringSpec
CONSTANTS
    Callers = {c1}
    Closers = {k1}
    Bg = bg
    NoThread = none
    Lifetimes = {2}
    Skews = {0}
    Malformed = TRUE
    MinPause = 1
    MaxPause = 2
    BaseDelay = 1
    MaxDelay = 2
    MaxTime = 2
    MaxVersion = 2
PROPERTY MalformedTokenReplaced
CHECK_DEADLOCK FALSE

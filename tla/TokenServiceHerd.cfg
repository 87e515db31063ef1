SPECIFICATION Spec
CONSTANTS
    Callers = {c1, c2}
    Closers = {k1}
    Bg = bg
    NoThread = none
    Lifetimes = {2, 4}
    Skews = {0}
    Malformed = FALSE
    MinPause = 1
    MaxPause = 2
    BaseDelay = 1
    MaxDelay = 2
    MaxTime = 3
    MaxVersion = 3
SYMMETRY ThreadSymmetry
INVARIANT HerdCollapses
CHECK_DEADLOCK FALSE

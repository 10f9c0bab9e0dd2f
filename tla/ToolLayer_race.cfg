CONSTANTS
    Callers = {c1, c2, c3}
    Stampings = {TRUE}
    Management = FALSE
    HasReconcile = TRUE
    HostMayFail = TRUE
    Skew = 0
    Window = 1
    NoStamp = NoStamp
    MaxClock = 6
    MaxAnsweredUnknown = 1
    MaxRetrySame = 2
    MaxIntents = 3
    MaxRestamps = 1
    MaxSends = 1
SPECIFICATION Spec
INVARIANTS
    OneLiveIntent
CHECK_DEADLOCK FALSE

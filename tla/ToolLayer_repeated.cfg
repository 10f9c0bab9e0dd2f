CONSTANTS
    Callers = {c1, c2}
    Stampings = {TRUE}
    Management = FALSE
    HasReconcile = TRUE
    HostMayFail = TRUE
    Skew = 1
    Window = 1
    NoStamp = NoStamp
    MaxClock = 7
    MaxAnsweredUnknown = 1
    MaxRetrySame = 2
    MaxIntents = 2
    MaxRestamps = 1
    MaxSends = 3
SPECIFICATION Spec
INVARIANTS
    RepeatedHasNotExecuted
CHECK_DEADLOCK FALSE

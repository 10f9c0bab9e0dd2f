CONSTANTS
    Callers = {c1, c2}
    Stampings = {TRUE, FALSE}
    Management = FALSE
    HasReconcile = TRUE
    HostMayFail = TRUE
    Skew = 1
    Window = 1
    NoStamp = NoStamp
    MaxClock = 6
    MaxAnsweredUnknown = 1
    MaxRetrySame = 2
    MaxIntents = 2
    MaxRestamps = 1
    MaxSends = 3
SPECIFICATION FairSpec
INVARIANTS
    SettledNeverRuns
    HonestAnswers
    OneLiveIntent
PROPERTIES
    NeverTwiceUnknowingly
    NobodyWaitsForEver
CHECK_DEADLOCK FALSE

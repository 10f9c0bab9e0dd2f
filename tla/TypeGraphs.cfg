CONSTANTS
    Jobs <- MCJobs
    Families <- MCFamilies
    MaxChecks = 2
SPECIFICATION MCSpec
INVARIANTS
    OneNodeEachType
    SameMeaningSameResult
    WorkRefusalIsReal
    AcceptedBeforeRefusals
    RefusedIsNoSubtype
PROPERTY RefinesPartition
CHECK_DEADLOCK FALSE

CONSTANTS
    Families <- MCFamilies
    Modes <- MCModes
    PackMethods <- MCPackMethods
SPECIFICATION PackSpec
INVARIANTS
    VerdictIsTheRelation
    ReportedPathsAreReal
    PackVerdictIsTheRelation
CHECK_DEADLOCK FALSE

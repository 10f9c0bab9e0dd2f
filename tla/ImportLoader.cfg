CONSTANTS
    s1 = s1
    s2 = s2
    s3 = s3
    s4 = s4
    Source <- MCSource
    Entry = s1
    Programs <- MCPrograms
    Size <- MCSizes
    MaxImportDepth = 2
    MaxSources = 3
    MaxImportEdges = 4
    MaxBundleBytes = 3
SPECIFICATION Spec
INVARIANTS
    LoadsExactlyTheReachable
    AcceptedIsAcyclic
    ActorKeptExactly
    UnitsInDepthFirstOrder
    VerdictsAreReal
    TotalsAreCounted
PROPERTY Terminates
CHECK_DEADLOCK FALSE

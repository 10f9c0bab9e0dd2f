CONSTANTS
    s1 = s1
    s2 = s2
    s3 = s3
    s4 = s4
    Entry = s1
    Source <- MCSource
    Programs <- MCFourGraphs
    Size <- MCOneByteEach
    MaxImportDepth = 2
    MaxSources = 4
    MaxImportEdges = 6
    MaxBundleBytes = 4
SPECIFICATION Spec
INVARIANT AcceptedChainsWithinDepth
CHECK_DEADLOCK FALSE

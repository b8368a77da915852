CONSTANTS
    v1 = v1
    v2 = v2
    Vertex <- Two
    Graphs <- UpToTwo
    Reverse = TRUE
    MaxUpdates = 3
SPECIFICATION FairSpec
INVARIANTS FailureCascades WaitAccountsForAll
PROPERTIES DepsHonoured WalkTerminates
CHECK_DEADLOCK FALSE

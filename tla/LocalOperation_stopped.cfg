SPECIFICATION FairSpec
CONSTANTS
    Res = {r1, r2}
    Foreign = {f}
    Intermediate = TRUE
    SkipsUnchanged = TRUE
    MaxFailures = 2
    AllowKill = TRUE
    UnlockHonoursContext = FALSE
INVARIANT TypeOK
INVARIANT NothingLost
INVARIANT SavedAfterStop
INVARIANT ProvidersSpared
INVARIANT UnlockedWhenDone
INVARIANT NoLostUpdate
PROPERTY StopTakesEffect
PROPERTY OperationEnds

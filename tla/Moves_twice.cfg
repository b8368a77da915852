CONSTANTS
    Configs <- UpToMaxMoved
    Priors <- UpToMaxPrior
    MaxMoved = 3
    MaxPrior = 2
SPECIFICATION Spec
CHECK_DEADLOCK FALSE
INVARIANTS OldAddrIsTrue NoneLeftBehind SameResult

SPECIFICATION Spec
CONSTANTS
    Res = {r1, r2}
    Foreign = {f}
    Intermediate = TRUE
    SkipsUnchanged = TRUE
    MaxFailures = 0
    AllowKill = FALSE
    UnlockHonoursContext = TRUE
SYMMETRY Symmetry
INVARIANT UnlockedWhenDone

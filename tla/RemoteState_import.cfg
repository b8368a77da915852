SPECIFICATION Spec
CONSTANTS
    Proc = {p1, p2, p3}
    a = a
    b = b
    Obj = {a, b}
    NoState = NoState
    NoProc = NoProc
    Initial <- Existing
    Foreign <- ForeignFiles
    Forces <- AnyForce
    Locking = TRUE
    MaxMutations = 2
    MaxFailures = 1
    MaxSerial = 6
SYMMETRY Sym
CHECK_DEADLOCK FALSE
INVARIANTS
    ImportKeepsLineage
    PersistedIsLatest
    ResultIsRecorded
PROPERTY
    NoUpdateDestroyed

SPECIFICATION Spec
CONSTANTS
    Proc = {p1, p2, p3}
    a = a
    b = b
    Obj = {a, b}
    NoState = NoState
    NoProc = NoProc
    Initial <- AnyStart
    Foreign <- NoFiles
    Forces <- NoImport
    Locking = TRUE
    MaxMutations = 2
    MaxFailures = 2
    MaxSerial = 12
SYMMETRY Sym
CHECK_DEADLOCK FALSE
INVARIANTS
    TypeOK
    SerialNamesSnapshot
PROPERTIES
    LineGrows
    PlanMatchesState
    ImplementsStore

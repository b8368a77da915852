SPECIFICATION Spec
CONSTANTS
    Proc = {p1, p2}
    a = a
    b = b
    Obj = {a, b}
    NoState = NoState
    NoProc = NoProc
    Initial <- NoneYet
    Foreign <- NoFiles
    Forces <- NoImport
    Locking = TRUE
    MaxMutations = 2
    MaxFailures = 1
    MaxSerial = 12
SYMMETRY Sym
CHECK_DEADLOCK FALSE
INVARIANT
    ResultIsRecorded

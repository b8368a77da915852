SPECIFICATION Spec
CONSTANTS
    Procs = {p1, p2, p3}
    Objects = {o1}
    Old = {old}
    MaxFiles = 2
    MaxSerial = 3
SYMMETRY Symmetry
CHECK_DEADLOCK FALSE
INVARIANT TypeOK
INVARIANT RecordSurvives
INVARIANT BackupFirst
INVARIANT SerialCoversChange
PROPERTY ImplementsStore

SPECIFICATION Spec
CONSTANTS
    Procs = {p1, p2}
    Objects = {o1}
    Old = {old}
    MaxFiles = 2
    MaxSerial = 3
SYMMETRY Symmetry
CHECK_DEADLOCK FALSE
INVARIANT CreatedFileKept

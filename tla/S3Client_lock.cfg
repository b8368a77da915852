SPECIFICATION Spec
CONSTANTS
    p1 = p1
    p2 = p2
    p3 = p3
    Proc <- Team
    Left = Left
    NoProc = NoProc
    Modes <- TeamModes
    MaxVersions = 2
    MaxFaults = 1
SYMMETRY Alike
INVARIANTS
    TypeOK
    HolderIsLocked
    ReadsAreFresh
    LocksReleased
PROPERTY ImplementsStore
CHECK_DEADLOCK FALSE

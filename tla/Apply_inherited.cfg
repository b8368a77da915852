SPECIFICATION Spec
CONSTANTS
    a = a
    b = b
    Res = {a, b}
    NoObject = NoObject
    Configs <- Inherited
    MaxRuns = 2
    MaxFaults = 0
CHECK_DEADLOCK FALSE
INVARIANT PlanIsWalkable

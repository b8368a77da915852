SPECIFICATION Spec
CONSTANTS
    a = a
    b = b
    Res = {a, b}
    NoObject = NoObject
    Configs <- AnyConfigs
    MaxRuns = 3
    MaxFaults = 2
CHECK_DEADLOCK FALSE
INVARIANTS TypeOK CycleNeedsMixedOrder NothingForgotten CleanRunConverges UsersDestroyedFirst UsersUpdatedFirst

\* --keep-rule: does myexit remove what it installed?
SPECIFICATION Spec
CONSTANTS
    Modes = {"keep"}
    MaxFails = 0
    MaxFlushes = 0
    MaxRuns = 1
INVARIANT KeepCleanExit
CHECK_DEADLOCK FALSE

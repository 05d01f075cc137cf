SPECIFICATION Spec
CHECK_DEADLOCK FALSE

CONSTANTS
    e1 = e1
    e2 = e2
    e3 = e3
    Execs = {e1}
    Pids = {1}
    MaxUnclaimed = 2
    MaxConcurrent = 2
    MaxDetached = 1
    OutQueue = 1
    StdinDepth = 1
    IdleStop = 1
    MaxNow = 0
    MaxReg = 1
    Setups <- MCResumed

PROPERTY ResumedTakesExecs

\* two callers resume one parked session at once; nothing fails
SPECIFICATION Spec
CONSTANTS
    Ops = {o1, o2}
    Sweeper = sweep
    Handles = {1}
    Hubs = {h1}
    MaxRun = 2
    MaxBoot = 2
    MaxGen = 0
    MaxFaults = 0
SYMMETRY Symmetry
PROPERTY SweepsOnlyFinished
CHECK_DEADLOCK FALSE

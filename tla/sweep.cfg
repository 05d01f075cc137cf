\* one caller of the API, two connections, one fault
SPECIFICATION Spec
CONSTANTS
    Ops = {o1}
    Sweeper = sweep
    Handles = {1}
    Hubs = {h1, h2}
    MaxRun = 2
    MaxBoot = 2
    MaxGen = 1
    MaxFaults = 1
SYMMETRY Symmetry
INVARIANT CountsComeBack
INVARIANT NoResumeOverSweep
CHECK_DEADLOCK FALSE

SPECIFICATION Spec
CHECK_DEADLOCK FALSE

CONSTANTS
    Names <- MCNames
    MaxSuspends = 2
    MaxGen = 3
    Probe = 2
    MaxConns = 2
    Window = 2
    MaxIndex = 4
    Setups <- MCSetups

INVARIANT LandsWhereNamed
INVARIANT CommittedWasThere
INVARIANT ResumesWithItsWork
PROPERTY SuspendEnds

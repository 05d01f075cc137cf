SPECIFICATION Spec

CONSTANTS
    s1 = s1
    Slots = 1
    Sessions = {s1}
    Runners = {1}
    MaxGen = 3
    Total <- MCTotal
    MaxConn = 2
    QueueCap = 1
    MaxReports = 1
    Timeouts = FALSE
    Requests = {}
    Target <- MCTarget
    MaxStatus = 0
    Eligible <- MCEligible
    Cached <- MCUncached

INVARIANT TypeOK
PROPERTY EventsOfThisPlacement
PROPERTY StartedNeverRecreated

CHECK_DEADLOCK FALSE

SPECIFICATION LaterSpec
CHECK_DEADLOCK FALSE

CONSTANTS
    s1 = s1
    Slots = 1
    Sessions = {s1, s2}
    Runners = {1, 2}
    MaxGen = 3
    Total <- MCTotal
    MaxConn = 2
    QueueCap = 1
    MaxReports = 0
    Timeouts = FALSE
    Requests = {q1, q2}
    Target <- MCTarget
    MaxStatus = 1
    Eligible <- MCPinned
    Cached <- MCCached

INVARIANT EvidenceHolds
PROPERTY ResumeSettles
PROPERTY QueuedIsPlaced

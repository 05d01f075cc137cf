SPECIFICATION Spec
CHECK_DEADLOCK FALSE

CONSTANTS
    s1 = s1
    s2 = s2
    r1 = r1
    r2 = r2
    Sessions = {s1, s2}
    Runners = {r1, r2}
    Boxes <- MCBoxes
    Scripts = {"a", "b"}
    MaxToken = 2
    PendingCap = 2
    MaxGen = 3
    Setups <- MCSetups

INVARIANT NoStaleVerdict
INVARIANT CacheIsBuilt
INVARIANT AgentIsReady
PROPERTY BootEnds

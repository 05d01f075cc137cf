SPECIFICATION FairSpec
CONSTANTS
    Keys = {1, 2, 3}
    SlotCount = 2
    Callers = {c1, c2}
    SessionOf <- MCSessionOf
    MaxGen = 3
    MaxCheckpoint = 2
    MaxWrites = 2
    MaxFaults = 2
    Setups <- MCSetups
CHECK_DEADLOCK FALSE
INVARIANTS
    NothingPulledAway
    NoSlotLost
    WorkKept
PROPERTIES
    GenerationBootsOnce
    CallsEnd

SPECIFICATION Spec
CHECK_DEADLOCK FALSE

CONSTANTS
    Conns = {1, 2, 3, 4}
    MaxEpoch = 6
    Setups <- MCSetups

INVARIANT AnswersItsQuestion
INVARIANT CanStillReconnect
PROPERTY NoOldVoice
PROPERTY Reconnects

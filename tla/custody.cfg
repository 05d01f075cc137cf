SPECIFICATION Spec
CHECK_DEADLOCK FALSE

CONSTANTS
    b1 = b1
    b2 = b2
    Boxes = {b1, b2}
    MaxLogins = 3
    Attempts = 2
    Setups <- MCSetups

INVARIANT LoggedOutStaysOut
INVARIANT RevokedStaysGone
PROPERTY LoginSaved

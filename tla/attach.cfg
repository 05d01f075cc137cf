SPECIFICATION Spec
CONSTANTS
  a1 = a1
  a2 = a2
  None = None
  Attaches = {a1, a2}
  Setups <- MCSetups
CHECK_DEADLOCK FALSE
INVARIANTS
  NoOrphanedControl
  TruthTold
PROPERTIES
  FenceImplemented
  DisplacedStepsDown
  HandoffsEnd

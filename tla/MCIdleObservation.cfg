SPECIFICATION Spec
CONSTANTS
  Requests = {r1, r2}
  MinWait = 2
  Deadline = 4
  UnknownBudget = 1
  Interval = 1
  MaxSample = 1
  Tolerance = 0
  MaxTime = 4
  MaxHealth = 1
  TransientReasons = {age}
  StructuralReasons = {feed}
  None = None
INVARIANT HandoffAfterQuiet
SYMMETRY Symmetry
CHECK_DEADLOCK FALSE

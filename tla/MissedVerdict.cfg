SPECIFICATION MissedSpec
CONSTANTS
  Requests = {r1}
  MinWait = 2
  Deadline = 4
  UnknownBudget = 1
  Interval = 1
  MaxSample = 1
  Tolerance = 0
  MaxTime = 4
  MaxHealth = 1
  TransientReasons = {age}
  StructuralReasons = {feed}
  None = None
INVARIANT HandoffMeansNeverDeferred
CHECK_DEADLOCK FALSE

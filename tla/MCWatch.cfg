SPECIFICATION WatchSpec
CONSTANTS
  None = None
  MinWait = 2
  Deadline = 7
  UnknownBudget = 1
  Instants <- MCInstants
  Generations <- MCGenerations
  Timestamps <- MCTimestamps
  TransientReasons = {age}
  StructuralReasons = {feed}
  Nowhere = Nowhere
  MaxLines = 5
  MaxRetained = 2
  Torn = TRUE
  StrikeThreshold = 2
  MemorySamples = 2
  Cooldown = 2
  Day = 5
  PerDay = 2
  MaxTime = 9
  MaxShed = 2
  MaxHeavy = 1
INVARIANTS ReadyMeansQuiet UnknownIsBounded HealthyFeedIsComplete
PROPERTIES RecyclesSpaced RecyclesCapped RecycleEarned
CHECK_DEADLOCK FALSE

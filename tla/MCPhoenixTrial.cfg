SPECIFICATION FairPhoenixSpec
CONSTANTS
  Actors = {a1, a2}
  Runs = {r1}
  Spans = {root, child}
  NoOne = NoOne
  NoRun = NoRun
  PageSize = 1
  MaxPages = 2
  MaxTime = 1
  MaxFaults = 1
  MaxStrays = 1
INVARIANTS PostedOnce PostIsRemembered VerifiedIsExact
PROPERTY ReadingEnds
CHECK_DEADLOCK FALSE

SPECIFICATION FairRunSpec
CONSTANTS
  StreamLimit = 1
  PipeSize = 1
  MaxOutput = 2
INVARIANTS CompletedIsWhole ProofHolds OutcomeIsTrue
PROPERTY RunEnds
CHECK_DEADLOCK FALSE

SPECIFICATION FairSpec
CONSTANTS
  Updaters = {u1}
  Healer = healer
  Images = {i1, i2}
  MaxChanges = 3
  MaxSignals = 1
  None = None
INVARIANTS RefusalIsClean VerdictIsCurrent EndLeavesNothing
PROPERTIES OnlyItsOwnTarget CommitReleasesLock OrphanCleansUp
CHECK_DEADLOCK FALSE

SPECIFICATION Spec
CONSTANTS
  Updaters = {u1, u2}
  Healer = healer
  Images = {i1}
  MaxChanges = 1
  MaxSignals = 1
  None = None
INVARIANT OneCommitter
PROPERTY KeepsPromise
SYMMETRY Symmetry
CHECK_DEADLOCK FALSE

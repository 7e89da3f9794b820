SPECIFICATION FairSpec
CONSTANTS
  Controllers <- Walks
  Bodies <- MCBodies
  Foreign = Foreign
  None = None
  c1 = c1
  c2 = c2
  w1 = w1
  MaxChanges = 3
  MaxEdits = 1
  MaxFaults = 1
  MaxLag = 2
INVARIANTS TypeOK MirroredWhenSettled
PROPERTIES MovesForward MirroredInTheEnd NothingOutlivesItsSource
CHECK_DEADLOCK FALSE

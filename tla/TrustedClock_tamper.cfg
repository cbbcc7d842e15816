SPECIFICATION Spec
CONSTANTS
  None = None
  TOLERANCE_SECONDS = 1
  WallMoves <- MCMoves
  OffTimes = {0, 2}
  MaxDrift = 2
  MaxReal = 5
  MaxBoots = 3
INVARIANTS EvidenceMeansRestart LagBounded
PROPERTIES NoFreeTime
CHECK_DEADLOCK FALSE

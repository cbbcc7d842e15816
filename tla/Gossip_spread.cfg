SPECIFICATION FairSpec
CONSTANTS
  None = None
  Devices <- MCDevices
  Reaches <- MCReaches
  Ops = {0, 1, 2, 3}
  MAX_CONVERSATIONS = 1
  KEEP_SEGMENTS = 2
INVARIANTS OneHistory
PROPERTIES RevokedUnheard NothingUnlearned Together
CHECK_DEADLOCK FALSE

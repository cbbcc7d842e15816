SPECIFICATION Spec
CONSTANTS
  Confirm = Confirm
  Token = Token
  None = None
  DELAYED_RELEASE_SECONDS = 2
  Devices = {d1, d2}
  Conditions <- MCConditions
  Offered <- MCOffered
  MaxNow = 1
INVARIANTS SameNewsSameHold
PROPERTIES NeverLighter
SYMMETRY MCDevices

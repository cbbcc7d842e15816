SPECIFICATION ServiceSpec
CONSTANTS
  None = None
  Confirm = Confirm
  RestartRequired = RestartRequired
  OwnRelease = OwnRelease
  work = work
  Conditions <- MCConditions
  Profiles = {work}
  Freezing = {}
  Windows <- MCWindows
  Starts <- MCStarts
  Claimable = {Confirm}
  Provable = {}
  Strangers = {}
  DELAYED_RELEASE_SECONDS = 5
  PROOF_SECONDS = 1
  MINIMUM_WARNING_SECONDS = 1
  PERSIST_IDLE = 2
  PassQuota = 1
  PassWindow = 2
  PassCooldown = 1
  MaxNow = 3
  MaxBoots = 2
  MaxMinted = 1
INVARIANTS PassesArePaid CrashIsNoWayOut

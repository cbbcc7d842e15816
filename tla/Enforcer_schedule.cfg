SPECIFICATION MCSpec
CONSTANTS
  None = None
  Confirm = Confirm
  Tag = Tag
  RestartRequired = RestartRequired
  OwnRelease = OwnRelease
  work = work
  desk = desk
  Conditions = {Confirm}
  Profiles = {work}
  Freezing = {}
  Windows <- ScheduleWindows
  Starts <- ScheduleStarts
  Claimable = {Confirm}
  Provable = {}
  Strangers <- Nobody
  DELAYED_RELEASE_SECONDS = 2
  PROOF_SECONDS = 2
  MINIMUM_WARNING_SECONDS = 2
  PassQuota = 2
  PassWindow = 5
  PassCooldown = 2
  MaxNow = 5
  MaxMinted = 1
INVARIANTS PassRation
PROPERTIES NeverWeaker EndedStaysEnded ReleaseArrives

SPECIFICATION Spec
CONSTANTS
  None = None
  Confirm = Confirm
  Tag = Tag
  RestartRequired = RestartRequired
  OwnRelease = OwnRelease
  work = work
  desk = desk
  Conditions = {Confirm, Tag}
  Profiles = {work, desk}
  Freezing = {desk}
  Windows <- RightWindows
  Starts <- RightStarts
  Claimable = {Confirm}
  Provable = {Tag}
  Strangers = {}
  DELAYED_RELEASE_SECONDS = 2
  PROOF_SECONDS = 2
  MINIMUM_WARNING_SECONDS = 2
  PassQuota = 2
  PassWindow = 5
  PassCooldown = 2
  MaxNow = 3
  MaxMinted = 1
PROPERTIES FreezeAnnounced KeepsThePromise

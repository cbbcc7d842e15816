CONSTANTS
  DAY = 10
  LONGEST_GAP = 0
  FIRST_WEEKDAY = 0
  MonthLengths <- MCMonths
  BROWSERS = {}
  Platforms = {"android"}
  None = None
  Conditions = {"confirm", "credential", "fridge", "restart", "mine", "theirs"}
  DELAYED_RELEASE_SECONDS = 2
  Profiles = {"work", "distractions"}
  Claimable = {"confirm"}
  ReleasedBy <- MCReleasedBy
  Me = "me"
  Targets <- MCTargets
  Zones <- MCZones
  PROOF_SECONDS = 2
  Blank <- MCBlank
  Starter <- MCStarter
  Observed <- MCObserved
  Ledgers <- MCLedgers
  Stories <- MCStories
SPECIFICATION Spec
INVARIANTS
  NothingMissed
PROPERTIES
  RulesHold
  OnlyByRight
CHECK_DEADLOCK FALSE

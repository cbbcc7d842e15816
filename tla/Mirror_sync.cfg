CONSTANTS
  None = None
  Profiles = {"work"}
  Conditions = {"tag", "phone", "never"}
  DELAYED_RELEASE_SECONDS = 2
  Devices = {1, 2}
  Claimable = {"tag"}
  ReleasedBy <- MCReleasedBy
  Quota = 1
  CALENDAR_SECONDS = 3
  Stories <- MCStories
SPECIFICATION FairSpec
INVARIANTS
  EndedStaysEnded
PROPERTIES
  CountedOnce
  NeverFreedBySync
  Shared
CHECK_DEADLOCK FALSE

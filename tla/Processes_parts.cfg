CONSTANTS
  Absent = Absent
  Torn = Torn
  None = None
  Damageable <- Either
  Deletable <- AnyFiles
  MaxVersion = 3
  Askers = {"page", "cli"}
  Idlers = {"prompt"}
  Pages = {"page", "prompt"}
  MAX_CONNECTIONS = 2
  MAX_IN_FLIGHT = 1
  MaxFaults = 1
  Watchdogs = {"first", "second"}
  FAILURE_ACTIONS = 1
  MaxKills = 3
  Meetings <- MCMeetings
  INVITE_SECONDS = 2
  BEACON_GRACE_SECONDS = 1
  Views <- MCViews
  NOTICE_SECONDS = 2
  DELAYED_RELEASE_SECONDS = 2
  Quota = 2
  Cooldown = 2
SPECIFICATION System
INVARIANTS
  StateSurvives
  ComparedIsHeld
  GhostsFade
PROPERTIES
  Heard
  OnlyWhenFull
  ComesBack
  LeavesAlone
  ListensOncePaired
  TraySpeaksTrue
CHECK_DEADLOCK FALSE

CONSTANTS
  DAY = 1000
  LONGEST_GAP = 0
  FIRST_WEEKDAY = 0
  MonthLengths <- MCMonths
  BROWSERS <- MCBrowsers
  Platforms = {"windows"}
  WINDOW_SECONDS = 6
  RETRY_BASE_SECONDS = 1
  RETRY_MAX_SECONDS = 2
  Longest = 1
  TICK = 1
  SEEN_SECONDS = 2
  STARTUP_SECONDS = 3
  GRACE_SECONDS = 5
  Start = 10
  NAP = 7
  LONGEST_DELAY = 60
  Stories <- MCStories
SPECIFICATION FairSpec
INVARIANTS
  UsedWhileAwake
  OutageKeepsBlock
  KeptRulesStand
PROPERTIES
  ClosesRightly
  GivenBack
CHECK_DEADLOCK FALSE

CONSTANTS
  DAY = 4
  LONGEST_GAP = 3
  FIRST_WEEKDAY = 0
  HOUR = 1
  DEFAULT_REFRESH = 1
  MAX_OCCURRENCES = 40
  MAX_ITERATIONS = 40
  BROWSERS = {"chrome"}
  Platforms = {"windows", "android"}
  MonthLengths <- MCMonthLengths
  Shorter <- MCShorter
  Stories <- MCStories
  Observed <- MCObserved
  Ledgers <- MCLedgers
  Patterns <- MCPatterns
  Texts <- MCTexts
  Domains <- MCDomains
  Files <- MCFiles
SPECIFICATION Spec
INVARIANTS
  CalendarAgrees
  DecisionsAgree
CHECK_DEADLOCK FALSE

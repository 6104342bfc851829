CONSTANTS
  MaxRetries = 3
  MaxWindows = 3
  MaxLaunches = 2
SPECIFICATION FairSpec
INVARIANTS TypeOK NoOrphan OneWindow
PROPERTIES QuitEnds StartupAnswers
CHECK_DEADLOCK FALSE

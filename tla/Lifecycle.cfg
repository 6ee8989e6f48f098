SPECIFICATION FairSpec
CONSTANTS
  Interval = 1
  Timeout = 2
  MaxSessions = 2
  MaxUnits = 2
  MaxMessages = 1
INVARIANTS
  LimiterInv
  SessionsApart
  QuitIsPrompt
PROPERTIES
  KillEnds
  LimiterServes
CHECK_DEADLOCK FALSE

CONSTANTS
  Sessions = {s1, s2}
  MaxNotices = 2
  MaxLogons = 2
  MaxPauses = 2
SPECIFICATION FairSpec
INVARIANTS TypeOK SessionStartedOnce ServesActiveSessions
PROPERTY StopIsFinal
CHECK_DEADLOCK FALSE

CONSTANTS
  Sessions = {s1}
  MaxNotices = 1
  MaxLogons = 1
  MaxPauses = 1
SPECIFICATION FairSpec
PROPERTY ResumedServiceRuns
CHECK_DEADLOCK FALSE

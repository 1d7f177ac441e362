CONSTANT MaxTriggers = 0
SPECIFICATION FairSpec
PROPERTY StopCompletes
CHECK_DEADLOCK FALSE

CONSTANT MaxTriggers = 2
SPECIFICATION FairSpec
INVARIANTS TypeOK AssertionsHold NoTurnAfterStop
PROPERTIES JobsFollowRegistration StopHangsOnlyOnLock
CHECK_DEADLOCK FALSE

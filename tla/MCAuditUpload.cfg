CONSTANTS
  Records = {r1, r2, r3}
  MaxRestarts = 1
  MaxFaults = 2
SPECIFICATION FairSpec
INVARIANTS TypeOK ArchivedOnce
PROPERTIES KeepsTrail RecordsArrive
CHECK_DEADLOCK FALSE

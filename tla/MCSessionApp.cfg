\* One session is started and stopped; its trays die.
SPECIFICATION FairSpec
CONSTANTS
    Trays <- MCTrays
    NoTray <- MCNoTray
    MaxDeaths = 3
    MaxLost = 2
INVARIANTS TypeOK KeeperStays
PROPERTIES StartEnds StopEnds StopQuitsTray TrayKept
\* The session is over.
CHECK_DEADLOCK FALSE

\* Calls, purges, creations and exits of one process id.
SPECIFICATION FairSpec
CONSTANTS
    Procs <- MCProcs
    Callers = {c1, c2}
    Nodes = {1, 2}
    Files <- MCFiles
    NoProc <- MCNoProc
    NoNode <- MCNoNode
    MaxLives = 2
INVARIANTS TypeOK OneNodePerProcess HeldNodeStays TreeSafe NoInheritedRights
PROPERTY WaitsEnd
\* The process may be gone for good.
CHECK_DEADLOCK FALSE

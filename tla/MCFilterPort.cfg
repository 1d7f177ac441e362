\* The service starts, handles two messages and stops.
SPECIFICATION FairSpec
CONSTANTS
    Calls <- MCCalls
    PortThreads <- MCPortThreads
    Workers <- MCWorkers
    NoCall <- MCNoCall
INVARIANTS TypeOK RepliedOnce QuietAfterStop
PROPERTIES RequestsAnswered StopEnds
\* The service ends.
CHECK_DEADLOCK FALSE

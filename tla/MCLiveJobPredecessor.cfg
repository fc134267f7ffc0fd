SPECIFICATION FairJobSpec
CONSTANTS
    Attended = FALSE
    N = 1
    MaxLease = 1
    MaxFaults = 1
    Retained <- MCPredecessor
    Stops = FALSE
PROPERTIES
    BecomesReady
CHECK_DEADLOCK FALSE

SPECIFICATION FairJobSpec
CONSTANTS
    Attended = FALSE
    N = 2
    MaxLease = 1
    MaxFaults = 0
    Retained <- MCFresh
    Stops = TRUE
PROPERTIES
    StopEnds
CHECK_DEADLOCK FALSE

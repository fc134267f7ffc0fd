SPECIFICATION FairJobSpec
CONSTANTS
    Attended = FALSE
    N = 2
    MaxLease = 1
    MaxFaults = 1
    Retained <- MCFresh
    Stops = FALSE
PROPERTIES
    ConfirmedEnds
    BecomesReady
CHECK_DEADLOCK FALSE

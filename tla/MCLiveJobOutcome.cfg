SPECIFICATION JobSpec
CONSTANTS
    Attended = FALSE
    N = 2
    MaxLease = 1
    MaxFaults = 1
    Retained <- MCFresh
    Stops = TRUE
INVARIANTS
    CancelledIsClean
    FaultedIsPrevented
CHECK_DEADLOCK FALSE

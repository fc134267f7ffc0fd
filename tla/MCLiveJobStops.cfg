SPECIFICATION JobSpec
CONSTANTS
    Attended = TRUE
    N = 2
    MaxLease = 2
    MaxFaults = 1
    Retained <- MCHeld
    Stops = TRUE
INVARIANTS
    JobIsTrue
PROPERTIES
    JobKeepsOrder
CHECK_DEADLOCK FALSE

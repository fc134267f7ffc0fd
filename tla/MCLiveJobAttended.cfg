SPECIFICATION JobSpec
CONSTANTS
    Attended = TRUE
    N = 2
    MaxLease = 3
    MaxFaults = 0
    Retained <- MCFresh
    Stops = FALSE
INVARIANTS
    HealthyJobGoesOn
CHECK_DEADLOCK FALSE

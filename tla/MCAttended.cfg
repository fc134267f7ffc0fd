SPECIFICATION Spec
CONSTANTS
    Attended = TRUE
    N = 1
    MaxLease = 4
    MaxFaults = 3
    Retained <- MCAny
INVARIANTS
    LeaseAgreed
CHECK_DEADLOCK FALSE

SPECIFICATION Spec
CONSTANTS
    Attended = FALSE
    N = 2
    MaxLease = 1
    MaxFaults = 1
    Retained <- MCMixed
INVARIANTS
    AllInstalledBeforeAnyConfirmed
    OutcomesHold
    CorrectReportAccepted
PROPERTIES
    ImplementsBarrier
    EndsAreFinal
CHECK_DEADLOCK FALSE

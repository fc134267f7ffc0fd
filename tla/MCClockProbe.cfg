SPECIFICATION HeartbeatsSpec
CONSTANTS
    TimerError = 1
    MaxSample = 3
    MaxSpan = 4
    MaxHistory = 2
    Identities = {1, 2}
    MaxTime = 6
    MaxBoots = 2
    MaxProbes = 3
    Firmwares = {1, 2}
    Supporting = {1}
    MaxCycle = 3
    MaxPolledBoots = 3
    MaxLosses = 1
INVARIANTS
    OffsetInside
    HistoryOfOneBoot
    NeverInconsistent
    HealthEvidence
PROPERTIES
    HealthFollows

SPECIFICATION Spec
CONSTANTS
    MaxNetworkTxn = 4
    MaxEvents = 3
    MaxTxn = 2
    MaxRun = 2
    MaxLosses = 2
    MaxBoots = 2
PROPERTIES
    RunFaultSelectsStop
CHECK_DEADLOCK FALSE

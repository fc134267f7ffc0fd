SPECIFICATION Spec
CONSTANTS
    MaxNetworkTxn = 4
    MaxEvents = 3
    MaxTxn = 2
    MaxRun = 2
    MaxLosses = 2
    MaxBoots = 2
INVARIANTS
    NetworkIsTrue
    InstallIsTrue
    RunIsTrue
PROPERTIES
    TransactionsEnd
CHECK_DEADLOCK FALSE

SPECIFICATION FairSpec
CONSTANTS
    c1 = c1
    c2 = c2
    Conns = {c1, c2}
    JobOps = 1
    MaxGenerations = 2
    MaxBoots = 2
    MaxFaults = 1
    MaxCommands = 2
    MaxQueue = 2
PROPERTIES
    JobProgresses
CHECK_DEADLOCK FALSE

SPECIFICATION Spec
CONSTANTS
    MaxShown = 2
    MaxEvents = 3
    MaxReloads = 1
    Chunks = 2
    BurstOps = 8
    MaxCapture = 2
    MaxFaults = 1
    MaxLost = 1
    Firmwares = {1}
    CapabilityRanges <- BuildCapabilityRanges
    Visuals <- BuildVisuals
    AssetRanges <- LongLastRanges
    RangesPerHeartbeat = 2
    MaxAsset = 2
    MaxTotal = 4
    MaxTransfers = 4
    MaxLosses = 0
    MaxGlitches = 0
    MaxBoots = 2
    MaxQueue = 2
PROPERTIES
    EachVisualShown
CHECK_DEADLOCK FALSE

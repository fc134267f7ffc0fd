SPECIFICATION Spec
CONSTANTS
    MaxShown = 2
    MaxEvents = 3
    MaxReloads = 1
    Chunks = 2
    BurstOps = 8
    MaxCapture = 2
    MaxFaults = 1
    MaxLost = 1
    Firmwares = {1, 2}
    CapabilityRanges <- BuildCapabilityRanges
    Visuals <- BuildVisuals
    AssetRanges <- BuildAssetRanges
    RangesPerHeartbeat = 2
    MaxAsset = 2
    MaxTotal = 3
    MaxTransfers = 4
    MaxLosses = 1
    MaxGlitches = 1
    MaxBoots = 2
    MaxQueue = 2
PROPERTIES
    WaveformPostedIsShown
CHECK_DEADLOCK FALSE

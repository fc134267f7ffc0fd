SPECIFICATION FairSpec
CONSTANTS
    ByteLen <- MCByteLen
    ChunkBytes = 2
    MaxFaults = 3
INVARIANTS
    CompleteIsPublished
    ManifestAfterPartition
    PrefixAgreed
PROPERTIES
    Delivered
CHECK_DEADLOCK FALSE

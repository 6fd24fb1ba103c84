CONSTANTS
    None                        = None
    EXPECTED_ABI_VERSION        = 2
    EXPECTED_ABI_FINGERPRINT    = 7
    BATCH_HEADER_LEN            = 12
    DEFAULT_INITIAL_BATCH_BYTES = 30
    DEFAULT_MAX_BATCH_BYTES     = 40
    HostMax                     = 1000
    U32_MAX                     = 255
    Bounds    <- MCBounds
    Sizes     <- MCSizes
    LimitsOf  <- MCLimitsOf
    Libraries <- MCLibraries
    Fields    <- MCFields
    Lengths   <- MCLengths
    Indices   <- MCIndices
    Counts    <- MCCounts
SPECIFICATION Spec
INVARIANTS
    SessionInv
    NothingBeforeTheHandshake
    SizesAreAsReported
    DescriptionsAreWhole

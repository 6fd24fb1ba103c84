CONSTANTS
    None     = None
    Contents <- MCContents
    Sizes    <- MCSizes
    Offsets  <- MCOffsets
SPECIFICATION Spec
INVARIANTS
    WalkInv
    NeverInternal
    OffsetsAreAccepted
    ResumedWalksStayOnRecords
CHECK_DEADLOCK FALSE

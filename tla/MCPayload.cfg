CONSTANTS
    None      = None
    MAX_COUNT = 255
    WideLimit = 65536
    HostMax   = 511
    Records   <- MCRecords
    Indices   <- MCIndices
SPECIFICATION Spec
INVARIANTS
    NoPayloadIsInternal
    DecodesTheFormat
    RunsTile
    ViewsReadTheirCounts
CHECK_DEADLOCK FALSE
